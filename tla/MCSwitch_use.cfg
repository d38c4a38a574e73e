\* A conversation, then another agent for it. The system stops when the messages
\* and the session objects are used up.
SPECIFICATION SpecSwitch
CONSTANTS
    Keys = {alice}
    Msgs = {m1, m2}
    MediaMsgs = {}
    MaxSessions = 2
    MaxTime = 0
    MaxCrashes = 0
    MaxConcurrent = 1
    QueueSize = 1
    StopReasons = {"end"}
    Agents = {claude, codex, raw}
    Registry = {claude, codex}
    Defaults = {claude}
    None = None
    HistoryLimit = 2
    MaxAge = 1
    QueueTimeout = 1
    IdleTimeout = 1
    MaxRoutes = 1
INVARIANTS
    SwitchedStartsFresh
CHECK_DEADLOCK FALSE
