\* Two handlers at a time: commands race messages and each other, with every kind
\* of default agent and one end of the process; no pictures.
SPECIFICATION SpecChat
CONSTANTS
    Keys = {alice}
    Msgs = {m1}
    MediaMsgs = {}
    MaxSessions = 2
    MaxTime = 0
    MaxCrashes = 1
    MaxConcurrent = 1
    QueueSize = 1
    StopReasons = {"end", "cancelled"}
    Agents = {claude, codex, raw}
    Registry = {claude, codex}
    Defaults = {None, claude, raw}
    None = None
    HistoryLimit = 2
    MaxAge = 1
    QueueTimeout = 1
    IdleTimeout = 1
    MaxRoutes = 2
INVARIANTS
    RouterTypeOK
    AgentAsTold
