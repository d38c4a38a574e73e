\* Every operation of the manager and of its callers, with time: one user, one
\* message with a picture, two session objects, one handler at a time. The view
\* leaves out what users and agents were told, which no property here is about.
SPECIFICATION RouterSpec
CONSTANTS
    Keys = {alice}
    Msgs = {m1}
    MediaMsgs = {m1}
    MaxSessions = 2
    MaxTime = 2
    MaxCrashes = 0
    MaxConcurrent = 1
    QueueSize = 1
    StopReasons = {"end"}
    Agents = {claude, codex, raw}
    Registry = {claude, codex}
    Defaults = {claude}
    None = None
    HistoryLimit = 2
    MaxAge = 1
    QueueTimeout = 1
    IdleTimeout = 1
    MaxRoutes = 1
INVARIANTS
    MappedIsLive
    MappedIsStoredActive
PROPERTIES
    FilesKeptWhileNeeded
VIEW WithoutReports
