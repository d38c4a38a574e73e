\* History across erasures, idle suspension, the end of the process and restart.
SPECIFICATION SpecHistory
CONSTANTS
    Keys = {alice}
    Msgs = {m1, m2}
    MaxSessions = 2
    MaxTime = 2
    MaxCrashes = 1
    MaxConcurrent = 1
    QueueSize = 1
    StopReasons = {"end"}
    Agents = {claude}
    Registry = {claude}
    None = None
    HistoryLimit = 2
    MaxAge = 1
    QueueTimeout = 1
    IdleTimeout = 1
    MaxRoutes = 1
INVARIANTS
    ReplyFollowsQuestion
    RejectedLeavesNoTrace
PROPERTIES
    HistoryDurable
    ImplementsLife
SYMMETRY UserSymmetry
