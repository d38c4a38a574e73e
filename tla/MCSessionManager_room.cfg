\* Three users on a manager with room for two sessions. The system stops when
\* the messages and the session objects are used up.
SPECIFICATION SpecRoom
CONSTANTS
    Keys = {alice, bob, carol}
    Msgs = {m1, m2}
    MaxSessions = 3
    MaxTime = 2
    MaxCrashes = 0
    MaxConcurrent = 2
    QueueSize = 1
    StopReasons = {"end"}
    Agents = {claude, raw}
    Registry = {claude}
    None = None
    HistoryLimit = 2
    MaxAge = 1
    QueueTimeout = 1
    IdleTimeout = 1
    MaxRoutes = 1
INVARIANTS
    TypeOK
    UsersIsolated
PROPERTIES
    PendingSparedFromOthers
    OverLimitOnlyWhenAllBusy
    EvictsLeastRecent
SYMMETRY UserSymmetry
CHECK_DEADLOCK FALSE
