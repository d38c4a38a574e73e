\* Liveness: no symmetry. The process goes on, and no session becomes idle.
SPECIFICATION SpecLive
CONSTANTS
    Keys = {alice}
    Msgs = {m1, m2}
    MaxSessions = 2
    MaxTime = 0
    MaxCrashes = 0
    MaxConcurrent = 1
    QueueSize = 1
    StopReasons = {"end"}
    Agents = {claude}
    Registry = {claude}
    None = None
    HistoryLimit = 2
    MaxAge = 1
    QueueTimeout = 1
    IdleTimeout = 1
    MaxRoutes = 1
PROPERTIES
    CancelledExits
    StopQuiesces
    QueueDrains
    ImplementsLife
