SPECIFICATION FairSpec
CONSTANTS
    Requests = {r1, r2}
    None = None
    Count = 1
    QueueCap = 2
    InboxCap = 2
    TaskCap = 2
    MaxJobs = 2
    HasMain = FALSE
    MaxReloads = 1
    Faults <- FaultKinds
    MaxFaults = 2
PROPERTIES
    EveryCallAnswered
    PoolShutsDown
CHECK_DEADLOCK FALSE
