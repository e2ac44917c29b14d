SPECIFICATION HotFairSpec
CONSTANTS
    Requests = {r1, r2}
    None = None
    Count = 1
    QueueCap = 2
    InboxCap = 2
    TaskCap = 2
    MaxJobs = 3
    HasMain = FALSE
    MaxReloads = 2
    Faults <- SlowFaults
    MaxFaults = 1
    MaxEdits = 2
INVARIANTS
    FreshOrPending
    StaleAtMostOnce
PROPERTIES
    EditReachesWorkers
