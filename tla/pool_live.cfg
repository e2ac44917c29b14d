SPECIFICATION FairSpec
CONSTANTS
    Requests = {r1, r2}
    None = None
    Count = 2
    QueueCap = 2
    InboxCap = 2
    TaskCap = 2
    MaxJobs = 2
    HasMain = TRUE
    MaxReloads = 1
    Faults = {}
    MaxFaults = 0
PROPERTIES
    EveryCallAnswered
    ReloadReachesSlots
