SPECIFICATION Spec
CONSTANTS
    Requests = {r1, r2, r3, r4}
    None = None
    Count = 1
    QueueCap = 2
    InboxCap = 2
    TaskCap = 2
    MaxJobs = 4
    HasMain = TRUE
    MaxReloads = 0
    Faults = {"exec_timeout"}
    MaxFaults = 3
SYMMETRY RequestSymmetry
INVARIANT SendNeverBlocks
