SPECIFICATION FolkSpec
CONSTANTS
    Requests = {r1, r2, r3, r4}
    None = None
    Count = 2
    QueueCap = 2
    InboxCap = 2
    TaskCap = 2
    MaxJobs = 2
    HasMain = TRUE
    MaxReloads = 1
    Faults = {"exec_timeout", "replace"}
    MaxFaults = 1
SYMMETRY RequestSymmetry
INVARIANTS UnansweredOnlyInCircle StopsOnlyQuiescent
PROPERTY CircleIsForEver
CHECK_DEADLOCK FALSE
