SPECIFICATION Spec
CONSTANTS
    Requests = {r1, r2, r3}
    None = None
    Count = 2
    QueueCap = 2
    InboxCap = 2
    TaskCap = 1
    MaxJobs = 2
    HasMain = FALSE
    MaxReloads = 0
    Faults = {"panic", "death", "drop"}
    MaxFaults = 3
SYMMETRY RequestSymmetry
INVARIANTS
    GiveUpOnlyIfAllDead
    PoolMainNeverBlocks
    PermitHeldWhilePhpRuns
    SendNeverBlocks
CHECK_DEADLOCK FALSE
