SPECIFICATION Spec
CONSTANTS
    Requests = {r1, r2}
    None = None
    Count = 2
    QueueCap = 2
    InboxCap = 2
    TaskCap = 2
    MaxJobs = 2
    HasMain = TRUE
    MaxReloads = 1
    Faults <- WhileOpen
    MaxFaults = 1
SYMMETRY RequestSymmetry
INVARIANTS
    TypeOK
    PermitConservation
    ServedOnce
    SlotAssertions
    JoinBeforeRespawn
    MainNeverRecycled
    NoSilentLoss
    NoLostReload
PROPERTY ImplementsDispatch
