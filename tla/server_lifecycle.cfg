SPECIFICATION FairSpec
CONSTANTS
    NPlugins = 2
    Slots = {s1, s2}
    MainThread = MainThread
INVARIANTS
    ReverseOrder
    NoPluginLeft
    OnlyMainJoins
PROPERTIES
    StopsBootedOnce
    ShutdownCompletes
    EverySlotServed
    LockIsGranted
CHECK_DEADLOCK FALSE
