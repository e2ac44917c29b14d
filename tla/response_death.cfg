SPECIFICATION Spec
CONSTANTS
    MaxRequests = 1
    StreamCap = 2
    MaxWrites = 1
    MayDie = TRUE
INVARIANT NoSilentSuccess
CHECK_DEADLOCK FALSE
