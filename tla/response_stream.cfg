SPECIFICATION FairSpec
CONSTANTS
    MaxRequests = 2
    StreamCap = 2
    MaxWrites = 2
    MayDie = TRUE
INVARIANTS
    StreamWellFormed
    DoneAfterEnd
    AnswerDelivered
PROPERTIES
    SendCompletes
CHECK_DEADLOCK FALSE
