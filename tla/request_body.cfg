SPECIFICATION Spec
CONSTANTS
    MaxRequests = 2
    MaxItems = 5
    MaxNextItems = 2
    MaxChunk = 2
    MaxRead = 2
    DefaultRead = 3
INVARIANTS
    RawConservation
    NoForeignBytes
    BytesOfCurrentPart
    PartsWhole
    NoPartSkipped
    EmptyReadMeansEnd
