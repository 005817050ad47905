SPECIFICATION FairSpec
CONSTANTS
    N = 3
    MaxConnections = 2
    MaxInFlight = 5
    MaxRequest = 4
    UsizeMax = 7
    BodySizes = {2, 5}
    ChunkSizes = {0, 1, 2}
    ReadAhead = 1
INVARIANTS
    WithinLimits
    ConnectionsCounted
    BytesCounted
    RejectionsHoldNoBytes
    ServedWithinRequestLimit
PROPERTIES
    BacklogServed
    ExitsRelease
    ImplementsLimits
