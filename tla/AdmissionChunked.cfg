SPECIFICATION Spec
CONSTANTS
    N = 2
    MaxConnections = 2
    MaxInFlight = 5
    MaxRequest = 4
    UsizeMax = 7
    BodySizes = {2, 5}
    ChunkSizes = {0, 1, 2}
    ReadAhead = 1
PROPERTIES
    RefusedOnlyForPayload
