SPECIFICATION Spec
CONSTANTS
    p1 = p1
    p2 = p2
    p3 = p3
    Points <- OnePoint
    ZeroTime = {}
    NumChunks = 1
    MaxIdle = 1
    Backend = "cassandra"
    ShouldWrite = TRUE
    LogPart = 1
    FaultKinds = {}
    MaxFaults = 0
    MaxCrashes = 0
INVARIANTS
    ChunkedPointIsLogged
