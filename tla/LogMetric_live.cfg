SPECIFICATION LiveSpec
CONSTANTS
    p1 = p1
    p2 = p2
    p3 = p3
    Points <- TwoPoints
    ZeroTime = {}
    NumChunks = 1
    MaxIdle = 0
    Backend = "cassandra"
    ShouldWrite = TRUE
    LogPart = 1
    FaultKinds = {"log", "insert", "purge", "read"}
    MaxFaults = 1
    MaxCrashes = 1
PROPERTIES
    EventuallyWritten
