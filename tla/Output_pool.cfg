SPECIFICATION LiveSpec
CONSTANTS
    l1 = l1
    l2 = l2
    w1 = w1
    w2 = w2
    NoLine = NoLine
    Lines = {l1, l2}
    Workers = {w1, w2}
    MaxConnections = 2
    BufferSize = 1
    MaxPools = 2
    MaxFaults = 2
INVARIANTS
    ConnInOnePlace
    AcceptedIsKept
PROPERTIES
    LineIsAccepted
    FlushedInTime
CHECK_DEADLOCK FALSE
