SPECIFICATION LiveSpec
CONSTANTS
    cpu = cpu
    w1 = w1
    w2 = w2
    Series = {cpu}
    NumChunks = 3
    Resolutions <- TwoResolutions
    Modes = {"blast", "queue"}
    Workers = {w1, w2}
    MaxFaults = 1
INVARIANTS
    NothingIsMissed
PROPERTIES
    ChunkIsRolledUp
    WorkersEnd
CHECK_DEADLOCK FALSE
