SPECIFICATION LiveSpec
CONSTANTS
    cpu = cpu
    mem = mem
    Series <- SomeSeries
    Topics <- TwoTopics
    Modes <- EveryMode
    FirstOffset = 1
    LocalMark = TRUE
    MaxPoints = 0
    MaxKeys = 1
    OverflowLen = 2
    MarkLen = 1
    MaxRestarts = 1
    MaxFaults = 1
INVARIANTS
    MarksAreSafe
    NothingForgotten
PROPERTY
    EveryPointIsStored
CHECK_DEADLOCK FALSE
