SPECIFICATION LiveSpec
CONSTANTS
    cpu = cpu
    mem = mem
    tick = tick
    Lines = {1, 2}
    LineKeys <- ManyLineKeys
    Flushers = {tick}
    LineLen = 1
    InputLen = 1
    Resolution = 2
    Workers = 2
    JobLen = 2
    MetricQLen = 1
    QueueMax = 1
    MaxTicks = 2
    MaxTwice = 1
INVARIANTS
    NoLineVanishes
    NoLineTwice
    WrittenInOrder
PROPERTIES
    LineIsWritten
    StopReturns
CHECK_DEADLOCK FALSE
