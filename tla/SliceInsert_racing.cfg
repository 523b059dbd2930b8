SPECIFICATION LiveSpec
CONSTANTS
    s1 = s1
    s2 = s2
    s3 = s3
    w1 = w1
    w2 = w2
    Series <- ThreeSeries
    Workers <- TwoWorkers
    MaxFails = 3
    MayGiveUp = TRUE
CHECK_DEADLOCK FALSE
INVARIANTS
    WaitCountsOpen
    WrittenBeforePurge
PROPERTIES
    PurgeReached
