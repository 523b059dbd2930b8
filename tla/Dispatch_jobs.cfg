SPECIFICATION LiveSpec
CONSTANTS
    j1 = j1
    j2 = j2
    j3 = j3
    j4 = j4
    j5 = j5
    NoJob = NoJob
    Jobs <- FiveJobs
    NumWorkers = 2
    QueueLength = 2
    MaxFails = 2
CHECK_DEADLOCK FALSE
INVARIANTS
    PoolHoldsIdle
    StopLeavesTheQueue
    WedgeNeedsAFullHouse
PROPERTIES
    JobGetsDone
    StopEnds
    IsAJobQueue
