SPECIFICATION FairSpec
CONSTANTS
    w1 = w1
    w2 = w2
    Worker <- TwoWorkers
    MaxJobs = 1
    MaxMessages = 2
INVARIANTS
    TypeOK
    AcceptsForAStream
    NoLostWakeup
PROPERTIES
    StopReturns
CHECK_DEADLOCK FALSE
