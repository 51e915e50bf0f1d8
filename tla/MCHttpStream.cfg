SPECIFICATION FairSpec
CONSTANTS
    w1 = w1
    w2 = w2
    init = init
    other = other
    call = call
    NoRequest = NoRequest
    Released = Released
    Worker <- TwoWorkers
    MaxJobs = 1
    Request <- InitAndCall
    Initialize <- OneInit
    Id <- InitAndCall
    IdOf <- OwnIds
    MaxNotes = 1
INVARIANTS
    TypeOK
    RegisteredIffWaiting
    OnlyLateAnswersStream
    NobodyReleased
PROPERTIES
    ImplementsExchange
    StopReturns
    QueueMovesOn
CHECK_DEADLOCK FALSE
