SPECIFICATION Spec
CONSTANTS
    w1 = w1
    w2 = w2
    init = init
    other = other
    call = call
    NoRequest = NoRequest
    Released = Released
    Worker <- TwoWorkers
    MaxJobs = 1
    Request <- TwoInits
    Initialize <- TwoInits
    Id <- FromOne
    IdOf <- AllFirst
    MaxNotes = 1
INVARIANTS
    OwnAnswer
CHECK_DEADLOCK FALSE
