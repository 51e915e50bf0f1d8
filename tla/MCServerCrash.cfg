SPECIFICATION Spec
CONSTANTS
    Concurrency = 1
    Scoped = FALSE
    Kinds <- TwoKinds
    MaxReads = 1
    MaxNotes = 1
    MAX_PARSE_ERRORS = 1
    MaxSignals = 0
INVARIANTS
    NeverCrashes
CHECK_DEADLOCK FALSE
