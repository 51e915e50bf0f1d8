SPECIFICATION FairSpec
CONSTANTS
    Concurrency = 1
    Scoped = FALSE
    Kinds <- AllKinds
    MaxReads = 2
    MaxNotes = 2
    MAX_PARSE_ERRORS = 1
    MaxSignals = 1
INVARIANTS
    TypeOK
    NotificationsInOrder
PROPERTIES
    NotificationsWritten
CHECK_DEADLOCK FALSE
