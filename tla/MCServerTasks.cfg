SPECIFICATION FairSpec
CONSTANTS
    Concurrency = 2
    Scoped = TRUE
    Kinds = {"request"}
    MaxReads = 3
    MaxNotes = 1
    MAX_PARSE_ERRORS = 1
    MaxSignals = 0
INVARIANTS
    TransportOutlivesTasks
    ScopedToExchange
PROPERTIES
    MessagesEnd
CHECK_DEADLOCK FALSE
