SPECIFICATION FairSpec
CONSTANTS
    c1 = c1
    c2 = c2
    s1 = s1
    s2 = s2
    tools = tools
    progress = progress
    NoConn = NoConn
    Conn <- OneConn
    Session <- NoSession
    Topic <- JustProgress
    Filterable <- NoTopic
    Kinds <- PostsOnly
    MaxQueued = 2
    MaxPending = 2
    MaxExchange = 3
    MaxNotes = 1
PROPERTIES
    ImplementsExchange
CHECK_DEADLOCK FALSE
