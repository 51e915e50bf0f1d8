SPECIFICATION Spec
CONSTANTS
    c1 = c1
    c2 = c2
    s1 = s1
    s2 = s2
    tools = tools
    progress = progress
    NoConn = NoConn
    Conn <- TwoConns
    Session <- NoSession
    Topic <- JustTools
    Filterable <- JustTools
    Kinds <- PostsAndListen
    MaxQueued = 1
    MaxPending = 1
    MaxExchange = 2
    MaxNotes = 1
INVARIANTS
    TypeOK
    PostIsolated
    FilterRespected
    AnsweredOnce
    RegisteredIffServed
    StopReachesWorkers
    ReplyIsLast
SYMMETRY SymmetricConns
CHECK_DEADLOCK FALSE
