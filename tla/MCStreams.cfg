SPECIFICATION Spec
CONSTANTS
    c1 = c1
    c2 = c2
    s1 = s1
    s2 = s2
    tools = tools
    progress = progress
    NoConn = NoConn
    Conn <- TwoConns
    Session <- OneSession
    Topic <- JustTools
    Filterable <- NoTopic
    Kinds <- Streaming
    MaxQueued = 1
    MaxPending = 1
    MaxExchange = 3
    MaxNotes = 1
INVARIANTS
    OneStreamPerSession
SYMMETRY SymmetricConns
CHECK_DEADLOCK FALSE
