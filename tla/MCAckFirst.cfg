CONSTANTS
    c1 = c1
    c2 = c2
    s1 = s1
    s2 = s2
    tools = tools
    progress = progress
    NoConn = NoConn
    Conn <- TwoConns
    Session <- NoSession
    Topic <- JustTools
    Filterable <- JustTools
    Kinds <- Listening
    MaxQueued = 2
    MaxPending = 2
    MaxExchange = 1
    MaxNotes = 1
SPECIFICATION Spec
PROPERTIES
    AckFirst
CHECK_DEADLOCK FALSE
