CONSTANTS
    c1 = c1
    c2 = c2
    s1 = s1
    s2 = s2
    tools = tools
    progress = progress
    NoConn = NoConn
    Conn <- TwoConns
    Session <- TwoSessions
    Topic <- JustTools
    Filterable <- NoTopic
    Kinds <- GetAndJson
    MaxQueued = 1
    MaxPending = 1
    MaxExchange = 4
    MaxNotes = 1
SPECIFICATION Spec
INVARIANTS
    SessionsIsolated
SYMMETRY SymmetricAll
CONSTRAINT StaysUp
CHECK_DEADLOCK FALSE
