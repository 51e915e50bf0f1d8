SPECIFICATION FairSpec
CONSTANTS
    p1 = p1
    p2 = p2
    tools = tools
    prompts = prompts
    r1 = r1
    Path = {p1, p2}
    Type = {tools, prompts}
    Request = {r1}
    MaxEdits = 3
    MaxCopies = 2
    MaxBroken = 1
INVARIANTS
    TypeOK
    OneEntryPerPath
    RunsItsFingerprint
    InUseIsAlive
    NoStrayCopy
    ChangesAnnounced
    UnloadedForGood
PROPERTIES
    BrokenUpdateKeepsOld
    Converges
CHECK_DEADLOCK FALSE
