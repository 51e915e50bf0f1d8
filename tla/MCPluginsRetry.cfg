SPECIFICATION FairSpec
CONSTANTS
    p1 = p1
    p2 = p2
    tools = tools
    prompts = prompts
    r1 = r1
    Path = {p1}
    Type = {tools}
    Request = {r1}
    MaxEdits = 3
    MaxCopies = 2
    MaxBroken = 0
PROPERTIES
    ChangedIsRetried
CHECK_DEADLOCK FALSE
