SPECIFICATION VideoSpec
CONSTANTS
    Requests = {r1}
    Ids = {j1}
    Keys = {k}
    NoKey = NoKey
    NoFile = NoFile
    Free = Free
    StaleAfter = 1
    Limits = {2}
    RunLimit = 1
    Kinds = {"create", "revise"}
    MaxClock = 4
    MaxOps = 3
    MaxCrashes = 0
PROPERTY CleanupSparesActive
CHECK_DEADLOCK FALSE
