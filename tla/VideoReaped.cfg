SPECIFICATION VideoSpec
CONSTANTS
    Requests = {r1, r2}
    Ids = {j1, j2}
    Keys = {k}
    NoKey = NoKey
    NoFile = NoFile
    Free = Free
    StaleAfter = 1
    Limits = {0}
    RunLimit = 1
    Kinds = {"create", "poll"}
    MaxClock = 3
    MaxOps = 4
    MaxCrashes = 0
INVARIANT NeverTwoPrompts
CHECK_DEADLOCK FALSE
