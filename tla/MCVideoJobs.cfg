SPECIFICATION VideoSpec
CONSTANTS
    Requests = {r1, r2}
    Ids = {j1, j2}
    Keys = {k}
    NoKey = NoKey
    NoFile = NoFile
    Free = Free
    StaleAfter = 1
    Limits = {0, 2, 3}
    RunLimit = 2
    Kinds = {"create", "revise", "poll", "edit"}
    MaxClock = 4
    MaxOps = 4
    MaxCrashes = 1
SYMMETRY Alike
INVARIANTS SingleFlight RecordOutlivesPrompt
PROPERTY RevisionsKept
CHECK_DEADLOCK FALSE
