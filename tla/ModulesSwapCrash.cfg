\* An upgrade and a crash.
SPECIFICATION Spec
CONSTANTS
    Handlers = {h1}
    NoHandler = none
    Versions = {1}
    Unregistrable = {}
    NamespaceCollides = FALSE
    DbMayFail = FALSE
    MaxOps = 2
    MaxCrashes = 1
INVARIANTS
    UserDataReachable
CHECK_DEADLOCK FALSE
