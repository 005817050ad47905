\* Two requests at a time and a restart.
SPECIFICATION Spec
CONSTANTS
    Handlers = {h1, h2}
    NoHandler = none
    Versions = {1}
    Unregistrable = {}
    NamespaceCollides = FALSE
    DbMayFail = FALSE
    MaxOps = 3
    MaxCrashes = 1
INVARIANTS
    RemovalIsPermanent
CHECK_DEADLOCK FALSE
