\* One request at a time, crashes anywhere.
SPECIFICATION Spec
CONSTANTS
    Handlers = {h1}
    NoHandler = none
    Versions = {1, 2, 3}
    Unregistrable = {3}
    NamespaceCollides = FALSE
    DbMayFail = FALSE
    MaxOps = 3
    MaxCrashes = 2
INVARIANTS
    DurableAck
    RemovalIsPermanent
    UserDataSafe
CHECK_DEADLOCK FALSE
