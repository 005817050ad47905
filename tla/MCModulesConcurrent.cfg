\* Two requests at a time, the gateway stays up.
SPECIFICATION Spec
CONSTANTS
    Handlers = {h1, h2}
    NoHandler = none
    Versions = {1, 2}
    Unregistrable = {2}
    NamespaceCollides = TRUE
    DbMayFail = TRUE
    MaxOps = 3
    MaxCrashes = 0
INVARIANTS
    SlotExclusion
    NoOrphanedSlot
PROPERTIES
    OnlyInstallsReturn
    UpgradeKeepsEnablement
CHECK_DEADLOCK FALSE
