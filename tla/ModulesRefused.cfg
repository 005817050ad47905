\* An install that the registry refuses, beside a module found in addons.
SPECIFICATION Spec
CONSTANTS
    Handlers = {h1}
    NoHandler = none
    Versions = {1, 2}
    Unregistrable = {2}
    NamespaceCollides = FALSE
    DbMayFail = FALSE
    MaxOps = 2
    MaxCrashes = 0
PROPERTIES
    InstallsSpareData
CHECK_DEADLOCK FALSE
