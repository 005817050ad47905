\* One request at a time, crashes anywhere.
SPECIFICATION Spec
CONSTANTS
    Savers = {s1}
    Values = {v1, v2}
    Off = off
    Default = v1
    MaxUpdates = 4
    MaxCrashes = 3
INVARIANTS
    FileParses
    AckedInForce
PROPERTIES
    ImplementsCell
CHECK_DEADLOCK FALSE
