\* Two requests that save at the same time.
SPECIFICATION Spec
CONSTANTS
    Savers = {s1, s2}
    Values = {v1, v2}
    Off = off
    Default = v1
    MaxUpdates = 2
    MaxCrashes = 0
INVARIANTS
    FileParses
CHECK_DEADLOCK FALSE
