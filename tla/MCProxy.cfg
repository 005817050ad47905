\* One request, with the turns others draw; bodies of up to three pieces against limits of two.
SPECIFICATION Spec
CONSTANTS
    Requests = {r1}
    Configs <- MCConfigs
    Names <- MCNames
    Turns = 4
    MaxPieces = 3
    MaxStream = 2
    MaxRewrite = 2
CHECK_DEADLOCK FALSE
INVARIANT RefusedAfterAll
INVARIANT EndMeansWhole
PROPERTY CommittedOnce
