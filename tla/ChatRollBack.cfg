SPECIFICATION Spec
CONSTANTS
    Approvals = {a, b, x}
    Scoped = {a, b}
    Eligible = {a}
    NoApproval = none
    Alike <- Apart
    MaxDecisions = 1
    MaxTurns = 2
    MaxEvents = 5
PROPERTY RollBackStops
CHECK_DEADLOCK FALSE
