SPECIFICATION Spec
CONSTANTS
    Approvals = {a, b}
    Scoped = {a, b}
    Eligible = {a, b}
    NoApproval = none
    Alike <- Apart
    MaxDecisions = 1
    MaxTurns = 2
    MaxEvents = 5
INVARIANT DecisionsWithinJob
CHECK_DEADLOCK FALSE
