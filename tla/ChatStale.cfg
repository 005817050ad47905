SPECIFICATION Spec
CONSTANTS
    Approvals = {a, b, x}
    Scoped = {a, b}
    Eligible = {a}
    NoApproval = none
    Alike <- Echo
    MaxDecisions = 1
    MaxTurns = 2
    MaxEvents = 5
INVARIANT AnswersThisTurn
CHECK_DEADLOCK FALSE
