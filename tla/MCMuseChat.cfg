SPECIFICATION Spec
CONSTANTS
    Approvals = {a, b, x}
    Scoped = {a, b}
    Eligible = {a}
    NoApproval = none
    Alike <- Apart
    MaxDecisions = 1
    MaxTurns = 2
    MaxEvents = 5
INVARIANT AnswersThisTurn PastGrantedOnly
CHECK_DEADLOCK FALSE
