CONSTANTS
    operator = operator
    approver = approver
    Callers = {operator, approver}
    Does <- OperatorAndApprover
    Plans = {v1, v2}
    HighPlans = {v2}
    Votable = {v1, v2}
    Gated = {v1}
    Faulty = {approver}
    Seeded = TRUE
    MaxRows = 2
    NoPlan = NoPlan
    Gate = Gate
SPECIFICATION Spec
INVARIANTS
    OneApply
    DecisionMirrored
    ConsentBeforeStart
PROPERTIES
    ClosedStands
CHECK_DEADLOCK FALSE
