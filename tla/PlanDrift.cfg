CONSTANTS
    operator = operator
    approver = approver
    Callers = {operator, approver}
    Does <- PlannerAndApplier
    Plans = {v1, v2}
    HighPlans = {v2}
    Votable = {v1, v2}
    Gated = {}
    Faulty = {}
    Seeded = FALSE
    MaxRows = 2
    NoPlan = NoPlan
    Gate = Gate
SPECIFICATION Spec
INVARIANTS
    AppliedWasApproved
CHECK_DEADLOCK FALSE
