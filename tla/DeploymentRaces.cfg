SPECIFICATION Spec
CONSTANTS
    None = None
    MaxPlan = 2
    MaxCheck = 1
    Approval = {a1, a2}
    Execution = {e1, e2}
    Request = {r1, r2}
SYMMETRY Symmetry
INVARIANTS
    TypeOK
    TwoPeople
    OneDeployablePlan
CHECK_DEADLOCK FALSE
