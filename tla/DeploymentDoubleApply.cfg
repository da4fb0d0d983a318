SPECIFICATION Spec
CONSTANTS
    None = None
    MaxPlan = 1
    MaxCheck = 1
    Approval = {a1}
    Execution = {e1}
    Request = {r1, r2}
PROPERTIES
    NeverAppliedTwice
CHECK_DEADLOCK FALSE
