SPECIFICATION Spec
CONSTANTS
    None = None
    customer = customer
    manager = manager
    User = {customer, manager}
    Participant = {customer, manager}
    Privileged = {manager}
    Approver = {customer}
    Message = {m1, m2}
    Change = {c1, c2}
    Version = {v1}
    Session = {s1, s2}
SYMMETRY Symmetry
INVARIANTS
    TypeOK
    RequestsAreDecidedOnce
PROPERTIES
    DeletedIsFinal
CHECK_DEADLOCK FALSE
