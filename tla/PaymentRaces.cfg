SPECIFICATION Spec
CONSTANTS
    None = None
    Contract = {c1}
    Key = {k1, k2}
    Event = {e1}
    Request = {r1, r2}
SYMMETRY Symmetry
INVARIANTS
    TypeOK
    ActiveMeansBothAccepted
    PaidMeansRequirements
PROPERTIES
    ImplementsPurchase
CHECK_DEADLOCK FALSE
