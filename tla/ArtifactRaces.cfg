SPECIFICATION Spec
CONSTANTS
    None = None
    MaxVersion = 3
    MaxRevision = 2
    Comment = {c1}
    Upload = {u1}
    Request = {r1, r2}
SYMMETRY Symmetry
INVARIANTS
    TypeOK
    DecidedOnce
    KnownCriticalBlocks
PROPERTIES
    ApprovesTheCurrent
CHECK_DEADLOCK FALSE
