SPECIFICATION Spec
CONSTANTS
    None = None
    Job = {j1}
    Worker = {w1, w2, w3}
    Admin = {a1, a2}
    MaxAttempts = 2
    AttemptCap = 4
    LeaseTicks = 2
    MaxBackoff = 1
    MaxLapses = 3
    Timely = FALSE
SYMMETRY Symmetry
INVARIANTS
    TypeOK
    ProcessingIsReclaimable
    CompletedHasEffect
    DuplicatesNeedALapse
PROPERTIES
    FencedCompletion
CHECK_DEADLOCK FALSE
