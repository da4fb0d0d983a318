SPECIFICATION Spec
CONSTANTS
    None = None
    Day7 = 1
    Day30 = 2
    Day60 = 3
    Day90 = 4
    MaxTime = 7
    MaxRetry = 3
    Deletion = {d1, d2, d3}
    Session = {s1, s2}
    Admin = {a1, a2}
SYMMETRY Symmetry
INVARIANTS
    TypeOK
    PeriodsAreGranted
    OpenNeedsSchedule
    ApprovalsAreKept
PROPERTIES
    CancelledIsFinal
CHECK_DEADLOCK FALSE
