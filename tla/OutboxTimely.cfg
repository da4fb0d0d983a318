SPECIFICATION FairSpec
CONSTANTS
    None = None
    Job = {j1, j2}
    Worker = {w1, w2}
    Admin = {a1}
    MaxAttempts = 2
    AttemptCap = 3
    LeaseTicks = 2
    MaxBackoff = 1
    MaxLapses = 1
    Timely = TRUE
INVARIANTS
    AttemptAccounting
PROPERTIES
    CommitUnderLease
    LeaseExclusive
    ImplementsQueue
    JobsSettle
CHECK_DEADLOCK FALSE
