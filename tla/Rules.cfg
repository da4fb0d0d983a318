SPECIFICATION RulesSpec
CONSTANTS
    NoHint = NoHint
    Never = Never
    Hour = 2
    Day = 12
    DigestAt = 4
    LastEvent = 24
    Address = {staging_root, other_root}
    Expected = staging_root
    MaxChanges = 3
    Minute = 3
    MaxDuration = 10
INVARIANTS
    RulesAgree
CHECK_DEADLOCK FALSE
