SPECIFICATION NotificationSpec
CONSTANTS
    Nothing = Nothing
    Service = {s1, s2}
    MaxAttempts = 2
    BackoffUnit = 1
    BackoffCap = 2
    MaxTime = 2
SYMMETRY Symmetry
INVARIANTS
    NotificationTypeOK
    MailedOnce
PROPERTIES
    ReadSurvivesRunning
CHECK_DEADLOCK FALSE
