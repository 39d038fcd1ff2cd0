SPECIFICATION Spec
CONSTANTS
    Clients = {c1, c2}
    Workers = {w1, w2}
    Sweepers = {s1}
    MaxAttempts = 1
    MaxStalls = 1
    StallBound = 1
    VersionBound = 3
    ApiMayCrash = TRUE
    DatabaseMayFail = TRUE
SYMMETRY Symmetry
INVARIANTS
    TypeOK
    OneLiveJob
    PurgeOnlyExpired
    ReminderDiesWithPause
PROPERTIES
    ExpireOnlyOverdue
    RefinesRunStateMachine
CHECK_DEADLOCK FALSE
