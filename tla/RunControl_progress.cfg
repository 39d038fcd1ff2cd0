SPECIFICATION FairSpec
CONSTANTS
    Clients = {c1}
    Workers = {w1, w2}
    Sweepers = {s1}
    MaxAttempts = 2
    MaxStalls = 1
    StallBound = 1
    VersionBound = 3
    ApiMayCrash = FALSE
    DatabaseMayFail = FALSE
INVARIANTS
    NoStrandedRun
PROPERTIES
    RunComesToRest
CHECK_DEADLOCK FALSE
