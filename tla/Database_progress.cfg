SPECIFICATION FairSpec
CONSTANTS
    Clients = {c1}
    Workers = {w1}
    MaxAttempts = 2
    MaxStalls = 1
    MaxRecovery = 1
    StallBound = 1
    VersionBound = 2
    StallSurvives = FALSE
PROPERTIES
    OperationSettles
CHECK_DEADLOCK FALSE
