SPECIFICATION Spec
CONSTANTS
    Clients = {c1}
    Workers = {w1}
    MaxAttempts = 2
    MaxStalls = 1
    MaxRecovery = 1
    StallBound = 0
    VersionBound = 2
    StallSurvives = FALSE
PROPERTIES
    DeletionIsNotUndone
CHECK_DEADLOCK FALSE
