SPECIFICATION Spec
CONSTANTS
    Clients = {c1}
    Workers = {w1, w2}
    MaxAttempts = 1
    MaxStalls = 1
    MaxRecovery = 1
    StallBound = 1
    VersionBound = 2
    StallSurvives = TRUE
SYMMETRY Symmetry
INVARIANTS
    TypeOK
    ReadyIsUsable
    OneCommandPerVersion
PROPERTIES
    FencedExecutionLeavesRow
CHECK_DEADLOCK FALSE
