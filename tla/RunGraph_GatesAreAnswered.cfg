SPECIFICATION Spec
CONSTANTS
    Nodes <- PlanGate
    Required <- CodeRequired
    HasReferences = FALSE
    Workers = {w1, w2}
    MaxAttempts = 1
    MaxStalls = 1
    MaxRepairs = 0
    StallBound = 1
    VersionBound = 3
    FileBound = 0
    StallSurvives = TRUE
    PlanMayChange = FALSE
SYMMETRY Symmetry
INVARIANTS
    GatesAreAnswered
CHECK_DEADLOCK FALSE
