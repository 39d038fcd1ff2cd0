SPECIFICATION Spec
CONSTANTS
    Nodes <- PlanGate
    Required <- CodeRequired
    HasReferences = FALSE
    Workers = {w1, w2}
    MaxAttempts = 1
    MaxStalls = 1
    MaxRepairs = 1
    StallBound = 1
    VersionBound = 3
    FileBound = 2
    StallSurvives = TRUE
    PlanMayChange = TRUE
SYMMETRY Symmetry
INVARIANTS
    NoLostRevision
PROPERTIES
    StoppedRunIsFenced
CHECK_DEADLOCK FALSE
