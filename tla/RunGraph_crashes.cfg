SPECIFICATION Spec
CONSTANTS
    Nodes <- BothGates
    Required <- AllRequired
    HasReferences = FALSE
    Workers = {w1}
    MaxAttempts = 2
    MaxStalls = 1
    MaxRepairs = 0
    StallBound = 1
    VersionBound = 6
    FileBound = 0
    StallSurvives = FALSE
    PlanMayChange = FALSE
SYMMETRY Symmetry
INVARIANTS
    TypeOK
    GatesAreAnswered
    CompletedRunIsWhole
    ThreadAgreesWithTasks
PROPERTIES
    CompletedTaskStays
CHECK_DEADLOCK FALSE
