SPECIFICATION Spec
CONSTANTS
    Calls = {k1, k2}
    Runs = {r1, r2}
    LastDay = 1
    RunBudgets = {4, 6}
    WorkspaceCap = 6
    InputBytes = {0}
    OutputTokens = {1, 4}
    OutputLimit = 1
    Overhead = 1
    InputPrice = 1
    OutputPrice = 1
    Resends = 2
SYMMETRY Symmetry
INVARIANTS
    TypeOK
    LedgerCoversSpend
    NoCircularWait
PROPERTY
    SpendIsCapped
CHECK_DEADLOCK FALSE
