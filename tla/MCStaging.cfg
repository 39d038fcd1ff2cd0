SPECIFICATION Spec
CONSTANTS
    Own = Own
    Others = {p1, p2}
    Costs = {0, 1, 2, 3}
    Target = 2
    Commits = {r1, r2}
    Tickets = {t1, t2}
    RoleSeq <- TwoRoles
    AttemptBound = 3
    Agents = {a1, a2}
    Route = {a1}
    MaxEvents = 6
    MemberBound = 1
    PollBound = 1
    Applications = {"web", "worker"}
    Worker = "worker"
    StoreSeq <- ThreeStores
    DataBound = 2
    Operators = {o1, o2}
    AppIds = {i1, i2}
    AccessRoles = {"reader", "operator"}
    SecretSeq <- TwoSecrets
    ClientId = "AZURE_CLIENT_ID"
    FailBound = 1
    None = None
    Unused = Unused
INVARIANTS
    EvidenceIsEarned
    FailureIsSaid
PROPERTY
    ForeignIsSafe
CHECK_DEADLOCK FALSE
