SPECIFICATION AgentSpec
CONSTANTS
    AW = AW  K = K  u1 = u1  u2 = u2  w1 = w1  w2 = w2  s1 = s1  s2 = s2
    None = None
    Works = {AW}
    UIDs = {u1}
    Kinds = {K}
    KindOf <- SameKind
    Excluded = {}
    MayList <- AllInOne
    Workers = {w1, w2}
    Starters = {s1}
    InitServed = {K}
    CRDChurn = FALSE
    DiscoveryMayFail = FALSE
    Pace = "stepwise"
    MaxChanges = 3
    MaxRestarts = 0
    MaxObjectChanges = 2
    MaxFailures = 0
INVARIANT AllListedReported
SYMMETRY Symmetry
CHECK_DEADLOCK FALSE
