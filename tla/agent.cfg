SPECIFICATION AgentSpec
CONSTANTS
    AW = AW  K = K  u1 = u1  u2 = u2  w1 = w1  w2 = w2  s1 = s1  s2 = s2
    None = None
    Works = {AW}
    UIDs = {u1, u2}
    Kinds = {K}
    KindOf <- SameKind
    Excluded = {}
    MayList <- AllInOne
    Workers = {w1, w2}
    Starters = {s1}
    InitServed = {K}
    CRDChurn = TRUE
    DiscoveryMayFail = TRUE
    Pace = "stepwise"
    MaxChanges = 3
    MaxRestarts = 1
    MaxObjectChanges = 2
    MaxFailures = 1
INVARIANT ListedObjectsReported
SYMMETRY Symmetry
CHECK_DEADLOCK FALSE
