SPECIFICATION Spec
CONSTANTS
    n1 = n1  n2 = n2  u1 = u1  u2 = u2  u3 = u3  k1 = k1  k2 = k2
    w1 = w1  w2 = w2  s1 = s1  s2 = s2  None = None
    Works = {n1, n2}
    UIDs = {u1, u2}
    Kinds = {k1}
    KindOf <- SameKind
    Excluded = {}
    MayList <- Disjoint
    Workers = {w1, w2}
    Starters = {s1, s2}
    InitServed = {k1}
    CRDChurn = FALSE
    DiscoveryMayFail = FALSE
    Pace = "free"
    MaxChanges = 4
    MaxRestarts = 0
INVARIANT StopNeverPanics
SYMMETRY Threads
CHECK_DEADLOCK FALSE
