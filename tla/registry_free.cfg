SPECIFICATION Spec
CONSTANTS
    n1 = n1  n2 = n2  u1 = u1  u2 = u2  u3 = u3  k1 = k1  k2 = k2
    w1 = w1  w2 = w2  s1 = s1  s2 = s2  None = None
    Works = {n1}
    UIDs = {u1, u2, u3}
    Kinds = {k1, k2}
    KindOf <- WithExcluded
    Excluded = {k2}
    MayList <- AllInOne
    Workers = {w1, w2}
    Starters = {s1, s2}
    InitServed = {k1, k2}
    CRDChurn = TRUE
    DiscoveryMayFail = TRUE
    Pace = "free"
    MaxChanges = 2
    MaxRestarts = 1
INVARIANT TypeOK
INVARIANT ListedObjectsCounted
INVARIANT ClosedStopperIsBeingRemoved
INVARIANT ListedWorksTracked
SYMMETRY ThreadsAndUIDs
CHECK_DEADLOCK FALSE
