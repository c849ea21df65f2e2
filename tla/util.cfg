SPECIFICATION UtilSpec
CONSTANTS
    u1 = u1  u2 = u2  u3 = u3  g1 = g1  g2 = g2
    UIDs = {u1, u2, u3}
    GVRs = {g1, g2}
    MaxLen = 3
    WorkUIDs <- TwoWorks
    Groups <- TwoGroups
    Versions <- TwoVersions
    KindNames <- TwoKinds
    Namespaces <- Dashes
    Names <- ShortAndLong
    MaxNameLen = 11
    Chars <- Characters
    Lower <- LowerCase
INVARIANT DifferencesOfUIDs
INVARIANT IndexesAgree
INVARIANT KeysTellApart
SYMMETRY Symmetry
CHECK_DEADLOCK FALSE
