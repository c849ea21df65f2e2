SPECIFICATION UtilSpec
CONSTANTS
    u1 = u1  u2 = u2  u3 = u3  g1 = g1  g2 = g2
    UIDs = {u1}
    GVRs = {g1}
    MaxLen = 1
    WorkUIDs <- OneWork
    Groups <- CoreGroup
    Versions <- OneVersion
    KindNames <- OneKind
    Namespaces <- Dashes
    Names <- ShortAndLong
    MaxNameLen = 20
    Chars <- Characters
    Lower <- LowerCase
INVARIANT NamesUnique
CHECK_DEADLOCK FALSE
