SPECIFICATION FairSpec
CONSTANTS
    w1 = w1  w2 = w2  None = None  o1 = o1
    Workers = {w1, w2}
    Objects = {o1}
    Labels = {0, 1}
    Owners = {TRUE, FALSE}
    Deletions = TRUE
    Relabels = TRUE
    WorkEnds = TRUE
    InformerStops = TRUE
    DeleteMayFail = TRUE
    Crashes = TRUE
    MaxChanges = 2
    MaxFailures = 2
PROPERTY StatusEventuallyReported
CHECK_DEADLOCK FALSE
