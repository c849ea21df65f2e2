SPECIFICATION Spec
CONSTANTS
    w1 = w1  w2 = w2  None = None  o1 = o1
    Workers = {w1}
    Objects = {o1}
    Labels = {0}
    Owners = {TRUE}
    Deletions = TRUE
    Relabels = FALSE
    WorkEnds = FALSE
    InformerStops = FALSE
    DeleteMayFail = TRUE
    Crashes = FALSE
    MaxChanges = 4
    MaxFailures = 1
INVARIANT DeletedObjectsCleared
CHECK_DEADLOCK FALSE
