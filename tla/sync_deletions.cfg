SPECIFICATION Spec
CONSTANTS
    w1 = w1  w2 = w2  None = None  o1 = o1
    Workers = {w1, w2}
    Objects = {o1}
    Labels = {0, 1, 2}
    Owners = {TRUE, FALSE}
    Deletions = TRUE
    Relabels = TRUE
    WorkEnds = TRUE
    InformerStops = TRUE
    DeleteMayFail = TRUE
    Crashes = TRUE
    MaxChanges = 3
    MaxFailures = 1
INVARIANT TypeOK
INVARIANT OneWorkerPerObject
INVARIANT LiveObjectsReported
INVARIANT LeftBehindExplained
PROPERTY StatusNeverRegresses
PROPERTY MirrorsStatus
SYMMETRY Threads
CHECK_DEADLOCK FALSE
