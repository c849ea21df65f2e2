SPECIFICATION FairSpec
CONSTANTS
    c1 = c1  c2 = c2
    Controllers = {c1, c2}
    MaxFaults = 3
INVARIANT TypeOK
INVARIANT GrantedMeansPermitted
INVARIANT WorkersStartSynced
PROPERTY PermissionsGranted
PROPERTY AgentWorksHealthy
CHECK_DEADLOCK FALSE
