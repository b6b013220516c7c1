SPECIFICATION FairSpec
CONSTANTS
    Ops <- MCOps
    DiskMayFill = FALSE
    MaxTimeout = 2
    MaxRetry = 2
    MaxDup = 1
CHECK_DEADLOCK FALSE
INVARIANTS
    DumpComplete
PROPERTIES
    InOrder
    ServerExits
