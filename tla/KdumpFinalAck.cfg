SPECIFICATION Spec
CONSTANTS
    Ops <- MCOps
    DiskMayFill = FALSE
    MaxTimeout = 2
    MaxRetry = 2
    MaxDup = 1
CHECK_DEADLOCK FALSE
PROPERTY FinalAckResent
