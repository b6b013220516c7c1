SPECIFICATION FairSpawnSpec
CONSTANTS
    w1 = w1
    w2 = w2
    Requests <- MCRequests
    Workers <- MCWorkers
    StatErrors = {13}
    OpenErrors = {28, 84}
    LongMessages = {84}
    MaxFaults = 2
    MaxQueue = 1
INVARIANTS
    NoIdleInstance
    OldFilesKept
PROPERTIES
    ParentLeaves
    RequestsAnswered
