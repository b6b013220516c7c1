SPECIFICATION FairSpec
CONSTANTS
    i = i
    p = p
    Ifs = {i}
    Prefixes = {p}
    Static = {}
    Unfit = {}
    InitUp = {TRUE}
    mininterval = 3
    maxinterval = 5
    MAX_INITIAL_RTR_ADVERT_INTERVAL = 3
    prefix_timo = 6
    Early = FALSE
    Late = FALSE
    Overflow = FALSE
    MaxQueue = 2
    MaxChanges = 3
PROPERTIES
    Deprecates
    FollowsStatus
    HostsLearn
    StopsWithTimer
CHECK_DEADLOCK FALSE
