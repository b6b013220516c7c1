SPECIFICATION Spec
CONSTANTS
    i = i
    p = p
    u = u
    Ifs = {i}
    Prefixes = {p,u}
    Static = {}
    Unfit = {u}
    InitUp = {TRUE}
    mininterval = 3
    maxinterval = 5
    MAX_INITIAL_RTR_ADVERT_INTERVAL = 3
    prefix_timo = 2
    Early = TRUE
    Late = TRUE
    Overflow = TRUE
    MaxQueue = 2
    MaxChanges = 3
INVARIANTS
    TimerFollowsFlag
    RateLimited
    AnsweredSoon
    InStep
    LastWord
CHECK_DEADLOCK FALSE
