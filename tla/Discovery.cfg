SPECIFICATION LanSpec
CONSTANTS
    Ifs = {en0, en1}
    HasMedia = {en0, en1}
    Mobile = FALSE
    Once = TRUE
    InitLinks = {"up"}
    LinkStates = {"up"}
    Attached = en0
    RouterIf = en7
    DadStates = {"tentative", "ready"}
    PROBE_INTERVAL = 2
    DADRETRY = 1
    mininterval = 10
    maxinterval = 11
    MAX_INITIAL_RTR_ADVERT_INTERVAL = 10
    MaxLost = 1
INVARIANTS
    AskedTwice
PROPERTIES
    Found
    OnceEnds
