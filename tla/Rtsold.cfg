SPECIFICATION FairSpec
CONSTANTS
    Ifs = {en0}
    HasMedia = {}
    Mobile = TRUE
    Once = FALSE
    InitLinks = {"up"}
    LinkStates = {"gone", "disabled", "down", "up"}
    DadStates = {"none", "tentative", "optimistic", "duplicated", "ready"}
    PROBE_INTERVAL = 6
    DADRETRY = 1
INVARIANTS
    AtMostThree
PROPERTIES
    Refrains
    Spaced
    Solicits
    
    Periodic
    Dumps
