SPECIFICATION Spec
CONSTANTS
    a1 = a1
    a2 = a2
    e1 = e1
    e2 = e2
    Fetches <- PairFetches
    HostOf <- PairHostOf
    UrlOf <- SameUrlOf
    MaxFetchers = 2
    MaxPerHost = 1
    MAX_HTTPS_F = 2
    HTTPS_POOL_SIZE = 1
    HTTPS_MAX_RETRIES = 1
    HDR_BUF_MAX = 3
    SALVAGE_MIN = 1
    Conns = {e1, e2}
    Posts = {a2}
    Shapes <- SafetyShapes
    Elsewhere = "elsewhere"
    ClientErrors = TRUE
    NoSlot = 0
    NoConn = NoConn
    NoShape = NoShape
SYMMETRY ConnSymmetry
INVARIANTS
    SlotsServeDispatched
    ConnsSound
    AnswersSound
    RedirectHeard
PROPERTIES
    NothingRepeated
    ImplementsFetchCore
