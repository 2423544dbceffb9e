SPECIFICATION Spec
CONSTANTS
    a1 = a1
    a2 = a2
    e1 = e1
    e2 = e2
    Fetches <- PairFetches
    HostOf <- PairHostOf
    UrlOf <- SameUrlOf
    MaxFetchers = 2
    MaxPerHost = 2
    MAX_F = 2
    POOL_SIZE = 1
    Endpoints = {e1, e2}
    Posts = {a2}
    Images = {a1, a2}
    MAX_IMG_F = 1
    MAX_GLOBAL_F = 2
    CacheMax = 1
    Shapes <- FaultShapes
    OTErrors = TRUE
    ClientErrors = TRUE
    NoSlot = 0
    NoEp = NoEp
    NoFetch = NoFetch
    NoBody = NoBody
    NoShape = NoShape
SYMMETRY EndpointSymmetry
INVARIANTS
    SlotsAgree
    FaultsContained
PROPERTY
    ImplementsFetchCore
