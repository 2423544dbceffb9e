SPECIFICATION FairSpec
CONSTANTS
    a1 = a1
    a2 = a2
    e1 = e1
    e2 = e2
    Fetches <- PairFetches
    HostOf <- PairHostOf
    UrlOf <- SameUrlOf
    MaxFetchers = 2
    MaxPerHost = 1
    MAX_F = 2
    POOL_SIZE = 1
    Endpoints = {e1, e2}
    Posts = {}
    Images = {}
    MAX_IMG_F = 1
    MAX_GLOBAL_F = 2
    CacheMax = 2
    Shapes <- FramedShapes
    OTErrors = FALSE
    ClientErrors = FALSE
    NoSlot = 0
    NoEp = NoEp
    NoFetch = NoFetch
    NoBody = NoBody
    NoShape = NoShape
INVARIANTS
    OwnResponse
    FramedIsWhole
PROPERTY
    EveryFetchEnds
