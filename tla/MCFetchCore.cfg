SPECIFICATION CoreSpec
CONSTANTS
    a1 = a1
    a2 = a2
    b1 = b1
    c1 = c1
    Fetches = {a1, a2, b1, c1}
    HostOf <- MCHostOf
    MaxFetchers = 2
    MaxPerHost = 1
INVARIANTS
    RingsAgree
    CapsRespected
    PollChainAlive
    OneEnding
PROPERTY
    HostOrder
