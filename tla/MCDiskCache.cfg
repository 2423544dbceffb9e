SPECIFICATION Spec
CONSTANTS
    f1 = f1
    f2 = f2
    u1 = u1
    Fetches = {f1, f2}
    Urls = {u1}
    MaxVersion = 2
    Blocks <- MCBlocks
    MaxStores = 3
    DiskFull = TRUE
    Crashes = TRUE
SYMMETRY FetchSymmetry
INVARIANTS
    ReadsBack
    StaleReloadWasCrossed
