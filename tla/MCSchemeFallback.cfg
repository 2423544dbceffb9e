SPECIFICATION Spec
CONSTANTS
    port = port
    retro = retro
    dead = dead
    l1 = l1
    l2 = l2
    Loads = {l1, l2}
    Sites = {port, retro, dead}
    Explicit = {port}
    Hsts = {dead}
    Outcomes <- MCOutcomes
    HTTPS_SCHEME_TRACK_MAX = 2
    HTTPS_DEADHOSTS = 1
    HTTPS_SUCCESS_HOSTS = 1
    RedirectLimit = 1
    NoSite = NoSite
    Junk = Junk
INVARIANTS
    TablesSound
    FallBackSound
    DeadListSound
PROPERTY
    LoadsAdvance
SYMMETRY
    LoadSymmetry
