SPECIFICATION Spec
CHECK_DEADLOCK FALSE
CONSTANTS
    h1 = h1
    h2 = h2
    Handles = {h1, h2}
    Objects = {1, 2}
    Urls = {page}
    page = page
    MaxLen = 1
    MaxTurns = 4
    NoObject = NoObject
    NoHandle = NoHandle
    Gone = Gone
SYMMETRY
    HandleSymmetry
INVARIANTS
    UsersSound
    CandidatesLive
    CaughtUp
    DoneSawAll
PROPERTY
    ReleasedUnheard
