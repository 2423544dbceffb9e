SPECIFICATION DecoderSpec
CONSTANTS
    Bodies <- MCBodies
    SizeLine <- MCSizeLine
    Trailers <- MCTrailers
    Following <- MCFollowing
INVARIANTS
    DeliversBody
    EndsWithResponse
CHECK_DEADLOCK FALSE
