SPECIFICATION Spec
CHECK_DEADLOCK FALSE
CONSTANTS
    MAX_TIMERS = 2
    MaxHeaps = 2
    Delays = {0, 1}
    MaxId = 3
    MaxTime = 1
    NoSlot = NoSlot
INVARIANT
    TimersSound
PROPERTIES
    FiresPending
    LostOnly
    DueFires
