SPECIFICATION SchedFairSpec
CONSTANTS
    Jobs = {j1, j2, j3}
    Millis <- MCMillis
    MaxTick = 3
    None = None
INVARIANTS
    QueueSound
    NoOvertaking
PROPERTIES
    ImplementsTimerMap
    RunEnds
    DueIsServed
