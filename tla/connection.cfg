SPECIFICATION Spec
CONSTANTS
    Commands = {c1, c2}
    MaxEvents = 4
    MaxPending = 2
    Capacity = 3
    GateOverlaps = {{}, {"gap"}, {"leave"}, {"flood"}}
    Monitors = {m1, m2, m3}
    NoOne = no_one
    Calls = {a, b, c}
    MaxRetries = 1
    Timeout = 2
    BaseBackoff = 1
    MaxBackoff = 2
    Threshold = 2
    OpenFor = 2
    Budget = 1
    MaxTime = 5
    Tasks = {t1, t2}
    Critical = {t1}
    Ordered = {t2}
INVARIANTS GateIfCalm OneRoomMonitorInTurn
PROPERTIES CommandAnswersAreTrue EveryCommandIsAnswered PhiraIfCalm CriticalEndsAreCounted
CHECK_DEADLOCK FALSE
