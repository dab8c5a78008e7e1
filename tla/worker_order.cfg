CONSTANTS
    c1 = c1
    Callers = {c1}
    Kinds <- BothKinds
    MaxEvents = 3
    Capacity = 1
    MaxCrashes = 1
    MaxFaults = 1
    Faults <- AllFaults
    Deadlines = TRUE
SPECIFICATION Spec
INVARIANTS InOrder FlushFence DrainedMeansReplayed
PROPERTIES RepeatedOnlyByReplay
CHECK_DEADLOCK FALSE
