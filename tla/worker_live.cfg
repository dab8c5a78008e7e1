CONSTANTS
    c1 = c1
    Callers = {c1}
    Kinds <- FlushOnly
    MaxEvents = 3
    Capacity = 1
    MaxCrashes = 0
    MaxFaults = 2
    Faults <- WriteFaults
    Deadlines = FALSE
SPECIFICATION FairSpec
INVARIANTS NobodyIsStuck
PROPERTIES AdmittedIsProcessed FlushCompletes
CHECK_DEADLOCK FALSE
