SPECIFICATION Spec
CHECK_DEADLOCK FALSE
CONSTANTS
    t1 = t1
    t2 = t2
    Tasks <- OneTask
    MaxAdmissions = 3
    MaxCrashes = 3
    MaxFaults = 2
    Faults <- GuardedFailures
    MaxDisasters = 1
    Disasters <- Lost
INVARIANTS CleanMarkerOwesNothing
PROPERTIES ImplementsLedger
