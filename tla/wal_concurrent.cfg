SPECIFICATION Spec
CHECK_DEADLOCK FALSE
CONSTANTS
    t1 = t1
    t2 = t2
    Tasks <- TwoTasks
    MaxAdmissions = 2
    MaxCrashes = 2
    MaxFaults = 2
    Faults <- Recoverable
    MaxDisasters = 1
    Disasters <- MarkerRemoved
INVARIANTS IInv NoLoss NoGhost SequencesDistinct
PROPERTIES ImplementsLedger
SYMMETRY TaskSymmetry
