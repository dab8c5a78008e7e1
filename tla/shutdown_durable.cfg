SPECIFICATION Spec
CONSTANTS
    Tasks = {t1, t2}
    Critical = {t1}
    Ordered = {t2}
INVARIANT CleanExitIsDurable
CHECK_DEADLOCK FALSE
