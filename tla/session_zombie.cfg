SPECIFICATION Spec
CHECK_DEADLOCK FALSE
CONSTANTS
    s1 = s1
    s2 = s2
    s3 = s3
    None = None
    Sessions <- ThreeSessions
    Environments <- Undisturbed
INVARIANTS AbsenceIsTimed
