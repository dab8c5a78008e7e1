SPECIFICATION Spec
CONSTANTS
    NoUser = NoUser
    Users = {u1, u2}
    Creator = u1
    u1 = u1
    u2 = u2
    Scores = {1}
    Modes <- PermanentModes
    MaxUsers = 2
    MaxRounds = 2
    MaxOpenFaults = 0
    MaxLostJoins = 0
    MaxRemovals = 1
PROPERTY
    GameEnds
CHECK_DEADLOCK FALSE
