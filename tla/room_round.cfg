SPECIFICATION Spec
CONSTANTS
    NoUser = NoUser
    Users = {u1, u2}
    Creator = u1
    u1 = u1
    u2 = u2
    Scores = {1}
    Modes <- PlainModes
    MaxUsers = 2
    MaxRounds = 2
    MaxOpenFaults = 1
    MaxLostJoins = 1
    MaxRemovals = 1
INVARIANTS
    IInv
    PlayingIsOpen
    NoRoundDropped
    SettledOnce
    ResultOrAbort
PROPERTIES
    AcceptedResultsSettle
CHECK_DEADLOCK FALSE
