SPECIFICATION Spec
CONSTANTS
    Rounds = {r1, r2}
    MaxChanges = 2
    MaxItems = 4
    QueueSize = 2
    OverflowSize = 1
    BatchSize = 2
    MaxRetries = 2
    MaxFlushes = 1
    MaxSessions = 2
    MaxTime = 2
    Players = {a, b}
    NoOne = no_one
    Charts = {c1, c2}
    MaxMade = 2
    MaxTells = 2
    Admins = {a1, a2}
    Entries = {x, y}
    Banned = banned
    MaxCommands = 3
    Admin = admin
    Ids = {i, j}
    MaxRooms = 2
    RecoveryCrashes = 2
    PresenceCrashes = 1
    ModerationCrashes = 1
    MaxLetters = 1
    RecoveryTroubles = {{}, {"twice"}, {"stale"}, {"slow"}, {"torn"}}
    PresenceTroubles = {{}, {"late"}, {"waits"}}
    ManagedTroubles = {{}, {"refused"}, {"unsaved"}, {"cycle"}, {"console"}}
    ModerationTroubles = {{}, {"racing"}, {"torn"}, {"joining"}, {"plugin"}, {"unwritten"}}
    DirectoryTroubles = {{}, {"crossing"}, {"refused"}}
INVARIANTS
    RecoveryIfCalm TelemetryIsTrue 
     ModerationIfCalm DirectoryIfCalm
CHECK_DEADLOCK FALSE
