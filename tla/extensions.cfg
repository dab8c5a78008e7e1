SPECIFICATION Spec
CONSTANTS
    alpha = alpha
    beta = beta
    Concurrency = 1
    QueueSize = 2
    MaxEvents = 2
    MaxCommands = 1
    Handles = {h1, h2}
    Workers = {w1, w2}
    MaxConns = 2
    MaxPending = 2
    MaxReads = 2
    Console = console
    Executor = executor
    MaxReleases = 2
    Chunks = 2
    MaxCrashes = 1
    Bot = FALSE
    PluginTroubles = {{}, {"api"}, {"slow"}, {"stall"}, {"fails"}, {"busy"}, {"renamed"}}
    TcpTroubles = {{}, {"early"}, {"late"}, {"close"}}
    UpdateTroubles = {{}, {"joining"}}
INVARIANTS PluginIfCalm TcpIfCalm UpdateIfCalm
CHECK_DEADLOCK FALSE
