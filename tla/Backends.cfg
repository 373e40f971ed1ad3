SPECIFICATION MCSpec
CONSTANTS
    Handlers = {"h1"}
    Ops = {"start", "mark", "steer", "cancel", "refresh", "fork"}
    MaxTurns = 2
    MaxProcs = 2
    MaxBad = 1
    MaxAsks = 3
    PipeCap = 1
    QueueCap = 1
    Owners = {"o"}
    LoginTries = 2
    LoginProcs = 2
    MaxLogins = 2
    Indexes = {1, 2}
    MaxAttempts = 5
    MaxEvents = 4
    Folded = {1, 2}
    MaxHooks = 2
    Resumes = FALSE
    MaxMsgs = 2
INVARIANTS ToldAtMostOnce MessageAsSent FinalizedAfterClose ReportsItsTurn
PROPERTY Lifecycle
CHECK_DEADLOCK FALSE
