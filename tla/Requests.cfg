SPECIFICATION MCSpec
CONSTANTS
    Questions <- TwoTurns
    Askers = {"a", "b"}
    MaxTurns = 2
    MaxJoins = 2
    Conns = {"c", "d"}
    ResumeAttempts = 3
    MaxLoads = 2
    MaxRuns = 2
    MaxOps = 4
INVARIANT OneRecordedDecision
PROPERTIES WaiterReturns NotLeftLive
CHECK_DEADLOCK FALSE
