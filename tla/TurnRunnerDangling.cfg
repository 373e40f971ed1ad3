SPECIFICATION Spec
CONSTANTS
    MaxRuns = 2
    MaxUses = 1
    MaxBatch = 1
    MaxFaults = 0
    StepLimit = 0
    Faulty = FALSE
    Compacts = FALSE
CHECK_DEADLOCK FALSE
INVARIANTS AnsweredBeforeNextMessage
