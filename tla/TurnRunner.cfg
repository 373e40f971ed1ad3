SPECIFICATION MCSpec
CONSTANTS
    MaxRuns = 3
    MaxUses = 2
    MaxBatch = 2
    MaxFaults = 1
    StepLimit = 2
    Faulty = TRUE
    Compacts = TRUE
CHECK_DEADLOCK FALSE
INVARIANTS NoSuccessAfterCut AnsweredUnlessFailed InterruptHeeded EndingIsFinal
PROPERTIES EndsOnceCut
