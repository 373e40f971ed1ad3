SPECIFICATION FairSpec
CONSTANTS
    Calls = {"init", "complete"}
    MaxIncoming = 1
    Names = {n1}
    Contents = {TRUE}
    DeltaBuffer = 1
    MaxSent = 2
    None = None
INVARIANT DeltasBeforeStop
PROPERTIES SurfaceOnlyShrinks LoadEnds GoneIsWithdrawn
CHECK_DEADLOCK FALSE
