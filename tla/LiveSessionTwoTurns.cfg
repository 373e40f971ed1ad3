SPECIFICATION Spec
CONSTANTS
    None = None
    Conns = {a, b}
    Uses = {"resume", "submit", "stop", "steer"}
    ResumeAttempts = 3
    MaxLoads = 1
    MaxRuns = 3
    MaxOps = 5
CHECK_DEADLOCK FALSE
INVARIANTS OneTurn
