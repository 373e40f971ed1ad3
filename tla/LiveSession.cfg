SPECIFICATION Spec
CONSTANTS
    None = None
    Conns = {a, b, c}
    Uses = {"resume", "submit", "stop", "cancel", "set", "compact", "shell", "fork", "shutdown"}
    ResumeAttempts = 2
    MaxLoads = 2
    MaxRuns = 2
    MaxOps = 4
CHECK_DEADLOCK FALSE
SYMMETRY Symmetry
INVARIANTS LiveIsKept ClosesOnce TurnOwnsSession
