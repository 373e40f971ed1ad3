SPECIFICATION Spec
CONSTANTS
    None = None
    Procs = {p1}
    Sessions = {s1}
    Uses = {u1}
    MaxIds = 4
    MaxCrashes = 2
    MaxFaults = 0
    MaxForkDepth = 1
    TornWrites = TRUE
CHECK_DEADLOCK FALSE
INVARIANTS SurvivesTornTail
