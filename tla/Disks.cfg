SPECIFICATION MCSpec
CONSTANTS
    None = None
    Procs = {p1, p2}
    Sessions = {s1, s2}
    Uses = {u1}
    MaxIds = 5
    MaxCrashes = 1
    MaxFaults = 1
    MaxForkDepth = 2
    TornWrites = TRUE
    Terminals = {1}
    Plugins = {"a"}
    SourceKinds = {"git", "path", "go", "https"}
    MaxVersion = 2
    MaxVerbs = 4
    Ages = FALSE
    Files = {"f", "g"}
    MaxEdits = 2
    MaxCommits = 3
    MaxSyncs = 3
    Busy = FALSE
    MaxManifests = 3
SYMMETRY Symmetry
INVARIANTS LockedWhileOpen AllowDurableBeforeRun ForkResolves OneResultAlone NoPluginLost OpensThisTree
PROPERTIES SyncedPrefixStable RepairedAlone RunsWhatWasAgreed NoWorkLost
CHECK_DEADLOCK FALSE
