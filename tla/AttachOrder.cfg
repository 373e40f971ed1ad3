SPECIFICATION MCSpec
CONSTANTS
    Sessions = {1, 2}
    MaxLog <- Log1
    MaxNotes = 1
    MaxTyped = 0
    MaxSwitch = 2
    MaxTurns = 2
    MaxMsgs = 2
    None = None
    Calls = {c1, c2, c3}
    Keys = {"a", "b"}
    KeyChoices <- AtMostOneB
    MatcherOf <- OneMatcher
    Dangerous = {"b"}
    SessionModes = {"off", "permissive", "strict"}
    MaxMoves = 1
    Conns = {a1}
    Replies <- AllowSession
SYMMETRY Symmetry
INVARIANT InEntryOrder
CHECK_DEADLOCK FALSE
