SPECIFICATION Spec
CONSTANTS
    Servers = {1, 2}
    Bridges = {"b1", "b2"}
    Stops = {"s1", "s2"}
    Probes = {"c"}
    Casts = {{"b1", "b2", "s1"}, {"s1", "s2", "c"}}
    MaxFaults = 1
INVARIANTS SocketIsItsServers StopIsProof EveryBridgeLands
PROPERTY AcknowledgedEnds
CHECK_DEADLOCK FALSE
