CONSTANTS
    s1 = s1
    s2 = s2
    c1 = c1
    SniConns <- MCSni
    ConnectConns <- MCConnect
SPECIFICATION TunnelSpec
INVARIANTS
    ActiveIsExact
    TargetGoneClientGone
    StopLeavesOnlyLateDials
PROPERTIES
    ClientGoneTargetGone
    StopEnds
CHECK_DEADLOCK FALSE
