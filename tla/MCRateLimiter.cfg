CONSTANTS
    a = a
    b = b
    c = c
    Ips <- ThreeIps
    MaxRequests = 2
    WindowTicks = 2
    MaxTrackedIps = 2
    MaxTime = 5
    HistoryCap = 5
SYMMETRY Renamings
SPECIFICATION LimiterSpec
INVARIANTS
    LimiterTypeOK
    AtMostTwiceTheQuota
    RefusalIsJustified
CHECK_DEADLOCK FALSE
