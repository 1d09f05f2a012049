CONSTANTS
    t1 = t1
    t2 = t2
    d1 = d1
    q1 = q1
    q2 = q2
    q3 = q3
    TcpConns <- MCTcp
    DotConns <- MCDot
    Queries <- MCQueries
    ConnOf <- MCConnOf
    MaxConns = 2
SPECIFICATION Spec
INVARIANTS
    LimitIsExact
    AtMostOneReply
    StopEndsUpstreams
PROPERTIES
    EveryQueryEnds
CHECK_DEADLOCK FALSE
