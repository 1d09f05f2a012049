CONSTANTS
    u1 = u1
    u2 = u2
    u3 = u3
    d1 = d1
    Nobody = Nobody
    UdpQueries <- MCUdp
    DohQueries <- MCDoh
    TrackingIds <- MCIds
    MaxForwards = 2
SPECIFICATION Spec
PROPERTY HaltedSocketsClose
CHECK_DEADLOCK FALSE
