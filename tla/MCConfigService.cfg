CONSTANTS
    r1 = r1
    r2 = r2
    r3 = r3
    r4 = r4
    Boot = Boot
    Torn = Torn
    Down = Down
    PortsGiven = TRUE
    Requests <- MCRequests
    Body <- MCBody
    MaxCrashes = 2
SPECIFICATION FairSpec
INVARIANTS
    ExactlyOneOwner
    FirstComeFirstServed
    LiveIsDurable
PROPERTIES
    EveryUpdateSettles
    ImplementsRegister
CHECK_DEADLOCK FALSE
