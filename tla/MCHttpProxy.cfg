CONSTANTS
    r1 = r1
    r2 = r2
    r3 = r3
    r4 = r4
    Requests = {r1, r2, r3, r4}
    Asked1 <- MCAsked
    Client <- MCClient
    Absolute = {r3}
    Lower <- MCLower
    NoHost = NoHost
    Hosts <- MCHosts
    Policy <- MCPolicy
    NameService <- MCNameService
    Self <- Own
    Threshold = 2
    Reset = 0
    Idle = 1
    Window = 1
    MaxBreakers = 1
    Rounds = 3
    MaxTime = 1
SPECIFICATION Spec
INVARIANTS
    TypeOK
    DialsArePermitted
    HalfOpenIsUnderTrial
    LoopsEnd
SYMMETRY MCSymmetry
CHECK_DEADLOCK FALSE
