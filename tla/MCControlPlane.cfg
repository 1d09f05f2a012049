CONSTANTS
    r1 = r1
    r2 = r2
    r3 = r3
    r4 = r4
    Requests <- MCRequests
    Body <- MCBody
    Boot = Boot
    Torn = Torn
    Down = Down
    PortsGiven = TRUE
    Sent <- MCSent
    MaxWindow = 2
    MaxSalts = 1
    MaxCrashes = 1
    PortOf <- MCPortOf
    BindMayFail = TRUE
    None = None
SPECIFICATION Spec
INVARIANTS
    QuietDaemonServesFile
    NonceAdmitsOnce
PROPERTIES
    ShutdownEnds
CHECK_DEADLOCK FALSE
