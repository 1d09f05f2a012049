CONSTANTS
    Updates = 3
    PortOf <- MovedPorts
    BindMayFail = TRUE
    None = None
SPECIFICATION SerialSpec
INVARIANTS
    QuietDaemonServesLatest
    NoLostListener
PROPERTIES
    EveryReloadEnds
CHECK_DEADLOCK FALSE
