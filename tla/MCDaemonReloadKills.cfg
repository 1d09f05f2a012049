CONSTANTS
    Updates = 2
    PortOf <- SamePorts
    BindMayFail = FALSE
    None = None
SPECIFICATION Spec
INVARIANT UpdatesKeepDaemonRunning
CHECK_DEADLOCK FALSE
