--------------------------- MODULE MCZonzonDaemon ---------------------------
(* Small instances of ZonzonDaemon.  SamePorts keeps every port from one     *)
(* configuration to the next; MovedPorts changes the DNS port every time.    *)
EXTENDS ZonzonDaemon

SamePorts(c, s) == s
MovedPorts(c, s) == IF s = "dns" THEN <<s, c>> ELSE <<s, 0>>
=============================================================================
