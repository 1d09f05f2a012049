--------------------------- MODULE MCDnsForwarder ---------------------------
(* Small instances of DnsForwarder: three UDP queries for two places, one    *)
(* HTTPS query, and tracking numbers few enough to collide.                  *)
EXTENDS DnsForwarder

CONSTANTS u1, u2, u3, d1

MCUdp == {u1, u2, u3}
MCDoh == {d1}
MCIds == 1..3
=============================================================================
