------------------------------ MODULE MCTunnel ------------------------------
(* A small instance of Tunnel: two TLS clients and one CONNECT client.       *)
EXTENDS Tunnel

CONSTANTS s1, s2, c1

MCSni == {s1, s2}
MCConnect == {c1}
=============================================================================
