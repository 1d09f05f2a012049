---------------------------- MODULE MCTcpListener ----------------------------
(* A small instance of TcpListener: two TCP connections and a TLS one for    *)
(* two places; the first carries two queries, the TLS one another.           *)
EXTENDS TcpListener

CONSTANTS t1, t2, d1, q1, q2, q3

MCTcp == {t1, t2}
MCDot == {d1}
MCQueries == {q1, q2, q3}
MCConnOf == [q \in MCQueries |-> IF q = q3 THEN d1 ELSE t1]
=============================================================================
