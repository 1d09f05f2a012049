-------------------------- MODULE TcpListenerProofs --------------------------
(***************************************************************************)
(* The safety of TcpListener, for any number of connections and queries    *)
(* and any limit: the limit is exact, a query is answered once at most, and*)
(* stop() leaves no upstream connection it should have ended.              *)
(***************************************************************************)
EXTENDS TcpListener, FiniteSetTheorems, TLAPS

\* stop() destroys the TCP connections, and no new one is accepted after it.
NoTcpAfterStop ==
    server # "up" => \A c \in TcpConns : sock[c] \notin Usable

SocketInv ==
    /\ LimitIsExact
    /\ IsFiniteSet(table)
    /\ NoTcpAfterStop

\* A query that has not arrived, or is being forwarded, was not answered.
UnansweredYet ==
    \A q \in Queries :
        /\ query[q] = "new" => fwd[q] = "none"
        /\ query[q] = "new" \/ fwd[q] = "open" => replies[q] = 0

QueryInv == UnansweredYet /\ AtMostOneReply /\ StopEndsUpstreams

Inv == TypeOK /\ SocketInv /\ QueryInv

-----------------------------------------------------------------------------

\* At first there are no connections and no queries.
LEMMA InitInv == Init => Inv
  <1> SUFFICES ASSUME Init PROVE Inv
    OBVIOUS
  <1>1. TypeOK
    BY DEF Init, TypeOK
  <1>2. table = {} /\ Cardinality({}) = 0 /\ IsFiniteSet({})
    BY FS_EmptySet DEF Init
  <1>3. LimitIsExact
    BY <1>2, MaxConnsAssumption DEF Init, LimitIsExact, Usable, MaxConnsAssumption
  <1>4. SocketInv
    BY <1>2, <1>3 DEF SocketInv, NoTcpAfterStop, Init
  <1>5. QueryInv
    BY DEF Init, QueryInv, UnansweredYet, AtMostOneReply, StopEndsUpstreams
  <1>6. QED
    BY <1>1, <1>4, <1>5 DEF Inv

(***************************************************************************)
(* Sockets that are destroyed leave activeTcpConnections in the same step, *)
(* so the set stays exact and does not grow.                               *)
(***************************************************************************)
LEMMA DestroyedKeepsLimit ==
    ASSUME TypeOK, SocketInv, NEW cs \in SUBSET Conns, Destroyed(cs)
    PROVE  /\ LimitIsExact' /\ IsFiniteSet(table') /\ table' \subseteq Conns
           /\ sock' \in [Conns -> {"none", "surplus", "open", "ended", "closed"}]
           /\ \A c \in Conns : sock'[c] \in Usable => sock[c] \in Usable /\ c \notin cs
  <1>1. /\ \A c \in Conns : sock'[c] = IF c \in cs THEN "closed" ELSE sock[c]
        /\ sock' \in [Conns -> {"none", "surplus", "open", "ended", "closed"}]
    BY DEF Destroyed, TypeOK
  <1>2. table' = table \ cs
    BY DEF Destroyed
  <1>3. IsFiniteSet(table') /\ Cardinality(table') <= Cardinality(table)
    BY <1>2, FS_Subset DEF SocketInv
  <1>4. Cardinality(table) \in Nat /\ Cardinality(table') \in Nat
    BY <1>3, FS_CardinalityType DEF SocketInv
  <1>5. Cardinality(table') <= MaxConns
    BY <1>3, <1>4, MaxConnsAssumption DEF SocketInv, LimitIsExact, MaxConnsAssumption
  <1>6. table' = {c \in Conns : sock'[c] \in Usable}
    BY <1>1, <1>2 DEF SocketInv, LimitIsExact, Usable
  <1>7. QED
    BY <1>1, <1>2, <1>3, <1>5, <1>6 DEF LimitIsExact, TypeOK, Usable

\* Without stop(), the same keeps all that is known of the sockets.
LEMMA DestroyedKeepsSocketInv ==
    ASSUME TypeOK, SocketInv, NEW cs \in SUBSET Conns, Destroyed(cs), UNCHANGED server
    PROVE  SocketInv' /\ table' \subseteq Conns
           /\ sock' \in [Conns -> {"none", "surplus", "open", "ended", "closed"}]
  BY DestroyedKeepsLimit DEF SocketInv, NoTcpAfterStop, Conns

(***************************************************************************)
(* However a handler of a query leaves the client's socket, the connection *)
(* has its place in activeTcpConnections exactly while it is not destroyed.*)
(***************************************************************************)
LEMMA LeaveKeepsSocketInv ==
    ASSUME TypeOK, SocketInv, NEW q \in Queries, NEW s \in {"open", "ended", "closed"},
           sock[ConnOf[q]] \in Usable, Leave(q, s), UNCHANGED server
    PROVE  SocketInv' /\ table' \subseteq Conns
           /\ sock' \in [Conns -> {"none", "surplus", "open", "ended", "closed"}]
  <1> DEFINE c == ConnOf[q]
  <1>1. c \in Conns
    BY ConnOfAssumption DEF ConnOfAssumption
  <1>2. sock' = [sock EXCEPT ![c] = s]
    BY DEF Leave
  <1>3. CASE s = "closed"
    <2>1. table' = table \ {c}
      BY <1>3 DEF Leave
    <2>2. sock' = [d \in Conns |-> IF d \in {c} THEN "closed" ELSE sock[d]]
      BY <1>1, <1>2, <1>3 DEF TypeOK
    <2>3. QED
      BY <1>1, <2>1, <2>2, DestroyedKeepsSocketInv DEF Destroyed
  <1>4. CASE s # "closed"
    <2>1. table' = table
      BY <1>4 DEF Leave
    <2>2. \A d \in Conns : sock'[d] \in Usable <=> sock[d] \in Usable
      BY <1>1, <1>2, <1>4 DEF TypeOK, Usable
    <2>3. sock' \in [Conns -> {"none", "surplus", "open", "ended", "closed"}]
      BY <1>2 DEF TypeOK
    <2>4. LimitIsExact'
      BY <2>1, <2>2 DEF SocketInv, LimitIsExact
    <2>5. QED
      BY <2>1, <2>2, <2>3, <2>4 DEF SocketInv, NoTcpAfterStop, Conns, TypeOK
  <1>5. QED
    BY <1>3, <1>4

-----------------------------------------------------------------------------

\* A query that is settled as it arrives, answered or not, never had an
\* upstream connection and had no answer before.
LEMMA SettlingKeepsQueryInv ==
    ASSUME Inv, NEW q \in Queries, Arrives(q),
           query' = [query EXCEPT ![q] = "settled"],
           Answer(q) \/ UNCHANGED replies, UNCHANGED fwd
    PROVE  /\ QueryInv'
           /\ query' \in [Queries -> {"new", "forwarded", "settled"}]
           /\ replies' \in [Queries -> Nat] /\ atStop' \subseteq Queries
  <1> USE DEF Inv, QueryInv
  <1>1. /\ query[q] = "new" /\ replies[q] = 0 /\ fwd[q] = "none"
        /\ UNCHANGED server /\ atStop \subseteq atStop'
    BY DEF Arrives, UnansweredYet
  <1>2. /\ query' \in [Queries -> {"new", "forwarded", "settled"}]
        /\ query'[q] = "settled"
        /\ \A p \in Queries : p # q => query'[p] = query[p]
    BY DEF TypeOK
  <1>3. /\ replies' \in [Queries -> Nat] /\ replies'[q] <= 1
        /\ \A p \in Queries : p # q => replies'[p] = replies[p]
    BY <1>1 DEF Answer, TypeOK
  <1>4. atStop' \subseteq Queries
    BY DEF Arrives, TypeOK
  <1>5. UnansweredYet'
    BY <1>1, <1>2, <1>3 DEF UnansweredYet
  <1>6. AtMostOneReply'
    BY <1>3 DEF AtMostOneReply
  <1>7. StopEndsUpstreams'
    BY <1>1 DEF StopEndsUpstreams
  <1>8. QED
    BY <1>2, <1>3, <1>4, <1>5, <1>6, <1>7

\* forwardTcpQuery: what arrives after stop() came by TLS and is in atStop.
LEMMA ForwardKeepsInv ==
    ASSUME Inv, NEW q \in Queries, Forward(q)
    PROVE  Inv'
  <1> USE DEF Inv, SocketInv, QueryInv
  <1>1. /\ query[q] = "new" /\ replies[q] = 0 /\ sock[ConnOf[q]] \in Usable
        /\ UNCHANGED <<server, sock, table, replies, faulted>>
        /\ atStop \subseteq atStop'
        /\ server # "up" => q \in atStop'
    BY DEF Forward, Arrives, UnansweredYet
  <1>2. /\ query' = [query EXCEPT ![q] = "forwarded"] /\ fwd' = [fwd EXCEPT ![q] = "open"]
        /\ atStop' \subseteq Queries
    BY DEF Forward, Arrives, TypeOK
  <1>3. TypeOK'
    BY <1>1, <1>2 DEF TypeOK
  <1>4. SocketInv'
    BY <1>1 DEF LimitIsExact, NoTcpAfterStop
  <1>5. UnansweredYet'
    BY <1>1, <1>2 DEF UnansweredYet, TypeOK
  <1>6. AtMostOneReply'
    BY <1>1 DEF AtMostOneReply
  <1>7. server # "up" => ConnOf[q] \in DotConns
    BY <1>1, ConnOfAssumption DEF NoTcpAfterStop, ConnOfAssumption, Conns
  <1>8. StopEndsUpstreams'
    BY <1>1, <1>2, <1>7 DEF StopEndsUpstreams, TypeOK
  <1>9. QED
    BY <1>3, <1>4, <1>5, <1>6, <1>8

\* An event of an upstream connection ends it; if it answers the query, that
\* is the first answer, since only its own connection can answer it.
LEMMA FwdEventKeepsQueryInv ==
    ASSUME Inv, NEW q \in Queries, FwdCloses(q), Answer(q) \/ UNCHANGED replies
    PROVE  /\ QueryInv' /\ replies' \in [Queries -> Nat]
           /\ fwd' \in [Queries -> {"none", "open", "closed"}]
  <1> USE DEF Inv, QueryInv
  <1>1. fwd[q] = "open" /\ replies[q] = 0 /\ UNCHANGED <<server, query, atStop>>
    BY DEF FwdCloses, UnansweredYet
  <1>2. /\ fwd' \in [Queries -> {"none", "open", "closed"}] /\ fwd'[q] = "closed"
        /\ \A p \in Queries : p # q => fwd'[p] = fwd[p]
    BY DEF FwdCloses, TypeOK
  <1>3. /\ replies' \in [Queries -> Nat] /\ replies'[q] <= 1
        /\ \A p \in Queries : p # q => replies'[p] = replies[p]
    BY <1>1 DEF Answer, TypeOK
  <1>4. UnansweredYet'
    BY <1>1, <1>2, <1>3 DEF UnansweredYet
  <1>5. AtMostOneReply'
    BY <1>3 DEF AtMostOneReply
  <1>6. StopEndsUpstreams'
    BY <1>1, <1>2 DEF StopEndsUpstreams
  <1>7. QED
    BY <1>2, <1>3, <1>4, <1>5, <1>6

\* The same, whatever the event does to the client's socket.
LEMMA FwdEventKeepsInv ==
    ASSUME Inv, NEW q \in Queries, FwdCloses(q), Answer(q) \/ UNCHANGED replies,
           \/ UNCHANGED <<sock, table>>
           \/ sock[ConnOf[q]] \in Usable /\ \E s \in {"open", "ended", "closed"} : Leave(q, s),
           UNCHANGED faulted
    PROVE  Inv'
  <1>1. UNCHANGED <<server, query, atStop>>
    BY DEF FwdCloses
  <1>2. /\ QueryInv' /\ replies' \in [Queries -> Nat]
        /\ fwd' \in [Queries -> {"none", "open", "closed"}]
    BY FwdEventKeepsQueryInv
  <1>3. /\ SocketInv' /\ table' \subseteq Conns
        /\ sock' \in [Conns -> {"none", "surplus", "open", "ended", "closed"}]
    <2>1. CASE UNCHANGED <<sock, table>>
      BY <1>1, <2>1 DEF Inv, TypeOK, SocketInv, LimitIsExact, NoTcpAfterStop
    <2>2. CASE sock[ConnOf[q]] \in Usable /\ \E s \in {"open", "ended", "closed"} : Leave(q, s)
      BY <1>1, <2>2, LeaveKeepsSocketInv DEF Inv
    <2>3. QED
      BY <2>1, <2>2
  <1>4. QED
    BY <1>1, <1>2, <1>3 DEF Inv, TypeOK

\* The same for a query that is settled as it arrives.
LEMMA ArrivalKeepsInv ==
    ASSUME Inv, NEW q \in Queries, Arrives(q),
           query' = [query EXCEPT ![q] = "settled"],
           Answer(q) \/ UNCHANGED replies, UNCHANGED fwd,
           NEW s \in {"open", "ended", "closed"}, Leave(q, s)
    PROVE  Inv'
  <1>1. sock[ConnOf[q]] \in Usable /\ UNCHANGED <<server, faulted>>
    BY DEF Arrives
  <1>2. /\ QueryInv'
        /\ query' \in [Queries -> {"new", "forwarded", "settled"}]
        /\ replies' \in [Queries -> Nat] /\ atStop' \subseteq Queries
    BY SettlingKeepsQueryInv
  <1>3. /\ SocketInv' /\ table' \subseteq Conns
        /\ sock' \in [Conns -> {"none", "surplus", "open", "ended", "closed"}]
    BY <1>1, LeaveKeepsSocketInv DEF Inv
  <1>4. QED
    BY <1>1, <1>2, <1>3 DEF Inv, TypeOK

-----------------------------------------------------------------------------

\* Steps that touch no query keep what is known of them.
LEMMA QueriesUntouched ==
    ASSUME QueryInv, UNCHANGED <<server, query, fwd, replies, atStop>>
    PROVE  QueryInv'
  BY DEF QueryInv, UnansweredYet, AtMostOneReply, StopEndsUpstreams

\* A connection is admitted below the limit only, and a TCP one before stop().
LEMMA AdmitKeepsInv ==
    ASSUME Inv, NEW c \in Conns, Admit(c)
    PROVE  Inv'
  <1> USE DEF Inv, SocketInv
  <1>1. /\ sock[c] = "none" /\ Cardinality(table) < MaxConns /\ Accepting(c)
        /\ UNCHANGED <<server, query, fwd, replies, atStop, faulted>>
    BY DEF Admit
  <1>2. QueryInv'
    BY <1>1, QueriesUntouched
  <1>3. CASE sock' = [sock EXCEPT ![c] = "open"] /\ table' = table \cup {c}
    <2>1. /\ sock' \in [Conns -> {"none", "surplus", "open", "ended", "closed"}]
          /\ sock'[c] = "open" /\ \A d \in Conns : d # c => sock'[d] = sock[d]
      BY <1>3 DEF TypeOK
    <2>2. table' = {d \in Conns : sock'[d] \in Usable}
      BY <1>3, <2>1 DEF LimitIsExact, Usable
    <2>3. IsFiniteSet(table') /\ Cardinality(table') <= MaxConns
      <3>1. Cardinality(table) \in Nat
        BY FS_CardinalityType
      <3>2. /\ IsFiniteSet(table \cup {c})
            /\ Cardinality(table \cup {c}) = (IF c \in table THEN Cardinality(table)
                                            ELSE Cardinality(table) + 1)
        BY FS_AddElement
      <3>3. QED
        BY <1>1, <1>3, <3>1, <3>2, MaxConnsAssumption DEF MaxConnsAssumption
    <2>4. NoTcpAfterStop'
      BY <1>1, <2>1, KindsAssumption
      DEF NoTcpAfterStop, Accepting, KindsAssumption, Conns
    <2>5. TypeOK'
      BY <1>1, <1>3, <2>1 DEF TypeOK
    <2>6. QED
      BY <1>2, <2>2, <2>3, <2>4, <2>5 DEF LimitIsExact
  <1>4. CASE sock' = [sock EXCEPT ![c] = "closed"] /\ table' = table
    <2>1. /\ sock' \in [Conns -> {"none", "surplus", "open", "ended", "closed"}]
          /\ sock'[c] = "closed" /\ \A d \in Conns : d # c => sock'[d] = sock[d]
      BY <1>4 DEF TypeOK
    <2>2. \A d \in Conns : sock'[d] \in Usable <=> sock[d] \in Usable
      BY <1>1, <2>1 DEF Usable
    <2>3. LimitIsExact' /\ NoTcpAfterStop'
      BY <1>1, <1>4, <2>2 DEF LimitIsExact, NoTcpAfterStop, Conns
    <2>4. TypeOK'
      BY <1>1, <1>4, <2>1 DEF TypeOK
    <2>5. QED
      BY <1>2, <1>4, <2>3, <2>4
  <1>5. QED
    BY <1>3, <1>4 DEF Admit

\* A connection over the limit is in no set, neither while it is there nor
\* when it goes.
LEMMA SurplusKeepsInv ==
    ASSUME Inv, NEW c \in Conns, Surplus(c) \/ SurplusGone(c)
    PROVE  Inv'
  <1> USE DEF Inv, SocketInv
  <1>1. /\ sock[c] \in {"none", "surplus"}
        /\ \E s \in {"surplus", "closed"} : sock' = [sock EXCEPT ![c] = s]
        /\ faulted' \in BOOLEAN
        /\ UNCHANGED <<server, table, query, fwd, replies, atStop>>
    BY DEF Surplus, SurplusGone, TypeOK
  <1>2. /\ sock' \in [Conns -> {"none", "surplus", "open", "ended", "closed"}]
        /\ \A d \in Conns : sock'[d] \in Usable <=> sock[d] \in Usable
    BY <1>1 DEF TypeOK, Usable
  <1>3. QueryInv'
    BY <1>1, QueriesUntouched
  <1>4. LimitIsExact' /\ NoTcpAfterStop'
    BY <1>1, <1>2 DEF LimitIsExact, NoTcpAfterStop, Conns
  <1>5. TypeOK'
    BY <1>1, <1>2 DEF TypeOK
  <1>6. QED
    BY <1>1, <1>3, <1>4, <1>5

\* A client's socket that closes leaves the set.
LEMMA ClosesKeepsInv ==
    ASSUME Inv, NEW c \in Conns, Closes(c)
    PROVE  Inv'
  <1>1. /\ {c} \in SUBSET Conns /\ Destroyed({c})
        /\ UNCHANGED <<server, query, fwd, replies, atStop, faulted>>
    BY DEF Closes
  <1>2. /\ SocketInv' /\ table' \subseteq Conns
        /\ sock' \in [Conns -> {"none", "surplus", "open", "ended", "closed"}]
    BY <1>1, DestroyedKeepsSocketInv DEF Inv
  <1>3. QueryInv'
    BY <1>1, QueriesUntouched DEF Inv
  <1>4. QED
    BY <1>1, <1>2, <1>3 DEF Inv, TypeOK

\* Both halves of stop(): activeTcpConnections is exact, so that destroying
\* its members leaves no connection at all.
LEMMA StopKeepsInv ==
    ASSUME Inv, Stop \/ StopDot
    PROVE  Inv'
  <1> USE DEF Inv
  <1>1. /\ table \in SUBSET Conns /\ Destroyed(table)
        /\ server' \in {"stopping", "down"}
        /\ UNCHANGED <<query, replies, atStop, faulted>>
    BY DEF Stop, StopDot, TypeOK
  <1>2. /\ LimitIsExact' /\ IsFiniteSet(table') /\ table' \subseteq Conns
        /\ sock' \in [Conns -> {"none", "surplus", "open", "ended", "closed"}]
        /\ \A c \in Conns : sock'[c] \in Usable => sock[c] \in Usable /\ c \notin table
    BY <1>1, DestroyedKeepsLimit
  <1>3. NoTcpAfterStop'
    BY <1>2 DEF NoTcpAfterStop, SocketInv, LimitIsExact, Conns
  <1>4. /\ fwd' \in [Queries -> {"none", "open", "closed"}]
        /\ \A q \in Queries :
              /\ fwd'[q] = "open" => fwd[q] = "open" /\ server # "up"
              /\ fwd[q] = "none" => fwd'[q] = "none"
    BY DEF Stop, StopDot, TypeOK
  <1>5. UnansweredYet' /\ AtMostOneReply'
    BY <1>1, <1>4 DEF QueryInv, UnansweredYet, AtMostOneReply
  <1>6. StopEndsUpstreams'
    BY <1>1, <1>4 DEF QueryInv, StopEndsUpstreams
  <1>7. TypeOK'
    BY <1>1, <1>2, <1>4 DEF TypeOK
  <1>8. QED
    BY <1>2, <1>3, <1>5, <1>6, <1>7 DEF SocketInv, QueryInv

\* Every step of the two listeners keeps the invariant.
LEMMA NextInv == Inv /\ [Next]_vars => Inv'
  <1> SUFFICES ASSUME Inv, [Next]_vars PROVE Inv'
    OBVIOUS
  <1> DEFINE Lefts == {"open", "ended", "closed"}
  <1>1. ASSUME NEW c \in Conns, Admit(c) PROVE Inv'
    BY <1>1, AdmitKeepsInv
  <1>2. ASSUME NEW c \in Conns, Surplus(c) \/ SurplusGone(c) PROVE Inv'
    BY <1>2, SurplusKeepsInv
  <1>3. ASSUME NEW c \in Conns, Closes(c) PROVE Inv'
    BY <1>3, ClosesKeepsInv
  <1>4. ASSUME NEW q \in Queries, AnswerLocally(q) PROVE Inv'
    BY <1>4, ArrivalKeepsInv DEF AnswerLocally, Written
  <1>5. ASSUME NEW q \in Queries, EndAfter(q) PROVE Inv'
    <2>1. sock[ConnOf[q]] \in Usable
      BY <1>5 DEF EndAfter, Arrives
    <2>2. Ended(sock[ConnOf[q]]) \in Lefts /\ Ended(Written(sock[ConnOf[q]])) \in Lefts
      BY <2>1 DEF Ended, Written, Usable
    <2>3. QED
      BY <1>5, <2>2, ArrivalKeepsInv DEF EndAfter
  <1>6. ASSUME NEW q \in Queries, Malformed(q) PROVE Inv'
    BY <1>6, ArrivalKeepsInv DEF Malformed
  <1>7. ASSUME NEW q \in Queries, Forward(q) PROVE Inv'
    BY <1>7, ForwardKeepsInv
  <1>8. ASSUME NEW q \in Queries, NEW frames \in 1..2, FwdAnswers(q, frames) PROVE Inv'
    <2>1. CASE sock[ConnOf[q]] \in Usable
      <3>1. PICK s \in Lefts : Leave(q, s)
        BY <1>8, <2>1 DEF FwdAnswers, Ended, Written, Usable
      <3>2. FwdCloses(q) /\ Answer(q) /\ UNCHANGED faulted
        BY <1>8, <2>1 DEF FwdAnswers
      <3>3. QED
        BY <2>1, <3>1, <3>2, FwdEventKeepsInv
    <2>2. CASE sock[ConnOf[q]] \notin Usable
      <3>1. FwdCloses(q) /\ UNCHANGED <<sock, table, replies, faulted>>
        BY <1>8, <2>2 DEF FwdAnswers
      <3>2. QED
        BY <3>1, FwdEventKeepsInv
    <2>3. QED
      BY <2>1, <2>2
  <1>9. ASSUME NEW q \in Queries, FwdEnds(q) PROVE Inv'
    BY <1>9, FwdEventKeepsInv DEF FwdEnds, Ended, Usable
  <1>10. ASSUME NEW q \in Queries, FwdThrows(q) PROVE Inv'
    <2>1. faulted' \in BOOLEAN /\ UNCHANGED <<server, sock, table, query, fwd, replies, atStop>>
      BY <1>10 DEF FwdThrows
    <2>2. QueryInv'
      BY <2>1, QueriesUntouched DEF Inv
    <2>3. SocketInv'
      BY <2>1 DEF Inv, SocketInv, LimitIsExact, NoTcpAfterStop
    <2>4. QED
      BY <2>1, <2>2, <2>3 DEF Inv, TypeOK
  <1>11. ASSUME NEW q \in Queries, FwdFails(q) PROVE Inv'
    BY <1>11, FwdEventKeepsInv DEF FwdFails, Ended, Written, Usable
  <1>12. ASSUME NEW q \in Queries, FwdTimeout(q) PROVE Inv'
    BY <1>12, FwdEventKeepsInv DEF FwdTimeout
  <1>13. CASE Stop \/ StopDot
    BY <1>13, StopKeepsInv
  <1>14. CASE UNCHANGED vars
    <2>1. QueryInv'
      BY <1>14, QueriesUntouched DEF Inv, vars
    <2>2. SocketInv'
      BY <1>14 DEF Inv, SocketInv, LimitIsExact, NoTcpAfterStop, vars
    <2>3. QED
      BY <1>14, <2>1, <2>2 DEF Inv, TypeOK, vars
  <1>15. QED
    BY <1>1, <1>2, <1>3, <1>4, <1>5, <1>6, <1>7, <1>8, <1>9, <1>10, <1>11, <1>12, <1>13, <1>14
    DEF Next

-----------------------------------------------------------------------------

\* The inductive invariant holds in every reachable state of the listeners.
THEOREM Invariance == Spec => []Inv
  BY InitInv, NextInv, PTL DEF Spec

\* Every variable of TcpListener keeps its type.
THEOREM TypeCorrect == Spec => []TypeOK
  <1>1. Inv => TypeOK
    BY DEF Inv
  <1>2. QED
    BY <1>1, Invariance, PTL

\* activeTcpConnections counts exactly the connections that are served, and
\* never more than maxTcpConnections.
THEOREM LimitExact == Spec => []LimitIsExact
  <1>1. Inv => LimitIsExact
    BY DEF Inv, SocketInv
  <1>2. QED
    BY <1>1, Invariance, PTL

\* Whatever handlers share a client's socket, no query is answered twice.
THEOREM OneReply == Spec => []AtMostOneReply
  <1>1. Inv => AtMostOneReply
    BY DEF Inv, QueryInv
  <1>2. QED
    BY <1>1, Invariance, PTL

\* stop() ends every upstream connection but those of TLS queries that arrive
\* while the TCP listener closes.
THEOREM UpstreamsEnd == Spec => []StopEndsUpstreams
  <1>1. Inv => StopEndsUpstreams
    BY DEF Inv, QueryInv
  <1>2. QED
    BY <1>1, Invariance, PTL
=============================================================================
