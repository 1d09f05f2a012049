------------------------- MODULE DnsHandlerProofs -------------------------
(***************************************************************************)
(* The safety of what DnsHandler keeps for its clients. DnsForwarder, for  *)
(* any number of queries, any tracking numbers and any limit: one reply at *)
(* most, a deadline for every upstream socket, and an exact count of them  *)
(* while no tracking number was drawn twice. RateLimiter, for any quota,   *)
(* window and bound on its map: no client gets more than twice its quota   *)
(* in a window, and none is refused that did not use it up.                *)
(***************************************************************************)
EXTENDS DnsForwarder, RateLimiter, FiniteSetTheorems, TLAPS

\* A timer that is armed belongs to a socket that is open.
ArmedIsOpen == \A q \in Queries : timer[q] = "armed" => fwdSocket[q] = "open"

\* A query whose socket is not closed was not answered yet.
UnansweredYet == \A q \in Queries : fwdSocket[q] # "closed" => replies[q] = 0

\* An entry is that of a query in progress, under its own number.
EntriesAreOpen ==
    \A t \in TrackingIds : pending[t] # Nobody =>
        /\ fwdSocket[pending[t]] = "open"
        /\ track[pending[t]] = t

\* Unless numbers collided, each query in progress has its entry.
OpenHaveEntries ==
    Up /\ ~collided => \A q \in OpenUdp : pending[track[q]] = q

Inv ==
    /\ TypeOK
    /\ ArmedIsOpen
    /\ UnansweredYet
    /\ AtMostOneReply
    /\ OpenHasDeadline
    /\ EntriesAreOpen
    /\ OpenHaveEntries
    /\ IsFiniteSet(OpenUdp)
    /\ ForwardsBounded

-----------------------------------------------------------------------------

\* Initially nothing is forwarded.
LEMMA InitInv == Init => Inv
  <1> SUFFICES ASSUME Init PROVE Inv
    OBVIOUS
  <1>1. TypeOK
    <2>1. (CHOOSE t \in TrackingIds : TRUE) \in TrackingIds
      BY TrackingIdsAssumption DEF TrackingIdsAssumption
    <2>2. QED
      BY <2>1 DEF Init, TypeOK
  <1>2. OpenUdp = {} /\ IsFiniteSet({}) /\ Cardinality({}) = 0
    BY FS_EmptySet DEF Init, OpenUdp, Queries
  <1>3. ArmedIsOpen /\ UnansweredYet /\ AtMostOneReply /\ OpenHasDeadline
    BY DEF Init, ArmedIsOpen, UnansweredYet, AtMostOneReply, OpenHasDeadline
  <1>4. EntriesAreOpen /\ OpenHaveEntries
    BY <1>2 DEF Init, EntriesAreOpen, OpenHaveEntries
  <1>5. ForwardsBounded
    BY <1>2, MaxForwardsAssumption DEF ForwardsBounded, MaxForwardsAssumption
  <1>6. QED
    BY <1>1, <1>2, <1>3, <1>4, <1>5 DEF Inv

(***************************************************************************)
(* While entries are exact, their number is that of the open sockets: each *)
(* query in progress has one, and no two have the same.                    *)
(***************************************************************************)
LEMMA EntriesCountSockets ==
    ASSUME TypeOK, EntriesAreOpen, \A q \in OpenUdp : pending[track[q]] = q,
           IsFiniteSet(OpenUdp)
    PROVE  Cardinality(OpenUdp) = PendingSize
  <1> DEFINE used == {t \in TrackingIds : pending[t] # Nobody}
             f == [q \in OpenUdp |-> track[q]]
  <1>1. \A q \in OpenUdp : q \in UdpQueries /\ q \in Queries /\ q # Nobody /\ track[q] \in TrackingIds
    BY NobodyAssumption DEF OpenUdp, TypeOK, Queries, NobodyAssumption
  <1>2. f \in [OpenUdp -> used]
    BY <1>1
  <1>3. \A p, q \in OpenUdp : f[p] = f[q] => p = q
    OBVIOUS
  <1>4. \A t \in used : pending[t] \in OpenUdp /\ f[pending[t]] = t
    <2> SUFFICES ASSUME NEW t \in used PROVE pending[t] \in OpenUdp /\ track[pending[t]] = t
      OBVIOUS
    <2>1. t \in TrackingIds /\ pending[t] # Nobody
      OBVIOUS
    <2>2. pending[t] \in UdpQueries
      BY <2>1 DEF TypeOK
    <2>3. QED
      BY <2>1, <2>2 DEF EntriesAreOpen, OpenUdp
  <1>5. f \in Bijection(OpenUdp, used)
    <2>1. \A t \in used : \E q \in OpenUdp : f[q] = t
      BY <1>4
    <2>2. QED
      BY <1>2, <1>3, <2>1 DEF Bijection, Injection, Surjection, IsInjective
  <1>6. ExistsBijection(OpenUdp, used)
    BY <1>5 DEF ExistsBijection
  <1>7. QED
    BY <1>6, FS_Bijection DEF PendingSize

-----------------------------------------------------------------------------

(***************************************************************************)
(* The end of a forwarded query, by whichever of its handlers comes first: *)
(* the entry, the timer and the socket go together, so that no other       *)
(* handler finds any of them, and the entry that goes is its own.          *)
(***************************************************************************)
LEMMA EndingKeepsInv ==
    ASSUME Inv, NEW q \in Queries, fwdSocket[q] = "open",
           pending' = Forgotten(q), ClearTimer(q), CloseSocket(q),
           Reply(q) \/ UNCHANGED replies,
           UNCHANGED <<server, track, collided>>, faulted' \in BOOLEAN
    PROVE  Inv'
  <1> USE DEF Inv
  <1>1. /\ fwdSocket' \in [Queries -> {"none", "open", "closed"}] /\ fwdSocket'[q] = "closed"
        /\ \A p \in Queries : p # q => fwdSocket'[p] = fwdSocket[p]
    BY DEF CloseSocket, TypeOK
  <1>2. /\ timer' \in [Queries -> {"off", "armed"}] /\ timer'[q] = "off"
        /\ \A p \in Queries : p # q => timer'[p] = timer[p]
    BY DEF ClearTimer, TypeOK
  <1>3. /\ replies' \in [Queries -> Nat] /\ replies'[q] <= 1
        /\ \A p \in Queries : p # q => replies'[p] = replies[p]
    <2>1. replies[q] = 0
      BY DEF UnansweredYet
    <2>2. QED
      BY <2>1 DEF Reply, TypeOK
  <1>4. /\ pending' \in [TrackingIds -> UdpQueries \cup {Nobody}]
        /\ \A t \in TrackingIds : pending'[t] # Nobody => pending'[t] = pending[t] /\ pending[t] # q
        /\ \A t \in TrackingIds : q \notin UdpQueries \/ t # track[q] => pending'[t] = pending[t]
    <2>1. CASE q \in UdpQueries
      <3>1. pending' = [pending EXCEPT ![track[q]] = Nobody]
        BY <2>1 DEF Forgotten
      <3>2. \A t \in TrackingIds : pending[t] = q => t = track[q]
        BY <2>1, NobodyAssumption DEF EntriesAreOpen, NobodyAssumption
      <3>3. QED
        BY <2>1, <3>1, <3>2 DEF TypeOK
    <2>2. CASE q \notin UdpQueries
      <3>1. pending' = pending
        BY <2>2 DEF Forgotten
      <3>2. \A t \in TrackingIds : pending[t] # q
        BY <2>2, NobodyAssumption DEF TypeOK, NobodyAssumption
      <3>3. QED
        BY <3>1, <3>2 DEF TypeOK
    <2>3. QED
      BY <2>1, <2>2
  <1>5. OpenUdp' = OpenUdp \ {q}
    BY <1>1 DEF OpenUdp, Queries
  <1>6. TypeOK'
    BY <1>1, <1>2, <1>3, <1>4 DEF TypeOK
  <1>7. ArmedIsOpen' /\ UnansweredYet' /\ AtMostOneReply'
    BY <1>1, <1>2, <1>3 DEF ArmedIsOpen, UnansweredYet, AtMostOneReply
  <1>8. OpenHasDeadline'
    BY <1>1, <1>2 DEF OpenHasDeadline, Up
  <1>9. EntriesAreOpen'
    <2> SUFFICES ASSUME NEW t \in TrackingIds, pending'[t] # Nobody
                 PROVE  fwdSocket'[pending'[t]] = "open" /\ track'[pending'[t]] = t
      BY DEF EntriesAreOpen
    <2>1. pending'[t] = pending[t] /\ pending[t] # q /\ pending[t] \in Queries
      BY <1>4 DEF TypeOK, Queries
    <2>2. QED
      BY <1>1, <2>1 DEF EntriesAreOpen
  <1>10. OpenHaveEntries'
    <2> SUFFICES ASSUME Up, ~collided, NEW p \in OpenUdp, p # q
                 PROVE  pending'[track[p]] = p
      BY <1>5 DEF OpenHaveEntries, Up
    <2>1. pending[track[p]] = p /\ track[p] \in TrackingIds
      BY DEF OpenHaveEntries, TypeOK, OpenUdp, Queries
    <2>2. CASE q \in UdpQueries
      <3>1. q \in OpenUdp
        BY <2>2 DEF OpenUdp
      <3>2. pending[track[q]] = q
        BY <3>1 DEF OpenHaveEntries
      <3>3. QED
        BY <1>4, <2>1, <3>2
    <2>3. QED
      BY <1>4, <2>1, <2>2
  <1>11. IsFiniteSet(OpenUdp') /\ Cardinality(OpenUdp') <= Cardinality(OpenUdp)
    BY <1>5, FS_Subset
  <1>12. ForwardsBounded'
    <2>1. Cardinality(OpenUdp) \in Nat /\ Cardinality(OpenUdp') \in Nat
      BY <1>11, FS_CardinalityType
    <2>2. QED
      BY <1>11, <2>1, MaxForwardsAssumption DEF ForwardsBounded, Up, MaxForwardsAssumption
  <1>13. QED
    BY <1>6, <1>7, <1>8, <1>9, <1>10, <1>11, <1>12

\* A query that needs no upstream, or finds the limit reached, gets no entry.
LEMMA LocalKeepsInv ==
    ASSUME Inv, NEW q \in Queries, SettleLocally(q) \/ DropAtLimit(q)
    PROVE  Inv'
  <1> USE DEF Inv
  <1>1. /\ fwdSocket[q] = "none" /\ CloseSocket(q) /\ (Reply(q) \/ UNCHANGED replies)
        /\ UNCHANGED <<server, timer, track, pending, collided, faulted>>
    BY DEF SettleLocally, DropAtLimit
  <1>2. /\ fwdSocket' \in [Queries -> {"none", "open", "closed"}] /\ fwdSocket'[q] = "closed"
        /\ \A p \in Queries : p # q => fwdSocket'[p] = fwdSocket[p]
    BY <1>1 DEF CloseSocket, TypeOK
  <1>3. /\ replies' \in [Queries -> Nat] /\ replies'[q] <= 1
        /\ \A p \in Queries : p # q => replies'[p] = replies[p]
    <2>1. replies[q] = 0
      BY <1>1 DEF UnansweredYet
    <2>2. QED
      BY <1>1, <2>1 DEF Reply, TypeOK
  <1>4. OpenUdp' = OpenUdp
    BY <1>1, <1>2 DEF OpenUdp, Queries
  <1>5. TypeOK'
    BY <1>1, <1>2, <1>3 DEF TypeOK
  <1>6. ArmedIsOpen' /\ UnansweredYet' /\ AtMostOneReply'
    BY <1>1, <1>2, <1>3 DEF ArmedIsOpen, UnansweredYet, AtMostOneReply
  <1>7. OpenHasDeadline'
    BY <1>1, <1>2 DEF OpenHasDeadline, Up
  <1>8. EntriesAreOpen'
    BY <1>1, <1>2 DEF EntriesAreOpen, TypeOK, Queries
  <1>9. OpenHaveEntries' /\ ForwardsBounded'
    BY <1>1, <1>4 DEF OpenHaveEntries, ForwardsBounded, Up
  <1>10. QED
    BY <1>4, <1>5, <1>6, <1>7, <1>8, <1>9

(***************************************************************************)
(* forwardUdpQuery: the limit is on entries, and because they are exact it *)
(* is one on sockets; if the number is in use, the invariant promises the  *)
(* count no longer.                                                        *)
(***************************************************************************)
LEMMA ForwardUdpKeepsInv ==
    ASSUME Inv, NEW q \in Queries, NEW t \in TrackingIds, ForwardUdp(q, t)
    PROVE  Inv'
  <1> USE DEF Inv
  <1>1. /\ Up /\ q \in UdpQueries /\ fwdSocket[q] = "none" /\ q # Nobody
        /\ PendingSize < MaxForwards
        /\ UNCHANGED <<server, replies, faulted>>
        /\ collided' \in BOOLEAN
        /\ ~collided' => ~collided /\ pending[t] = Nobody
    BY NobodyAssumption DEF ForwardUdp, Queries, TypeOK, NobodyAssumption
  <1>2. /\ fwdSocket' \in [Queries -> {"none", "open", "closed"}] /\ fwdSocket'[q] = "open"
        /\ timer' \in [Queries -> {"off", "armed"}] /\ timer'[q] = "armed"
        /\ track' \in [Queries -> TrackingIds] /\ track'[q] = t
        /\ \A p \in Queries : p # q => /\ fwdSocket'[p] = fwdSocket[p]
                                      /\ timer'[p] = timer[p]
                                      /\ track'[p] = track[p]
    BY DEF ForwardUdp, TypeOK
  <1>3. /\ pending' \in [TrackingIds -> UdpQueries \cup {Nobody}] /\ pending'[t] = q
        /\ \A u \in TrackingIds : u # t => pending'[u] = pending[u]
    BY <1>1 DEF ForwardUdp, TypeOK
  <1>4. OpenUdp' = OpenUdp \cup {q} /\ q \notin OpenUdp
    BY <1>1, <1>2 DEF OpenUdp, Queries
  <1>5. TypeOK'
    BY <1>1, <1>2, <1>3 DEF TypeOK
  <1>6. ArmedIsOpen' /\ UnansweredYet' /\ AtMostOneReply'
    BY <1>1, <1>2 DEF ArmedIsOpen, UnansweredYet, AtMostOneReply
  <1>7. OpenHasDeadline'
    BY <1>1, <1>2 DEF OpenHasDeadline, Up
  <1>8. EntriesAreOpen'
    <2> SUFFICES ASSUME NEW u \in TrackingIds, pending'[u] # Nobody
                 PROVE  fwdSocket'[pending'[u]] = "open" /\ track'[pending'[u]] = u
      BY DEF EntriesAreOpen
    <2>1. CASE u = t
      BY <1>2, <1>3, <2>1
    <2>2. CASE u # t
      <3>1. /\ pending'[u] = pending[u] /\ fwdSocket[pending[u]] = "open"
            /\ track[pending[u]] = u /\ pending[u] \in Queries
        BY <1>3, <2>2 DEF EntriesAreOpen, TypeOK, Queries
      <3>2. QED
        BY <1>1, <1>2, <3>1
    <2>3. QED
      BY <2>1, <2>2
  <1>9. OpenHaveEntries'
    <2> SUFFICES ASSUME ~collided', NEW p \in OpenUdp'
                 PROVE  pending'[track'[p]] = p
      BY DEF OpenHaveEntries
    <2>1. CASE p = q
      BY <1>2, <1>3, <2>1
    <2>2. CASE p # q
      <3>1. p \in OpenUdp /\ p \in Queries /\ p # Nobody /\ track[p] \in TrackingIds
        BY <1>4, <2>2, NobodyAssumption DEF OpenUdp, Queries, TypeOK, NobodyAssumption
      <3>2. pending[track[p]] = p
        BY <1>1, <3>1 DEF OpenHaveEntries
      <3>3. track[p] # t
        BY <1>1, <3>1, <3>2
      <3>4. QED
        BY <1>2, <1>3, <2>2, <3>1, <3>2, <3>3
    <2>3. QED
      BY <2>1, <2>2
  <1>10. /\ IsFiniteSet(OpenUdp')
         /\ Cardinality(OpenUdp') = Cardinality(OpenUdp) + 1
    BY <1>4, FS_AddElement
  <1>11. ForwardsBounded'
    <2> SUFFICES ASSUME ~collided' PROVE Cardinality(OpenUdp') <= MaxForwards
      BY DEF ForwardsBounded
    <2>1. Cardinality(OpenUdp) = PendingSize
      BY <1>1, EntriesCountSockets DEF OpenHaveEntries
    <2>2. Cardinality(OpenUdp) \in Nat
      BY FS_CardinalityType
    <2>3. QED
      BY <1>1, <1>10, <2>1, <2>2, MaxForwardsAssumption DEF MaxForwardsAssumption
  <1>12. QED
    BY <1>5, <1>6, <1>7, <1>8, <1>9, <1>10, <1>11

\* resolveQueryAsync: a socket and its timer, and no entry.
LEMMA ForwardDohKeepsInv ==
    ASSUME Inv, NEW q \in Queries, ForwardDoh(q)
    PROVE  Inv'
  <1> USE DEF Inv
  <1>1. /\ q \in DohQueries /\ q \notin UdpQueries /\ fwdSocket[q] = "none"
        /\ UNCHANGED <<server, track, pending, replies, collided, faulted>>
    BY QueriesAssumption DEF ForwardDoh, QueriesAssumption
  <1>2. /\ fwdSocket' \in [Queries -> {"none", "open", "closed"}] /\ fwdSocket'[q] = "open"
        /\ timer' \in [Queries -> {"off", "armed"}] /\ timer'[q] = "armed"
        /\ \A p \in Queries : p # q => fwdSocket'[p] = fwdSocket[p] /\ timer'[p] = timer[p]
    BY DEF ForwardDoh, TypeOK
  <1>3. OpenUdp' = OpenUdp
    BY <1>1, <1>2 DEF OpenUdp, Queries
  <1>4. TypeOK'
    BY <1>1, <1>2 DEF TypeOK
  <1>5. ArmedIsOpen' /\ UnansweredYet' /\ AtMostOneReply'
    BY <1>1, <1>2 DEF ArmedIsOpen, UnansweredYet, AtMostOneReply
  <1>6. OpenHasDeadline'
    BY <1>1, <1>2 DEF OpenHasDeadline, Up
  <1>7. EntriesAreOpen'
    BY <1>1, <1>2 DEF EntriesAreOpen, TypeOK, Queries
  <1>8. OpenHaveEntries' /\ ForwardsBounded'
    BY <1>1, <1>3 DEF OpenHaveEntries, ForwardsBounded, Up
  <1>9. QED
    BY <1>3, <1>4, <1>5, <1>6, <1>7, <1>8

\* stop(): timers go without their sockets, but only those of entries, which
\* are UDP queries.
LEMMA StopKeepsInv ==
    ASSUME Inv, Stop
    PROVE  Inv'
  <1> USE DEF Inv
  <1>1. /\ Up /\ server' = "stopping"
        /\ UNCHANGED <<fwdSocket, track, replies, collided, faulted>>
    BY DEF Stop
  <1>2. /\ timer' \in [Queries -> {"off", "armed"}]
        /\ \A q \in Queries : timer'[q] = "armed" => timer[q] = "armed"
        /\ \A q \in Queries : q \notin UdpQueries => timer'[q] = timer[q]
    <2>1. timer' = [q \in Queries |->
                      IF \E t \in TrackingIds : pending[t] = q THEN "off" ELSE timer[q]]
      BY DEF Stop
    <2>2. \A q \in Queries : q \notin UdpQueries => \A t \in TrackingIds : pending[t] # q
      BY NobodyAssumption DEF TypeOK, NobodyAssumption
    <2>3. QED
      BY <2>1, <2>2 DEF TypeOK
  <1>3. pending' \in [TrackingIds -> UdpQueries \cup {Nobody}] /\ \A t \in TrackingIds : pending'[t] = Nobody
    BY DEF Stop
  <1>4. ~Up' /\ OpenUdp' = OpenUdp
    BY <1>1 DEF Up, OpenUdp
  <1>5. TypeOK'
    BY <1>1, <1>2, <1>3 DEF TypeOK
  <1>6. ArmedIsOpen' /\ UnansweredYet' /\ AtMostOneReply'
    BY <1>1, <1>2 DEF ArmedIsOpen, UnansweredYet, AtMostOneReply
  <1>7. OpenHasDeadline'
    BY <1>1, <1>2, <1>4 DEF OpenHasDeadline
  <1>8. EntriesAreOpen' /\ OpenHaveEntries' /\ ForwardsBounded'
    BY <1>3, <1>4 DEF EntriesAreOpen, OpenHaveEntries, ForwardsBounded
  <1>9. QED
    BY <1>4, <1>5, <1>6, <1>7, <1>8

\* A step that changes no query, and does not bring the listeners back up,
\* keeps the invariant.
LEMMA QueriesUntouched ==
    ASSUME Inv, UNCHANGED <<fwdSocket, timer, track, pending, replies, collided, faulted>>,
           server' \in {"up", "stopping", "down"}, Up' => Up
    PROVE  Inv'
  <1> USE DEF Inv
  <1>1. OpenUdp' = OpenUdp
    BY DEF OpenUdp
  <1>2. TypeOK' /\ ArmedIsOpen' /\ UnansweredYet' /\ AtMostOneReply' /\ EntriesAreOpen'
    BY DEF TypeOK, ArmedIsOpen, UnansweredYet, AtMostOneReply, EntriesAreOpen
  <1>3. OpenHasDeadline'
    BY DEF OpenHasDeadline
  <1>4. OpenHaveEntries' /\ ForwardsBounded'
    BY <1>1 DEF OpenHaveEntries, ForwardsBounded
  <1>5. QED
    BY <1>1, <1>2, <1>3, <1>4

\* Every step of the handler keeps the invariant.
LEMMA NextInv == Inv /\ [Next]_vars => Inv'
  <1> SUFFICES ASSUME Inv, [Next]_vars PROVE Inv'
    OBVIOUS
  <1>1. ASSUME NEW q \in Queries, SettleLocally(q) \/ DropAtLimit(q) PROVE Inv'
    BY <1>1, LocalKeepsInv
  <1>2. ASSUME NEW q \in Queries, NEW t \in TrackingIds, ForwardUdp(q, t) PROVE Inv'
    BY <1>2, ForwardUdpKeepsInv
  <1>3. ASSUME NEW q \in Queries, ForwardDoh(q) PROVE Inv'
    BY <1>3, ForwardDohKeepsInv
  <1>4. ASSUME NEW q \in Queries, NEW verdict \in Verdicts, Answer(q, verdict) PROVE Inv'
    BY <1>4, EndingKeepsInv DEF Answer, Inv, TypeOK
  <1>5. ASSUME NEW q \in Queries, SocketError(q) PROVE Inv'
    BY <1>5, EndingKeepsInv DEF SocketError, Inv, TypeOK
  <1>6. ASSUME NEW q \in Queries, Timeout(q) PROVE Inv'
    <2>1. fwdSocket[q] = "open" /\ faulted' \in BOOLEAN
      BY <1>6 DEF Timeout, Inv, ArmedIsOpen, TypeOK
    <2>2. QED
      BY <1>6, <2>1, EndingKeepsInv DEF Timeout
  <1>7. CASE Stop
    BY <1>7, StopKeepsInv
  <1>8. CASE StopDoh
    BY <1>8, QueriesUntouched DEF StopDoh, Up
  <1>9. CASE UNCHANGED vars
    BY <1>9, QueriesUntouched DEF vars, Inv, TypeOK, Up
  <1>10. QED
    BY <1>1, <1>2, <1>3, <1>4, <1>5, <1>6, <1>7, <1>8, <1>9 DEF Next

-----------------------------------------------------------------------------

\* The inductive invariant holds in every reachable state of the handler.
THEOREM Invariance == Spec => []Inv
  BY InitInv, NextInv, PTL DEF Spec

\* Every variable of DnsForwarder keeps its type.
THEOREM TypeCorrect == Spec => []TypeOK
  <1>1. Inv => TypeOK
    BY DEF Inv
  <1>2. QED
    BY <1>1, Invariance, PTL

\* Of the answer, the socket error and the timer of a forwarded query, only
\* the first replies to the client.
THEOREM OneReply == Spec => []AtMostOneReply
  <1>1. Inv => AtMostOneReply
    BY DEF Inv
  <1>2. QED
    BY <1>1, Invariance, PTL

\* maxConcurrentUdpForwards bounds the upstream sockets of UDP queries, for as
\* long as no tracking number was drawn twice.
THEOREM Bounded == Spec => []ForwardsBounded
  <1>1. Inv => ForwardsBounded
    BY DEF Inv
  <1>2. QED
    BY <1>1, Invariance, PTL

\* pendingUpstreamQueries holds exactly the UDP queries in progress, for as
\* long as no tracking number was drawn twice.
THEOREM PendingExact == Spec => []PendingIsExact
  <1>1. Inv => PendingIsExact
    <2> SUFFICES ASSUME Inv, Up, ~collided
                 PROVE  {pending[t] : t \in TrackingIds} \ {Nobody} = OpenUdp
      BY DEF PendingIsExact
    <2>1. \A t \in TrackingIds : pending[t] # Nobody => pending[t] \in OpenUdp
      BY DEF Inv, TypeOK, EntriesAreOpen, OpenUdp
    <2>2. \A q \in OpenUdp : q # Nobody /\ track[q] \in TrackingIds /\ pending[track[q]] = q
      BY NobodyAssumption DEF Inv, TypeOK, OpenHaveEntries, OpenUdp, Queries, NobodyAssumption
    <2>3. QED
      BY <2>1, <2>2
  <1>2. QED
    BY <1>1, Invariance, PTL

\* Every upstream socket has an armed timer, except those of UDP queries after
\* stop().
THEOREM Deadlines == Spec => []OpenHasDeadline
  <1>1. Inv => OpenHasDeadline
    BY DEF Inv
  <1>2. QED
    BY <1>1, Invariance, PTL

-----------------------------------------------------------------------------
(* RateLimiter.                                                             *)

\* How many of the ticks before now the last bucket of ip has been open for.
Since(ip) == now - (resetTime[ip] - WindowTicks)

\* The bucket counts, at least, what was let through since it was opened.
CountIsEnough ==
    \A ip \in Ips \ forgotten : \A a \in Ages :
        /\ a <= Since(ip) => recent[ip][a] <= count[ip]
        /\ recent[ip][a] <= MaxRequests + count[ip]

\* And, at most, that.
CountIsSpent ==
    \A ip \in Ips : \A a \in Ages : a >= Since(ip) => count[ip] <= recent[ip][a]

\* After the end of a bucket nothing is let through without a new one.
QuietAfterEnd ==
    \A ip \in Ips : \A a \in Ages : a <= now - resetTime[ip] => recent[ip][a] = 0

\* A bucket that counts is in the map, if it was not evicted.
OpenIsTracked ==
    \A ip \in Ips \ forgotten : collecting /\ now < resetTime[ip] => ip \in Tracked

LimiterInv ==
    /\ LimiterTypeOK
    /\ \A ip \in Ips : count[ip] <= MaxRequests /\ resetTime[ip] <= now + WindowTicks
    /\ CountIsEnough /\ CountIsSpent /\ QuietAfterEnd /\ OpenIsTracked

\* The map as the code keeps it, for insertions and collections.
LimiterTypes ==
    /\ order \in Seq(Ips) /\ Len(order) <= MaxTrackedIps
    /\ \A i, j \in DOMAIN order : order[i] = order[j] => i = j

LEMMA LimiterBounds ==
    /\ MaxRequests \in Nat /\ MaxRequests >= 1 /\ WindowTicks \in Nat /\ WindowTicks >= 1
    /\ MaxTrackedIps \in Nat /\ MaxTrackedIps >= 1 /\ MaxTime \in Nat
    /\ HistoryCap \in Nat /\ HistoryCap > 2 * MaxRequests
    /\ Ages = 0..(WindowTicks - 1) /\ 0 \in Ages /\ WindowTicks - 1 \in Ages
BY MaxRequestsAssumption, WindowAssumption, TrackedAssumption, TimeAssumption, HistoryAssumption DEF Ages

LEMMA LimiterStarts == LimiterInit => LimiterInv
<1> SUFFICES ASSUME LimiterInit PROVE LimiterInv
  OBVIOUS
<1>1. now = 0 /\ order = <<>> /\ \A ip \in Ips : /\ count[ip] = 0 /\ resetTime[ip] = 0
                                                  /\ \A a \in Ages : recent[ip][a] = 0
  BY DEF LimiterInit
<1>2. LimiterTypeOK
  BY LimiterBounds DEF LimiterInit, LimiterTypeOK
<1>3. \A ip \in Ips : count[ip] <= MaxRequests /\ resetTime[ip] <= now + WindowTicks
  BY <1>1, LimiterBounds
<1>4. CountIsEnough
  BY <1>1, LimiterBounds DEF CountIsEnough
<1>5. CountIsSpent /\ QuietAfterEnd /\ OpenIsTracked
  BY <1>1 DEF CountIsSpent, QuietAfterEnd, OpenIsTracked
<1>6. QED
  BY <1>2, <1>3, <1>4, <1>5 DEF LimiterInv

\* An eviction takes the first of the map, and only when it is full.
LEMMA Evicted ==
    ASSUME LimiterTypeOK
    PROVE  /\ AfterEviction \in Seq(Ips) /\ Len(AfterEviction) < MaxTrackedIps
           /\ \A i, j \in DOMAIN AfterEviction : AfterEviction[i] = AfterEviction[j] => i = j
           /\ \A ip \in Tracked : (\E i \in DOMAIN AfterEviction : AfterEviction[i] = ip)
                                   \/ (AfterEviction # order /\ ip = Head(order))
<1>1. order \in Seq(Ips) /\ Len(order) \in Nat /\ Len(order) <= MaxTrackedIps /\ DOMAIN order = 1..Len(order)
      /\ \A i, j \in 1..Len(order) : order[i] = order[j] => i = j
  BY DEF LimiterTypeOK
<1>2. CASE Len(order) >= MaxTrackedIps
  <2>1. order # <<>> /\ AfterEviction = Tail(order) /\ Head(order) = order[1]
    BY <1>1, <1>2, LimiterBounds DEF AfterEviction
  <2>2. /\ Tail(order) \in Seq(Ips) /\ Len(Tail(order)) = Len(order) - 1
        /\ DOMAIN Tail(order) = 1..(Len(order) - 1)
        /\ \A i \in 1..(Len(order) - 1) : Tail(order)[i] = order[i + 1]
    BY <1>1, <2>1
  <2>3. \A i, j \in DOMAIN Tail(order) : Tail(order)[i] = Tail(order)[j] => i = j
    <3> SUFFICES ASSUME NEW i \in 1..(Len(order) - 1), NEW j \in 1..(Len(order) - 1),
                        order[i + 1] = order[j + 1]
                 PROVE  i = j
      BY <2>2
    <3>1. i + 1 \in 1..Len(order) /\ j + 1 \in 1..Len(order)
      BY <1>1
    <3>2. QED
      BY <1>1, <3>1
  <2>4. ASSUME NEW k \in 1..Len(order), k # 1
        PROVE  \E i \in DOMAIN Tail(order) : Tail(order)[i] = order[k]
    <3>1. k - 1 \in 1..(Len(order) - 1) /\ (k - 1) + 1 = k
      BY <1>1, <2>4
    <3>2. QED
      BY <2>2, <3>1
  <2>5. Tail(order) # order
    <3> SUFFICES ASSUME Tail(order) = order PROVE FALSE
      OBVIOUS
    <3>1. Len(order) = Len(order) - 1
      BY <2>2, Zenon
    <3>2. \A n \in Nat : n # n - 1
      OBVIOUS
    <3>3. QED
      BY <1>1, <3>1, <3>2, Zenon
  <2>6. Tail(order) \in Seq(Ips) /\ Len(Tail(order)) < MaxTrackedIps
    BY <1>1, <2>2, LimiterBounds
  <2>7. ASSUME NEW ip \in Tracked, ip # Head(order)
        PROVE  \E i \in DOMAIN Tail(order) : Tail(order)[i] = ip
    <3>1. PICK k \in 1..Len(order) : order[k] = ip
      BY <1>1 DEF Tracked
    <3>2. k # 1
      BY <2>1, <2>7, <3>1
    <3>3. QED
      BY <2>4, <3>1, <3>2
  <2>8. QED
    BY <2>1, <2>3, <2>5, <2>6, <2>7
<1>3. CASE ~(Len(order) >= MaxTrackedIps)
  BY <1>1, <1>3, LimiterBounds DEF AfterEviction, Tracked
<1>4. QED
  BY <1>2, <1>3

LEMMA InsertedOnce ==
    ASSUME LimiterTypeOK, NEW ip \in Ips, order' = Inserted(ip)
    PROVE  /\ LimiterTypes'
           /\ ip \in Tracked'
           /\ \A j \in Tracked : j \in Tracked' \/ (AfterEviction # order /\ j = Head(order))
<1> DEFINE s == AfterEviction
<1>1. /\ s \in Seq(Ips) /\ Len(s) \in Nat /\ Len(s) < MaxTrackedIps /\ DOMAIN s = 1..Len(s)
      /\ \A i, j \in 1..Len(s) : s[i] = s[j] => i = j
      /\ \A j \in Tracked : (\E i \in DOMAIN s : s[i] = j)
                             \/ (AfterEviction # order /\ j = Head(order))
  BY Evicted
<1>2. order' = IF \E i \in DOMAIN s : s[i] = ip THEN s ELSE Append(s, ip)
  BY DEF Inserted
<1> HIDE DEF s
<1>3. CASE \E i \in DOMAIN s : s[i] = ip
  <2>1. order' = s
    BY <1>2, <1>3
  <2>2. LimiterTypes'
    BY <1>1, <2>1, LimiterBounds DEF LimiterTypes
  <2>3. QED
    BY <1>1, <1>3, <2>1, <2>2 DEF Tracked
<1>4. CASE ~\E i \in DOMAIN s : s[i] = ip
  <2>1. /\ order' \in Seq(Ips) /\ Len(order') = Len(s) + 1 /\ DOMAIN order' = 1..(Len(s) + 1)
        /\ order'[Len(s) + 1] = ip /\ \A i \in 1..Len(s) : order'[i] = s[i]
    BY <1>1, <1>2, <1>4
  <2>2. \A i \in 1..(Len(s) + 1) : i \in 1..Len(s) \/ i = Len(s) + 1
    BY <1>1
  <2>3. \A i, j \in DOMAIN order' : order'[i] = order'[j] => i = j
    BY <1>1, <1>4, <2>1, <2>2
  <2>4. ip \in Tracked'
    BY <1>1, <2>1 DEF Tracked
  <2>5. \A i \in 1..Len(s) : s[i] \in Tracked'
    <3>1. \A i \in 1..Len(s) : i \in 1..(Len(s) + 1)
      BY <1>1
    <3>2. QED
      BY <2>1, <3>1 DEF Tracked
  <2>6. Len(order') <= MaxTrackedIps
    BY <1>1, <2>1, LimiterBounds
  <2>7. QED
    BY <1>1, <2>1, <2>3, <2>4, <2>5, <2>6 DEF LimiterTypes
<1>5. QED
  BY <1>3, <1>4

\* A collection takes nothing that counts.
LEMMA Collected ==
    ASSUME LimiterTypeOK, Keeping({k \in DOMAIN order : now < resetTime[order[k]]})
    PROVE  LimiterTypes' /\ \A j \in Tracked : now < resetTime[j] => j \in Tracked'
<1>1. order \in Seq(Ips) /\ Len(order) \in Nat /\ Len(order) <= MaxTrackedIps /\ DOMAIN order = 1..Len(order)
      /\ \A i, j \in 1..Len(order) : order[i] = order[j] => i = j
  BY DEF LimiterTypeOK
<1> DEFINE Places == {k \in DOMAIN order : now < resetTime[order[k]]}
<1>0. PICK n \in 0..Len(order) : \E kept \in [1..n -> DOMAIN order] :
        /\ \A i, j \in 1..n : i < j => kept[i] < kept[j]
        /\ {kept[i] : i \in 1..n} = Places
        /\ order' = [i \in 1..n |-> order[kept[i]]]
  BY DEF Keeping
<1>2. PICK kept \in [1..n -> DOMAIN order] :
        /\ \A i, j \in 1..n : i < j => kept[i] < kept[j]
        /\ {kept[i] : i \in 1..n} = Places
        /\ order' = [i \in 1..n |-> order[kept[i]]]
  BY <1>0
<1>3. n \in Nat /\ n <= Len(order)
      /\ \A i \in 1..n : i \in Int /\ kept[i] \in 1..Len(order) /\ kept[i] \in Int
  BY <1>1, <1>2
<1>4. order' \in Seq(Ips) /\ Len(order') = n /\ DOMAIN order' = 1..n
      /\ \A i \in 1..n : order'[i] = order[kept[i]]
  BY <1>1, <1>2, <1>3
<1>5. ASSUME NEW i \in 1..n, NEW j \in 1..n, order'[i] = order'[j] PROVE i = j
  <2>1. kept[i] = kept[j]
    BY <1>1, <1>3, <1>4, <1>5
  <2>2. ~(i < j) /\ ~(j < i)
    BY <1>2, <1>3, <2>1
  <2>3. QED
    BY <1>3, <2>2
<1>6. LimiterTypes'
  BY <1>1, <1>2, <1>3, <1>4, <1>5, LimiterBounds DEF LimiterTypes
<1>7. ASSUME NEW j \in Tracked, now < resetTime[j] PROVE j \in Tracked'
  <2>1. PICK k \in DOMAIN order : order[k] = j
    BY DEF Tracked
  <2>2. PICK i \in 1..n : kept[i] = k
    BY <1>2, <1>7, <2>1
  <2>3. QED
    BY <1>4, <2>1, <2>2 DEF Tracked
<1>8. QED
  BY <1>6, <1>7

\* Where a bucket may be opened for ip and none of its own was lost, the last
\* one is over, and what it let through is within the quota.
LEMMA FreshIsRested ==
    ASSUME LimiterInv, collecting, NEW ip \in Ips, ip \notin forgotten, ~BucketOpen(ip)
    PROVE  /\ recent[ip][0] = 0
           /\ \A a \in Ages : recent[ip][a] <= MaxRequests
<1>1. now \in Nat /\ resetTime[ip] \in Nat /\ count[ip] \in Nat /\ count[ip] <= MaxRequests
      /\ recent[ip] \in [Ages -> 0..HistoryCap]
  BY LimiterBounds DEF LimiterInv, LimiterTypeOK
<1>2. ~(now < resetTime[ip])
  BY DEF LimiterInv, OpenIsTracked, BucketOpen
<1>3. recent[ip][0] = 0
  BY <1>1, <1>2, LimiterBounds DEF LimiterInv, QuietAfterEnd
<1>4. ASSUME NEW a \in Ages PROVE recent[ip][a] <= MaxRequests
  <2>1. a \in Int /\ a <= WindowTicks - 1 /\ recent[ip][a] \in Int
    BY <1>1, LimiterBounds
  <2>2. a <= Since(ip)
    BY <1>1, <1>2, <2>1, LimiterBounds DEF Since
  <2>3. recent[ip][a] <= count[ip]
    BY <2>2 DEF LimiterInv, CountIsEnough
  <2>4. QED
    BY <1>1, <2>1, <2>3, LimiterBounds
<1>5. QED
  BY <1>3, <1>4

\* What one more request makes of the history.
LEMMA Granted ==
    ASSUME LimiterInv, NEW ip \in Ips, Grant(ip)
    PROVE  /\ recent' \in [Ips -> [Ages -> 0..HistoryCap]]
           /\ \A j \in Ips : j # ip => recent'[j] = recent[j]
           /\ \A a \in Ages : /\ recent[ip][a] \in Nat /\ recent'[ip][a] \in Nat
                              /\ recent'[ip][a] <= recent[ip][a] + 1
                              /\ \/ recent'[ip][a] = recent[ip][a] + 1
                                 \/ recent'[ip][a] >= HistoryCap
<1>1. recent \in [Ips -> [Ages -> 0..HistoryCap]]
  BY DEF LimiterInv, LimiterTypeOK
<1> DEFINE h == [a \in Ages |-> IF recent[ip][a] < HistoryCap THEN recent[ip][a] + 1 ELSE recent[ip][a]]
<1>2. recent' = [recent EXCEPT ![ip] = h]
  BY DEF Grant
<1>3. \A a \in Ages : recent[ip][a] \in 0..HistoryCap
  BY <1>1
<1>4. h \in [Ages -> 0..HistoryCap]
  BY <1>3, LimiterBounds
<1>5. recent'[ip] = h /\ \A j \in Ips : j # ip => recent'[j] = recent[j]
  BY <1>1, <1>2
<1>6. recent' \in [Ips -> [Ages -> 0..HistoryCap]]
  BY <1>1, <1>2, <1>4
<1>7. \A a \in Ages : /\ recent[ip][a] \in Nat /\ recent'[ip][a] \in Nat
                      /\ recent'[ip][a] <= recent[ip][a] + 1
                      /\ \/ recent'[ip][a] = recent[ip][a] + 1
                         \/ recent'[ip][a] >= HistoryCap
  <2> SUFFICES ASSUME NEW a \in Ages
               PROVE  /\ recent[ip][a] \in Nat /\ recent'[ip][a] \in Nat
                      /\ recent'[ip][a] <= recent[ip][a] + 1
                      /\ \/ recent'[ip][a] = recent[ip][a] + 1
                         \/ recent'[ip][a] >= HistoryCap
    OBVIOUS
  <2>1. recent'[ip][a] = IF recent[ip][a] < HistoryCap THEN recent[ip][a] + 1 ELSE recent[ip][a]
    BY <1>5
  <2>2. QED
    BY <1>3, <2>1, LimiterBounds
<1>8. QED
  BY <1>5, <1>6, <1>7

LEMMA AllowFreshKeeps ==
    ASSUME LimiterInv, NEW ip \in Ips, AllowFresh(ip)
    PROVE  LimiterInv'
<1> USE DEF AllowFresh
<1>1. now \in Nat /\ resetTime \in [Ips -> Nat] /\ count \in [Ips -> Nat] /\ forgotten \subseteq Ips
      /\ recent \in [Ips -> [Ages -> 0..HistoryCap]] /\ collecting /\ now \in 0..MaxTime
  BY LimiterBounds DEF LimiterInv, LimiterTypeOK
<1>2. /\ now' = now /\ collecting' = collecting
      /\ count'[ip] = 1 /\ resetTime'[ip] = now + WindowTicks
      /\ \A j \in Ips : j # ip => count'[j] = count[j] /\ resetTime'[j] = resetTime[j]
  BY <1>1
<1>3. /\ LimiterTypes' /\ ip \in Tracked'
      /\ \A j \in Tracked : j \in Tracked' \/ (AfterEviction # order /\ j = Head(order))
  <2>1. LimiterTypeOK
    BY DEF LimiterInv
  <2>2. QED
    BY <2>1, InsertedOnce
<1>4. /\ recent' \in [Ips -> [Ages -> 0..HistoryCap]]
      /\ \A j \in Ips : j # ip => recent'[j] = recent[j]
      /\ \A a \in Ages : /\ recent[ip][a] \in Nat /\ recent'[ip][a] \in Nat
                         /\ recent'[ip][a] <= recent[ip][a] + 1
                         /\ \/ recent'[ip][a] = recent[ip][a] + 1
                            \/ recent'[ip][a] >= HistoryCap
  BY Granted
<1>5. forgotten' \subseteq Ips /\ forgotten \subseteq forgotten'
  <2>1. Tracked \subseteq Ips
    BY DEF LimiterInv, LimiterTypeOK, Tracked
  <2>2. QED
    BY <1>1, <2>1 DEF Forget
<1>6. LimiterTypeOK'
  <2>1. count' \in [Ips -> Nat] /\ resetTime' \in [Ips -> Nat]
    BY <1>1, LimiterBounds
  <2>2. collecting' \in BOOLEAN /\ now' \in 0..MaxTime
    BY <1>1, <1>2
  <2>3. QED
    BY <1>3, <1>4, <1>5, <2>1, <2>2 DEF LimiterTypes, LimiterTypeOK
<1>7. ASSUME NEW j \in Ips PROVE count'[j] <= MaxRequests /\ resetTime'[j] <= now' + WindowTicks
  BY <1>1, <1>2, LimiterBounds DEF LimiterInv
<1>8. CountIsEnough'
  <2> SUFFICES ASSUME NEW j \in Ips, j \notin forgotten', NEW a \in Ages
               PROVE  /\ a <= Since(j)' => recent'[j][a] <= count'[j]
                      /\ recent'[j][a] <= MaxRequests + count'[j]
    BY DEF CountIsEnough
  <2>1. CASE j = ip
    <3>1. recent[ip][0] = 0 /\ recent[ip][a] <= MaxRequests
      BY <1>1, <1>5, <2>1, FreshIsRested
    <3>2. Since(ip)' = 0 /\ a \in Nat
      BY <1>1, <1>2, LimiterBounds DEF Since
    <3>3. a <= Since(ip)' => recent'[ip][a] <= 1
      BY <1>4, <3>1, <3>2
    <3>4. recent'[ip][a] <= MaxRequests + 1
      BY <1>4, <3>1, LimiterBounds
    <3>5. QED
      BY <1>2, <2>1, <3>3, <3>4
  <2>2. CASE j # ip
    <3>1. Since(j)' = Since(j) /\ recent'[j] = recent[j] /\ count'[j] = count[j] /\ j \notin forgotten
      BY <1>2, <1>4, <1>5, <2>2 DEF Since
    <3>2. QED
      BY <3>1 DEF LimiterInv, CountIsEnough
  <2>3. QED
    BY <2>1, <2>2
<1>9. CountIsSpent'
  <2> SUFFICES ASSUME NEW j \in Ips, NEW a \in Ages, a >= Since(j)'
               PROVE  count'[j] <= recent'[j][a]
    BY DEF CountIsSpent
  <2>1. CASE j = ip
    <3>1. /\ recent[ip][a] \in Nat /\ recent'[ip][a] \in Nat
          /\ recent'[ip][a] = recent[ip][a] + 1 \/ recent'[ip][a] >= HistoryCap
      BY <1>4
    <3>2. 1 <= recent'[ip][a]
      BY <3>1, LimiterBounds
    <3>3. QED
      BY <1>2, <2>1, <3>2
  <2>2. CASE j # ip
    <3>1. Since(j)' = Since(j) /\ recent'[j] = recent[j] /\ count'[j] = count[j]
      BY <1>2, <1>4, <2>2 DEF Since
    <3>2. QED
      BY <3>1 DEF LimiterInv, CountIsSpent
  <2>3. QED
    BY <2>1, <2>2
<1>10. QuietAfterEnd'
  <2> SUFFICES ASSUME NEW j \in Ips, NEW a \in Ages, a <= now' - resetTime'[j]
               PROVE  recent'[j][a] = 0
    BY DEF QuietAfterEnd
  <2>1. j # ip
    <3>1. a \in Nat
      BY LimiterBounds
    <3>2. QED
      BY <1>1, <1>2, <3>1, LimiterBounds
  <2>2. QED
    BY <1>2, <1>4, <2>1 DEF LimiterInv, QuietAfterEnd
<1>11. OpenIsTracked'
  <2> SUFFICES ASSUME NEW j \in Ips, j \notin forgotten', now' < resetTime'[j]
               PROVE  j \in Tracked'
    BY DEF OpenIsTracked
  <2>1. CASE j = ip
    BY <1>3, <2>1
  <2>2. CASE j # ip
    <3>1. now < resetTime[j] /\ j \notin forgotten
      BY <1>2, <1>5, <2>2
    <3>2. BucketOpen(j)
      BY <1>1, <3>1 DEF LimiterInv, OpenIsTracked, BucketOpen
    <3>3. ~(AfterEviction # order /\ j = Head(order))
      BY <3>2 DEF Forget, BucketOpen
    <3>4. QED
      BY <1>3, <3>2, <3>3 DEF BucketOpen
  <2>3. QED
    BY <2>1, <2>2
<1>12. QED
  BY <1>6, <1>7, <1>8, <1>9, <1>10, <1>11 DEF LimiterInv

LEMMA AllowCountedKeeps ==
    ASSUME LimiterInv, NEW ip \in Ips, AllowCounted(ip)
    PROVE  LimiterInv'
<1> USE DEF AllowCounted
<1>1. now \in Nat /\ resetTime \in [Ips -> Nat] /\ count \in [Ips -> Nat]
      /\ count[ip] \in Nat /\ count[ip] < MaxRequests
      /\ now < resetTime[ip] /\ recent \in [Ips -> [Ages -> 0..HistoryCap]]
  BY LimiterBounds DEF LimiterInv, LimiterTypeOK, BucketOpen
<1>2. /\ now' = now /\ order' = order /\ resetTime' = resetTime
      /\ collecting' = collecting /\ forgotten' = forgotten
      /\ count'[ip] = count[ip] + 1 /\ \A j \in Ips : j # ip => count'[j] = count[j]
      /\ \A j \in Ips : Since(j)' = Since(j)
  BY <1>1 DEF Since
<1>3. /\ recent' \in [Ips -> [Ages -> 0..HistoryCap]]
      /\ \A j \in Ips : j # ip => recent'[j] = recent[j]
      /\ \A a \in Ages : /\ recent[ip][a] \in Nat /\ recent'[ip][a] \in Nat
                         /\ recent'[ip][a] <= recent[ip][a] + 1
                         /\ \/ recent'[ip][a] = recent[ip][a] + 1
                            \/ recent'[ip][a] >= HistoryCap
  BY Granted
<1>4. LimiterTypeOK'
  <2>1. count' \in [Ips -> Nat]
    BY <1>1
  <2>2. QED
    BY <1>2, <1>3, <2>1 DEF LimiterInv, LimiterTypeOK
<1>5. ASSUME NEW j \in Ips PROVE count'[j] <= MaxRequests /\ resetTime'[j] <= now' + WindowTicks
  BY <1>1, <1>2, LimiterBounds DEF LimiterInv
<1>6. CountIsEnough'
  <2> SUFFICES ASSUME NEW j \in Ips, j \notin forgotten, NEW a \in Ages
               PROVE  /\ a <= Since(j) => recent'[j][a] <= count'[j]
                      /\ recent'[j][a] <= MaxRequests + count'[j]
    BY <1>2 DEF CountIsEnough
  <2>1. /\ a <= Since(j) => recent[j][a] <= count[j]
        /\ recent[j][a] <= MaxRequests + count[j]
    BY DEF LimiterInv, CountIsEnough
  <2>2. CASE j = ip
    BY <1>1, <1>2, <1>3, <2>1, <2>2, LimiterBounds
  <2>3. CASE j # ip
    BY <1>2, <1>3, <2>1, <2>3
  <2>4. QED
    BY <2>2, <2>3
<1>7. CountIsSpent'
  <2> SUFFICES ASSUME NEW j \in Ips, NEW a \in Ages, a >= Since(j)
               PROVE  count'[j] <= recent'[j][a]
    BY <1>2 DEF CountIsSpent
  <2>1. count[j] <= recent[j][a]
    BY DEF LimiterInv, CountIsSpent
  <2>2. CASE j = ip
    <3>1. /\ recent[ip][a] \in Nat /\ recent'[ip][a] \in Nat
          /\ recent'[ip][a] = recent[ip][a] + 1 \/ recent'[ip][a] >= HistoryCap
      BY <1>3
    <3>2. count[ip] <= recent[ip][a] /\ count'[ip] = count[ip] + 1
      BY <1>2, <2>1, <2>2
    <3>3. count[ip] + 1 <= HistoryCap
      BY <1>1, LimiterBounds
    <3>4. \A m, n, h \in Nat : m <= n /\ m + 1 <= HistoryCap /\ (h = n + 1 \/ h >= HistoryCap) => m + 1 <= h
      BY LimiterBounds
    <3>5. count'[ip] <= recent'[ip][a]
      BY <1>1, <3>1, <3>2, <3>3, <3>4, Zenon
    <3>6. QED
      BY <2>2, <3>5
  <2>3. CASE j # ip
    BY <1>2, <1>3, <2>1, <2>3
  <2>4. QED
    BY <2>2, <2>3
<1>8. QuietAfterEnd'
  <2> SUFFICES ASSUME NEW j \in Ips, NEW a \in Ages, a <= now - resetTime[j]
               PROVE  recent'[j][a] = 0
    BY <1>2 DEF QuietAfterEnd
  <2>1. j # ip
    BY <1>1, LimiterBounds
  <2>2. QED
    BY <1>3, <2>1 DEF LimiterInv, QuietAfterEnd
<1>9. OpenIsTracked'
  BY <1>2 DEF LimiterInv, OpenIsTracked, Tracked
<1>10. QED
  BY <1>4, <1>5, <1>6, <1>7, <1>8, <1>9 DEF LimiterInv

LEMMA TickKeeps ==
    ASSUME LimiterInv, Tick
    PROVE  LimiterInv'
<1> USE DEF Tick
<1>1. now \in Nat /\ now \in 0..MaxTime /\ resetTime \in [Ips -> Nat] /\ count \in [Ips -> Nat]
      /\ recent \in [Ips -> [Ages -> 0..HistoryCap]]
  BY LimiterBounds DEF LimiterInv, LimiterTypeOK
<1>2. /\ now' = now + 1 /\ order' = order /\ resetTime' = resetTime /\ count' = count
      /\ collecting' = collecting /\ forgotten' = forgotten
  OBVIOUS
<1>3. \A ip \in Ips : Since(ip)' = Since(ip) + 1 /\ Since(ip) \in Nat
  BY <1>1, <1>2, LimiterBounds DEF Since, LimiterInv
<1>4. ASSUME NEW ip \in Ips, NEW a \in Ages
      PROVE  /\ a \in Nat /\ recent'[ip][a] \in 0..HistoryCap
             /\ a = 0 => recent'[ip][a] = 0
             /\ a # 0 => a - 1 \in Ages /\ recent'[ip][a] = recent[ip][a - 1]
  <2>1. a \in Nat /\ (a # 0 => a - 1 \in Ages)
    BY LimiterBounds
  <2>2. recent'[ip][a] = IF a = 0 THEN 0 ELSE recent[ip][a - 1]
    OBVIOUS
  <2>3. QED
    BY <1>1, <2>1, <2>2, LimiterBounds
<1>5. LimiterTypeOK'
  <2>1. recent' \in [Ips -> [Ages -> 0..HistoryCap]]
    <3> DEFINE h(ip) == [a \in Ages |-> IF a = 0 THEN 0 ELSE recent[ip][a - 1]]
    <3>1. recent' = [ip \in Ips |-> h(ip)]
      OBVIOUS
    <3>2. \A ip \in Ips : recent'[ip] = h(ip)
      BY <3>1
    <3>3. ASSUME NEW ip \in Ips PROVE h(ip) \in [Ages -> 0..HistoryCap]
      <4>1. \A a \in Ages : h(ip)[a] \in 0..HistoryCap
        BY <1>4, <3>2
      <4>2. QED
        BY <4>1
    <3>4. QED
      BY <3>1, <3>3
  <2>2. now' \in 0..MaxTime
    BY <1>1, LimiterBounds
  <2>3. QED
    BY <1>2, <2>1, <2>2 DEF LimiterInv, LimiterTypeOK
<1>6. ASSUME NEW ip \in Ips PROVE count'[ip] <= MaxRequests /\ resetTime'[ip] <= now' + WindowTicks
  BY <1>1, <1>2, LimiterBounds DEF LimiterInv
<1>7. CountIsEnough'
  <2> SUFFICES ASSUME NEW ip \in Ips, ip \notin forgotten, NEW a \in Ages
               PROVE  /\ a <= Since(ip)' => recent'[ip][a] <= count[ip]
                      /\ recent'[ip][a] <= MaxRequests + count[ip]
    BY <1>2 DEF CountIsEnough
  <2>1. CASE a = 0
    BY <1>1, <1>4, <2>1, LimiterBounds
  <2>2. CASE a # 0
    <3>1. a - 1 \in Ages /\ recent'[ip][a] = recent[ip][a - 1] /\ a \in Nat
      BY <1>4, <2>2
    <3>2. /\ a - 1 <= Since(ip) => recent[ip][a - 1] <= count[ip]
          /\ recent[ip][a - 1] <= MaxRequests + count[ip]
      BY <3>1 DEF LimiterInv, CountIsEnough
    <3>3. a <= Since(ip)' => a - 1 <= Since(ip)
      BY <1>3, <3>1
    <3>4. QED
      BY <3>1, <3>2, <3>3
  <2>3. QED
    BY <2>1, <2>2
<1>8. CountIsSpent'
  <2> SUFFICES ASSUME NEW ip \in Ips, NEW a \in Ages, a >= Since(ip)'
               PROVE  count[ip] <= recent'[ip][a]
    BY <1>2 DEF CountIsSpent
  <2>1. a # 0 /\ a - 1 >= Since(ip)
    BY <1>3, <1>4
  <2>2. QED
    BY <1>4, <2>1 DEF LimiterInv, CountIsSpent
<1>9. QuietAfterEnd'
  <2> SUFFICES ASSUME NEW ip \in Ips, NEW a \in Ages, a <= now' - resetTime'[ip]
               PROVE  recent'[ip][a] = 0
    BY DEF QuietAfterEnd
  <2>1. CASE a = 0
    BY <1>4, <2>1
  <2>2. CASE a # 0
    <3>1. a - 1 \in Ages /\ a - 1 <= now - resetTime[ip]
      BY <1>1, <1>2, <1>4, <2>2
    <3>2. recent[ip][a - 1] = 0
      BY <3>1 DEF LimiterInv, QuietAfterEnd
    <3>3. QED
      BY <1>4, <2>2, <3>2
  <2>3. QED
    BY <2>1, <2>2
<1>10. OpenIsTracked'
  <2> SUFFICES ASSUME NEW ip \in Ips, ip \notin forgotten, collecting, now + 1 < resetTime[ip]
               PROVE  ip \in Tracked
    BY <1>2 DEF OpenIsTracked, Tracked
  <2>1. now < resetTime[ip]
    BY <1>1
  <2>2. QED
    BY <2>1 DEF LimiterInv, OpenIsTracked
<1>11. QED
  BY <1>5, <1>6, <1>7, <1>8, <1>9, <1>10 DEF LimiterInv

\* A step of the map alone: it stays well formed and keeps what counts.
LEMMA MapStepKeeps ==
    ASSUME LimiterInv, LimiterTypes', collecting' \in BOOLEAN, collecting' => collecting,
           UNCHANGED <<now, count, resetTime, recent, forgotten>>,
           collecting' => \A j \in Tracked : now < resetTime[j] => j \in Tracked'
    PROVE  LimiterInv'
<1>1. LimiterTypeOK'
  BY DEF LimiterInv, LimiterTypeOK, LimiterTypes
<1>2. CountIsEnough' /\ CountIsSpent' /\ QuietAfterEnd'
  BY DEF LimiterInv, CountIsEnough, CountIsSpent, QuietAfterEnd, Since
<1>3. OpenIsTracked'
  BY DEF LimiterInv, OpenIsTracked
<1>4. QED
  BY <1>1, <1>2, <1>3 DEF LimiterInv

LEMMA LimiterStep == LimiterInv /\ [LimiterNext]_limiterVars => LimiterInv'
<1> SUFFICES ASSUME LimiterInv, [LimiterNext]_limiterVars PROVE LimiterInv'
  OBVIOUS
<1>1. ASSUME NEW ip \in Ips, AllowFresh(ip) PROVE LimiterInv'
  BY <1>1, AllowFreshKeeps
<1>2. ASSUME NEW ip \in Ips, AllowCounted(ip) PROVE LimiterInv'
  BY <1>2, AllowCountedKeeps
<1>3. CASE GarbageCollect
  <2>1. LimiterTypeOK
    BY DEF LimiterInv
  <2>2. LimiterTypes' /\ \A j \in Tracked : now < resetTime[j] => j \in Tracked'
    BY <1>3, <2>1, Collected DEF GarbageCollect
  <2>3. collecting' = collecting /\ collecting \in BOOLEAN
    BY <1>3, <2>1 DEF GarbageCollect, LimiterTypeOK
  <2>4. QED
    BY <1>3, <2>2, <2>3, MapStepKeeps DEF GarbageCollect
<1>4. CASE Destroy
  <2>1. order' = <<>> /\ collecting' = FALSE
    BY <1>4 DEF Destroy
  <2>2. LimiterTypes'
    BY <2>1, LimiterBounds DEF LimiterTypes
  <2>3. QED
    BY <1>4, <2>1, <2>2, MapStepKeeps DEF Destroy
<1>5. CASE Tick
  BY <1>5, TickKeeps
<1>6. CASE UNCHANGED limiterVars
  <2>1. LimiterTypes' /\ collecting \in BOOLEAN /\ collecting' = collecting /\ Tracked' = Tracked
    BY <1>6 DEF LimiterInv, LimiterTypeOK, LimiterTypes, Tracked, limiterVars
  <2>2. QED
    BY <1>6, <2>1, MapStepKeeps DEF limiterVars
<1>7. QED
  BY <1>1, <1>2, <1>3, <1>4, <1>5, <1>6 DEF LimiterNext

\* What a bucket counts is what the history counts: as much at least since it
\* was opened, and no more.
THEOREM LimiterInvariant == LimiterSpec => []LimiterInv
BY LimiterStarts, LimiterStep, PTL DEF LimiterSpec

\* Types; and the map holds each address once and maxTrackedIps of them at most,
\* whatever is inserted, evicted and collected.
THEOREM LimiterTypeCorrect == LimiterSpec => []LimiterTypeOK
<1>1. LimiterInv => LimiterTypeOK
  BY DEF LimiterInv
<1>2. QED
  BY <1>1, LimiterInvariant, PTL

\* No client that kept its buckets gets more than twice its quota through in
\* a span as long as the window, for any quota, window and bound on the map.
THEOREM QuotaIsKept == LimiterSpec => []AtMostTwiceTheQuota
<1>1. LimiterInv => AtMostTwiceTheQuota
  <2> SUFFICES ASSUME LimiterInv, NEW ip \in Ips, ip \notin forgotten
               PROVE  recent[ip][WindowTicks - 1] <= 2 * MaxRequests
    BY DEF AtMostTwiceTheQuota, GrantedInWindow
  <2>1. count[ip] \in Nat /\ count[ip] <= MaxRequests /\ recent[ip][WindowTicks - 1] \in Nat
    BY LimiterBounds DEF LimiterInv, LimiterTypeOK
  <2>2. recent[ip][WindowTicks - 1] <= MaxRequests + count[ip]
    BY LimiterBounds DEF LimiterInv, CountIsEnough
  <2>3. QED
    BY <2>1, <2>2, LimiterBounds
<1>2. QED
  BY <1>1, LimiterInvariant, PTL

\* A client that allow() refuses used up its quota within the last window.
THEOREM RefusalsAreJustified == LimiterSpec => []RefusalIsJustified
<1>1. LimiterInv => RefusalIsJustified
  <2> SUFFICES ASSUME LimiterInv, NEW ip \in Ips, now < resetTime[ip], count[ip] >= MaxRequests
               PROVE  recent[ip][WindowTicks - 1] >= MaxRequests
    BY DEF RefusalIsJustified, GrantedInWindow, BucketOpen
  <2>1. count[ip] \in Nat /\ recent[ip][WindowTicks - 1] \in Nat
        /\ now \in Nat /\ resetTime[ip] \in Nat
    BY LimiterBounds DEF LimiterInv, LimiterTypeOK
  <2>2. WindowTicks - 1 >= Since(ip)
    BY <2>1, LimiterBounds DEF Since
  <2>3. count[ip] <= recent[ip][WindowTicks - 1]
    BY <2>2, LimiterBounds DEF LimiterInv, CountIsSpent
  <2>4. QED
    BY <2>1, <2>3, LimiterBounds
<1>2. QED
  BY <1>1, LimiterInvariant, PTL
=============================================================================
