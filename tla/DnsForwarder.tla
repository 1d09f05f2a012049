---------------------------- MODULE DnsForwarder ----------------------------
(***************************************************************************)
(* The queries DnsHandler forwards to the upstream resolver: for each one  *)
(* a socket of its own and a timer of three seconds, of which the first    *)
(* event to arrive (an answer, a socket error, the timer) decides.  UDP    *)
(* queries (forwardUdpQuery) are counted in pendingUpstreamQueries under a *)
(* random tracking number; DNS-over-HTTPS queries (resolveQueryAsync) are  *)
(* not.  stop() may come at any point between these events.                *)
(***************************************************************************)
EXTENDS Naturals, FiniteSets

CONSTANTS
    UdpQueries,      \* queries that arrive as UDP datagrams
    DohQueries,      \* queries that arrive as HTTPS requests
    TrackingIds,     \* the numbers randomBytes(4) may give
    MaxForwards,     \* maxConcurrentUdpForwards
    Nobody           \* no entry under a tracking number

Queries == UdpQueries \cup DohQueries

\* What an upstream answer turns out to be.  A garbled one makes the parser
\* throw out of the event handler, which ends in shutdown().
Verdicts == {"good", "blocked", "foreignId", "badSignature", "badCase", "garbled"}

ASSUME QueriesAssumption == UdpQueries \cap DohQueries = {}
ASSUME NobodyAssumption == Nobody \notin Queries
ASSUME TrackingIdsAssumption == TrackingIds # {}
ASSUME MaxForwardsAssumption == MaxForwards \in Nat \ {0}

VARIABLES
    server,          \* whether its listeners are up, or the UDP one down already
    fwdSocket,       \* the upstream socket of each query
    timer,           \* its timeoutId
    track,           \* its trackingId
    pending,         \* pendingUpstreamQueries: tracking number to query
    replies,         \* how often each client was answered
    collided,        \* history: a tracking number in use was drawn again
    faulted          \* an exception escaped an event handler

vars == <<server, fwdSocket, timer, track, pending, replies, collided, faulted>>

Up == server = "up"

\* The listener a query comes by: stop() closes the UDP one first.
Listening(q) == Up \/ (q \in DohQueries /\ server = "stopping")

PendingSize == Cardinality({t \in TrackingIds : pending[t] # Nobody})

\* A reply reaches the client through the listener it came by, if that is up.
Reply(q) == replies' = IF Listening(q) THEN [replies EXCEPT ![q] = @ + 1] ELSE replies

\* pendingUpstreamQueries.delete(trackingId).
Forgotten(q) ==
    IF q \in UdpQueries THEN [pending EXCEPT ![track[q]] = Nobody] ELSE pending

CloseSocket(q) == fwdSocket' = [fwdSocket EXCEPT ![q] = "closed"]
ClearTimer(q) == timer' = [timer EXCEPT ![q] = "off"]

-----------------------------------------------------------------------------

Init ==
    /\ server = "up"
    /\ fwdSocket = [q \in Queries |-> "none"]
    /\ timer = [q \in Queries |-> "off"]
    /\ track \in [Queries -> {CHOOSE t \in TrackingIds : TRUE}]
    /\ pending = [t \in TrackingIds |-> Nobody]
    /\ replies = [q \in Queries |-> 0]
    /\ collided = FALSE
    /\ faulted = FALSE

\* The query needs no upstream: it is answered from configuration or cache,
\* refused, or dropped (rate limit, malformed query, untrusted address).
SettleLocally(q) ==
    /\ Listening(q)
    /\ fwdSocket[q] = "none"
    /\ Reply(q) \/ UNCHANGED replies
    /\ CloseSocket(q)
    /\ UNCHANGED <<server, timer, track, pending, collided, faulted>>

\* forwardUdpQuery: the limit is reached and the query dropped.
DropAtLimit(q) ==
    /\ Up
    /\ q \in UdpQueries
    /\ fwdSocket[q] = "none"
    /\ PendingSize >= MaxForwards
    /\ CloseSocket(q)
    /\ UNCHANGED <<server, timer, track, pending, replies, collided, faulted>>

\* forwardUdpQuery: a socket, a timer and an entry; Map.set replaces the
\* entry of another query that drew the same number.
ForwardUdpPastLimit(q, t) ==
    /\ Up
    /\ q \in UdpQueries
    /\ fwdSocket[q] = "none"
    /\ PendingSize <= MaxForwards
    /\ fwdSocket' = [fwdSocket EXCEPT ![q] = "open"]
    /\ timer' = [timer EXCEPT ![q] = "armed"]
    /\ track' = [track EXCEPT ![q] = t]
    /\ pending' = [pending EXCEPT ![t] = q]
    /\ collided' = (collided \/ pending[t] # Nobody)
    /\ UNCHANGED <<server, replies, faulted>>

ForwardUdp(q, t) ==
    /\ Up
    /\ q \in UdpQueries
    /\ fwdSocket[q] = "none"
    /\ PendingSize < MaxForwards
    /\ fwdSocket' = [fwdSocket EXCEPT ![q] = "open"]
    /\ timer' = [timer EXCEPT ![q] = "armed"]
    /\ track' = [track EXCEPT ![q] = t]
    /\ pending' = [pending EXCEPT ![t] = q]
    /\ collided' = (collided \/ pending[t] # Nobody)
    /\ UNCHANGED <<server, replies, faulted>>

\* resolveQueryAsync: a socket and a timer, and no limit.
ForwardDohUntimed(q) ==
    /\ Listening(q)
    /\ q \in DohQueries
    /\ fwdSocket[q] = "none"
    /\ fwdSocket' = [fwdSocket EXCEPT ![q] = "open"]
    /\ UNCHANGED <<server, timer, track, pending, replies, collided, faulted>>

ForwardDoh(q) ==
    /\ Listening(q)
    /\ q \in DohQueries
    /\ fwdSocket[q] = "none"
    /\ fwdSocket' = [fwdSocket EXCEPT ![q] = "open"]
    /\ timer' = [timer EXCEPT ![q] = "armed"]
    /\ UNCHANGED <<server, track, pending, replies, collided, faulted>>

\* The client's answer to each verdict: over UDP an answer that cannot be
\* trusted is dropped in silence, over HTTPS it becomes SERVFAIL, and HTTPS
\* answers are not compared with the number of the query.
Delivers(q, verdict) ==
    \/ verdict \in {"good", "blocked"}
    \/ q \in DohQueries /\ verdict # "garbled"

\* fwdSocket "message".
AnswerKeepingTimer(q, verdict) ==
    /\ fwdSocket[q] = "open"
    /\ pending' = Forgotten(q)
    /\ CloseSocket(q)
    /\ IF Delivers(q, verdict) THEN Reply(q) ELSE UNCHANGED replies
    /\ faulted' = (faulted \/ verdict = "garbled")
    /\ UNCHANGED <<server, timer, track, collided>>

Answer(q, verdict) ==
    /\ fwdSocket[q] = "open"
    /\ pending' = Forgotten(q)
    /\ ClearTimer(q)
    /\ CloseSocket(q)
    /\ IF Delivers(q, verdict) THEN Reply(q) ELSE UNCHANGED replies
    /\ faulted' = (faulted \/ verdict = "garbled")
    /\ UNCHANGED <<server, track, collided>>

\* fwdSocket "error": a UDP client hears nothing, an HTTPS client SERVFAIL.
SocketErrorKeepingEntry(q) ==
    /\ fwdSocket[q] = "open"
    /\ ClearTimer(q)
    /\ CloseSocket(q)
    /\ IF q \in DohQueries THEN Reply(q) ELSE UNCHANGED replies
    /\ UNCHANGED <<server, track, pending, collided, faulted>>

SocketError(q) ==
    /\ fwdSocket[q] = "open"
    /\ pending' = Forgotten(q)
    /\ ClearTimer(q)
    /\ CloseSocket(q)
    /\ IF q \in DohQueries THEN Reply(q) ELSE UNCHANGED replies
    /\ UNCHANGED <<server, track, collided, faulted>>

\* The timer fires: the client gets SERVFAIL.
Timeout(q) ==
    /\ timer[q] = "armed"
    /\ ClearTimer(q)
    /\ pending' = Forgotten(q)
    /\ CloseSocket(q)
    /\ Reply(q)
    /\ UNCHANGED <<server, track, collided, faulted>>

\* stop(): the UDP listener closes, the timers of the entries are cleared and
\* the entries forgotten; the upstream sockets are left as they are.
Stop ==
    /\ Up
    /\ server' = "stopping"
    /\ timer' = [q \in Queries |->
                   IF \E t \in TrackingIds : pending[t] = q THEN "off" ELSE timer[q]]
    /\ pending' = [t \in TrackingIds |-> Nobody]
    /\ UNCHANGED <<fwdSocket, track, replies, collided, faulted>>

\* stop(): once the TCP and TLS listeners have closed, the HTTPS one does,
\* and its connections with it.
StopDoh ==
    /\ server = "stopping"
    /\ server' = "down"
    /\ UNCHANGED <<fwdSocket, timer, track, pending, replies, collided, faulted>>

Next ==
    \/ \E q \in Queries :
          \/ SettleLocally(q)
          \/ DropAtLimit(q)
          \/ \E t \in TrackingIds : ForwardUdp(q, t)
          \/ ForwardDoh(q)
          \/ \E verdict \in Verdicts : Answer(q, verdict)
          \/ SocketError(q)
          \/ Timeout(q)
    \/ Stop
    \/ StopDoh

\* Timers fire and an exception that escapes leads to shutdown; the upstream
\* resolver is not obliged to answer.
Spec ==
    /\ Init /\ [][Next]_vars
    /\ \A q \in Queries : WF_vars(Timeout(q))
    /\ WF_vars(faulted /\ Stop)

-----------------------------------------------------------------------------

TypeOK ==
    /\ server \in {"up", "stopping", "down"}
    /\ fwdSocket \in [Queries -> {"none", "open", "closed"}]
    /\ timer \in [Queries -> {"off", "armed"}]
    /\ track \in [Queries -> TrackingIds]
    /\ pending \in [TrackingIds -> UdpQueries \cup {Nobody}]
    /\ replies \in [Queries -> Nat]
    /\ collided \in BOOLEAN
    /\ faulted \in BOOLEAN

\* A client gets one reply at most, whichever of the answer, the error and the
\* timer come, in whatever order, and even if tracking numbers collide.
AtMostOneReply == \A q \in Queries : replies[q] <= 1

OpenUdp == {q \in UdpQueries : fwdSocket[q] = "open"}

\* The limit on pending queries is a limit on upstream sockets.
ForwardsBounded == Up /\ ~collided => Cardinality(OpenUdp) <= MaxForwards

\* Every way in which a forwarded query ends gives its place back, and no
\* query in progress loses its own.
PendingIsExact ==
    Up /\ ~collided => {pending[t] : t \in TrackingIds} \ {Nobody} = OpenUdp

\* An upstream socket has a timer that will close it, even if tracking numbers
\* collide; only those of UDP queries lose it, when the handler is stopped.
OpenHasDeadline ==
    \A q \in Queries :
        fwdSocket[q] = "open" => timer[q] = "armed" \/ (q \in UdpQueries /\ ~Up)

\* cli.ts, the last line of stop() ("Subsystems halted. Sockets closed."):
\* once the handler is stopped, its upstream sockets close.
HaltedSocketsClose ==
    \A q \in Queries : (~Up /\ fwdSocket[q] = "open") ~> fwdSocket[q] = "closed"
=============================================================================
