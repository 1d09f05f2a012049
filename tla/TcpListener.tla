----------------------------- MODULE TcpListener -----------------------------
(***************************************************************************)
(* The TCP and TLS listeners of DnsHandler: a limit on the connections,    *)
(* several queries on one connection, and for each query that is forwarded *)
(* a connection to the upstream resolver.  The handlers of all of them     *)
(* share the client's socket: any of them may end it.                      *)
(***************************************************************************)
EXTENDS Naturals, FiniteSets

CONSTANTS
    TcpConns,       \* connections to the TCP listener
    DotConns,       \* connections to the TLS listener
    Queries,        \* the queries sent on them
    ConnOf,         \* ConnOf[q]: the connection that carries query q
    MaxConns        \* maxTcpConnections

Conns == TcpConns \cup DotConns

ASSUME KindsAssumption == TcpConns \cap DotConns = {}
ASSUME ConnOfAssumption == ConnOf \in [Queries -> Conns]
ASSUME MaxConnsAssumption == MaxConns \in Nat \ {0}

VARIABLES
    server,         \* both listeners up, the TCP one closing, or both down
    sock,           \* the client's socket of each connection
    table,          \* activeTcpConnections
    query,          \* whether each query arrived, and was forwarded
    fwd,            \* the socket to the upstream resolver of each query
    replies,        \* the responses the client got to each query
    atStop,         \* history: the queries that arrived once stop() had begun
    faulted         \* an error or exception found no handler

vars == <<server, sock, table, query, fwd, replies, atStop, faulted>>

\* Not destroyed: "ended" is a socket after end(), on which a write is an
\* error that destroys it.
Usable == {"open", "ended"}

\* The client's socket after a response was written for one query, and the
\* responses the client has then.
Written(s) == IF s = "open" THEN "open" ELSE "closed"

Ended(s) == IF s = "open" THEN "ended" ELSE s

\* A handler of q leaves the client's socket as s; "close" and "error" take a
\* destroyed one out of activeTcpConnections.
Leave(q, s) ==
    /\ sock' = [sock EXCEPT ![ConnOf[q]] = s]
    /\ table' = IF s = "closed" THEN table \ {ConnOf[q]} ELSE table

Answer(q) ==
    replies' = IF sock[ConnOf[q]] = "open" THEN [replies EXCEPT ![q] = @ + 1] ELSE replies

\* destroy(), and with it the close event of a turn later, whose handler takes
\* the sockets out of activeTcpConnections: in between it holds dead ones.
Destroyed(cs) ==
    /\ sock' = [c \in Conns |-> IF c \in cs THEN "closed" ELSE sock[c]]
    /\ table' = table \ cs

-----------------------------------------------------------------------------

Init ==
    /\ server = "up"
    /\ sock = [c \in Conns |-> "none"]
    /\ table = {}
    /\ query = [q \in Queries |-> "new"]
    /\ fwd = [q \in Queries |-> "none"]
    /\ replies = [q \in Queries |-> 0]
    /\ atStop = {}
    /\ faulted = FALSE

\* stop() closes the TLS listener only after the TCP one has closed.
Accepting(c) == server = "up" \/ (server = "stopping" /\ c \in DotConns)

\* A connection within the limit; the rate limiter may destroy it at once.
AdmitPastLimit(c) ==
    /\ Accepting(c) /\ sock[c] = "none"
    /\ Cardinality(table) <= MaxConns
    /\ sock' = [sock EXCEPT ![c] = "open"]
    /\ table' = table \cup {c}
    /\ UNCHANGED <<server, query, fwd, replies, atStop, faulted>>

Admit(c) ==
    /\ Accepting(c) /\ sock[c] = "none"
    /\ Cardinality(table) < MaxConns
    /\ \/ sock' = [sock EXCEPT ![c] = "open"] /\ table' = table \cup {c}
       \/ sock' = [sock EXCEPT ![c] = "closed"] /\ UNCHANGED table
    /\ UNCHANGED <<server, query, fwd, replies, atStop, faulted>>

\* A connection over the limit: kept out of activeTcpConnections, and without
\* a handler for errors, until it was silent for 100 ms.
Surplus(c) ==
    /\ Accepting(c) /\ sock[c] = "none"
    /\ Cardinality(table) >= MaxConns
    /\ sock' = [sock EXCEPT ![c] = "surplus"]
    /\ UNCHANGED <<server, table, query, fwd, replies, atStop, faulted>>

SurplusGone(c) ==
    /\ sock[c] = "surplus"
    /\ sock' = [sock EXCEPT ![c] = "closed"]
    /\ faulted' \in {faulted, TRUE}
    /\ UNCHANGED <<server, table, query, fwd, replies, atStop>>

\* Query q is read from its connection, even one that was ended.  (Of several
\* queries in one chunk, those behind one whose answer destroyed the socket are
\* still taken up, and may be forwarded for nobody: left out.)
Arrives(q) ==
    /\ query[q] = "new" /\ sock[ConnOf[q]] \in Usable
    /\ atStop' = IF server = "up" THEN atStop ELSE atStop \cup {q}
    /\ UNCHANGED <<server, faulted>>

\* It is answered from configuration or cache.
AnswerLocally(q) ==
    /\ Arrives(q)
    /\ query' = [query EXCEPT ![q] = "settled"]
    /\ Answer(q)
    /\ Leave(q, Written(sock[ConnOf[q]]))
    /\ UNCHANGED fwd

\* It is not a query, the resolver throws (the socket is ended), or there is
\* no upstream resolver (it is answered and the socket ended).
EndAfter(q) ==
    /\ Arrives(q)
    /\ query' = [query EXCEPT ![q] = "settled"]
    /\ \/ UNCHANGED replies /\ Leave(q, Ended(sock[ConnOf[q]]))
       \/ Answer(q) /\ Leave(q, Ended(Written(sock[ConnOf[q]])))
    /\ UNCHANGED fwd

\* Its length is zero, or the buffer is full: the socket is destroyed.
Malformed(q) ==
    /\ Arrives(q)
    /\ query' = [query EXCEPT ![q] = "settled"]
    /\ Leave(q, "closed")
    /\ UNCHANGED <<fwd, replies>>

\* forwardTcpQuery.
Forward(q) ==
    /\ Arrives(q)
    /\ query' = [query EXCEPT ![q] = "forwarded"]
    /\ fwd' = [fwd EXCEPT ![q] = "open"]
    /\ UNCHANGED <<sock, table, replies>>

FwdCloses(q) ==
    /\ fwd[q] = "open"
    /\ fwd' = [fwd EXCEPT ![q] = "closed"]
    /\ UNCHANGED <<server, query, atStop>>

\* fwd "data": a response that is trusted or blocked is written and the
\* client's socket ended; the loop goes on with a second response that came
\* along, whose write then fails.
FwdAnswersOpen(q, frames) ==
    /\ FwdCloses(q)
    /\ IF sock[ConnOf[q]] \in Usable
       THEN /\ replies' = [replies EXCEPT ![q] = @ + frames]
            /\ Leave(q, Ended(sock[ConnOf[q]]))
       ELSE UNCHANGED <<sock, table, replies>>
    /\ UNCHANGED faulted

FwdAnswers(q, frames) ==
    /\ FwdCloses(q)
    /\ IF sock[ConnOf[q]] \in Usable
       THEN /\ Answer(q)
            /\ Leave(q, IF frames = 1 THEN Ended(Written(sock[ConnOf[q]])) ELSE "closed")
       ELSE UNCHANGED <<sock, table, replies>>
    /\ UNCHANGED faulted

\* fwd "data" with a response that is not trusted, and fwd "end": the client's
\* socket is ended.
FwdEnds(q) ==
    /\ FwdCloses(q)
    /\ IF sock[ConnOf[q]] \in Usable
       THEN Leave(q, Ended(sock[ConnOf[q]]))
       ELSE UNCHANGED <<sock, table>>
    /\ UNCHANGED <<replies, faulted>>

\* fwd "data" with a response that the parser throws on: nothing is closed.
FwdThrows(q) ==
    /\ fwd[q] = "open"
    /\ faulted' = TRUE
    /\ UNCHANGED <<server, sock, table, query, fwd, replies, atStop>>

\* fwd "error": SERVFAIL is written and the client's socket ended.
FwdFails(q) ==
    /\ FwdCloses(q)
    /\ IF sock[ConnOf[q]] \in Usable
       THEN Answer(q) /\ Leave(q, Ended(Written(sock[ConnOf[q]])))
       ELSE UNCHANGED <<sock, table, replies>>
    /\ UNCHANGED faulted

\* fwd "timeout", and a response of length zero: the client hears nothing.
FwdTimeout(q) ==
    /\ FwdCloses(q)
    /\ UNCHANGED <<sock, table, replies, faulted>>

\* The client's socket closes: the client ends or resets the connection, or is
\* silent until the idle timer fires.  What was forwarded for it goes on.
ClosesIfOpen(c) ==
    /\ sock[c] = "open"
    /\ Destroyed({c})
    /\ UNCHANGED <<server, query, fwd, replies, atStop, faulted>>

Closes(c) ==
    /\ sock[c] \in Usable
    /\ Destroyed({c})
    /\ UNCHANGED <<server, query, fwd, replies, atStop, faulted>>

\* stop(): the upstream sockets and the connections in activeTcpConnections,
\* TLS ones too, are destroyed, and the TCP listener closes.
StopKeepingUpstreams ==
    /\ server = "up"
    /\ server' = "stopping"
    /\ Destroyed(table)
    /\ UNCHANGED <<query, fwd, replies, atStop, faulted>>

Stop ==
    /\ server = "up"
    /\ server' = "stopping"
    /\ fwd' = [q \in Queries |-> IF fwd[q] = "open" THEN "closed" ELSE fwd[q]]
    /\ Destroyed(table)
    /\ UNCHANGED <<query, replies, atStop, faulted>>

\* The TCP listener has closed, which takes the connections over the limit
\* too; the same is done with the TLS listener, but not with upstream sockets.
StopDot ==
    /\ server = "stopping"
    /\ \A c \in TcpConns : sock[c] \in {"none", "closed"}
    /\ server' = "down"
    /\ Destroyed(table)
    /\ UNCHANGED <<query, fwd, replies, atStop, faulted>>

Next ==
    \/ \E c \in Conns :
          \/ Admit(c)
          \/ Surplus(c)
          \/ SurplusGone(c)
          \/ Closes(c)
    \/ \E q \in Queries :
          \/ AnswerLocally(q)
          \/ EndAfter(q)
          \/ Malformed(q)
          \/ Forward(q)
          \/ \E frames \in 1..2 : FwdAnswers(q, frames)
          \/ FwdEnds(q)
          \/ FwdThrows(q)
          \/ FwdFails(q)
          \/ FwdTimeout(q)
    \/ Stop
    \/ StopDot

\* A connection carries finitely many queries here, so it falls silent and its
\* idle timer fires.
Fairness == \A c \in Conns : WF_vars(Closes(c))

Spec == Init /\ [][Next]_vars /\ Fairness

-----------------------------------------------------------------------------

TypeOK ==
    /\ server \in {"up", "stopping", "down"}
    /\ sock \in [Conns -> {"none", "surplus", "open", "ended", "closed"}]
    /\ table \subseteq Conns
    /\ query \in [Queries -> {"new", "forwarded", "settled"}]
    /\ fwd \in [Queries -> {"none", "open", "closed"}]
    /\ replies \in [Queries -> Nat]
    /\ atStop \subseteq Queries
    /\ faulted \in BOOLEAN

\* No more than maxTcpConnections connections are served at a time, and each
\* that ends, in whichever handler, gives its place to another.
LimitIsExact ==
    /\ table = {c \in Conns : sock[c] \in Usable}
    /\ Cardinality(table) <= MaxConns

\* A query is answered once at most, whatever its own and the other upstream
\* sockets of the connection report, and even if upstream answers twice.
AtMostOneReply == \A q \in Queries : replies[q] <= 1

\* Of the connections to the upstream resolver, stop() leaves only those of
\* queries that came by TLS while the TCP listener was closing.
StopEndsUpstreams ==
    server # "up" => \A q \in Queries :
        fwd[q] = "open" => q \in atStop /\ ConnOf[q] \in DotConns

\* A query that was forwarded is answered or its connection closed: no client
\* is kept waiting for an upstream resolver that says nothing.
EveryQueryEnds ==
    \A q \in Queries :
        query[q] = "forwarded" ~> (replies[q] > 0 \/ sock[ConnOf[q]] = "closed")
=============================================================================
