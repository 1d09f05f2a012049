------------------------------- MODULE Tunnel -------------------------------
(***************************************************************************)
(* The connections that the two proxies tunnel: TLS connections routed by  *)
(* the name in their ClientHello (SniProxyService.handleConnection) and    *)
(* HTTP CONNECT requests (HttpHandler.handleConnect).  A tunnel is a pair  *)
(* of sockets, the client's and one to the target, each with handlers that *)
(* destroy the other.  The one to the target is created after the target's *)
(* name is resolved, when the client, or the whole proxy, may be gone.     *)
(***************************************************************************)
EXTENDS Naturals

CONSTANTS
    SniConns,       \* connections to the SNI proxy
    ConnectConns    \* CONNECT requests to the HTTP handler

ASSUME KindsAssumption == SniConns \cap ConnectConns = {}

Conns == SniConns \cup ConnectConns
Kinds == {"sni", "connect"}
Of(kind) == IF kind = "sni" THEN SniConns ELSE ConnectConns

VARIABLES
    service,        \* each proxy: up, stopping (its server closes) or down
    client,         \* the client's socket of each connection
    upstream,       \* the socket to its target
    handling,       \* how far the handler of the connection has come
    active,         \* activeConnections of both proxies
    late,           \* history: the connections whose name was being resolved
                    \* when their proxy was stopped
    faulted         \* an error event reached a socket without a handler

tunnelVars == <<service, client, upstream, handling, active, late, faulted>>

Live == {"connecting", "open"}

\* Destroying either socket of a pair destroys both, as far as they exist,
\* and takes them out of activeConnections: destroy(), and with it the close
\* events of a turn later, whose handlers do the rest.
TearDown(cs) ==
    /\ client' = [c \in Conns |-> IF c \in cs /\ client[c] = "open" THEN "closed" ELSE client[c]]
    /\ upstream' = [c \in Conns |->
                      IF c \in cs /\ upstream[c] \in Live THEN "closed" ELSE upstream[c]]
    /\ active' = {e \in active : e[1] \notin cs}

-----------------------------------------------------------------------------

TunnelInit ==
    /\ service = [k \in Kinds |-> "up"]
    /\ client = [c \in Conns |-> "none"]
    /\ upstream = [c \in Conns |-> "none"]
    /\ handling = [c \in Conns |-> "new"]
    /\ active = {}
    /\ late = {}
    /\ faulted = FALSE

\* A client connects.  A TLS client has five seconds for its ClientHello; a
\* CONNECT request comes whole, and its target is resolved at once.
AcceptUntracked(kind, c) ==
    /\ service[kind] = "up"
    /\ c \in Of(kind) /\ client[c] = "none"
    /\ client' = [client EXCEPT ![c] = "open"]
    /\ handling' = [handling EXCEPT ![c] = IF kind = "sni" THEN "hello" ELSE "resolving"]
    /\ UNCHANGED <<service, upstream, active, late, faulted>>

Accept(kind, c) ==
    /\ service[kind] = "up"
    /\ c \in Of(kind) /\ client[c] = "none"
    /\ client' = [client EXCEPT ![c] = "open"]
    /\ handling' = [handling EXCEPT ![c] = IF kind = "sni" THEN "hello" ELSE "resolving"]
    /\ active' = active \cup {<<c, "client">>}
    /\ UNCHANGED <<service, upstream, late, faulted>>

\* The ClientHello is complete, and its name has to be resolved.
Hello(c) ==
    /\ handling[c] = "hello" /\ client[c] = "open"
    /\ handling' = [handling EXCEPT ![c] = "resolving"]
    /\ UNCHANGED <<service, client, upstream, active, late, faulted>>

\* absoluteHandshakeTimeout.
HelloTimeout(c) ==
    /\ handling[c] = "hello" /\ client[c] = "open"
    /\ TearDown({c})
    /\ UNCHANGED <<service, handling, late, faulted>>

\* The handler of the connection is about to choose its target: right after
\* the ClientHello, if that has an address in the configuration, or when the
\* resolution is through.
AtTarget(c) ==
    \/ handling[c] = "hello" /\ client[c] = "open"
    \/ handling[c] = "resolving"

\* No name, a name or address the firewall denies, no address: the client's
\* socket is destroyed.
RefuseClient(c) ==
    /\ AtTarget(c)
    /\ handling' = [handling EXCEPT ![c] = "decided"]
    /\ TearDown({c})
    /\ UNCHANGED <<service, late, faulted>>

\* net.connect to the target, whatever became of the client and the proxy.
DialUntracked(c) ==
    /\ AtTarget(c)
    /\ handling' = [handling EXCEPT ![c] = "decided"]
    /\ upstream' = [upstream EXCEPT ![c] = "connecting"]
    /\ UNCHANGED <<service, client, active, late, faulted>>

Dial(c) ==
    /\ AtTarget(c)
    /\ handling' = [handling EXCEPT ![c] = "decided"]
    /\ upstream' = [upstream EXCEPT ![c] = "connecting"]
    /\ active' = active \cup {<<c, "upstream">>}
    /\ UNCHANGED <<service, client, late, faulted>>

\* The target accepts: the two sockets are piped into each other.
Connected(c) ==
    /\ upstream[c] = "connecting"
    /\ upstream' = [upstream EXCEPT ![c] = "open"]
    /\ UNCHANGED <<service, client, handling, active, late, faulted>>

\* The target refuses, fails or ends the connection.
UpstreamClosesAlone(c) ==
    /\ upstream[c] \in Live
    /\ upstream' = [upstream EXCEPT ![c] = "closed"]
    /\ active' = active \ {<<c, "upstream">>}
    /\ UNCHANGED <<service, client, handling, late, faulted>>

UpstreamCloses(c) ==
    /\ upstream[c] \in Live
    /\ TearDown({c})
    /\ UNCHANGED <<service, handling, late, faulted>>

\* The idle timer of the socket to the target.
UpstreamIdleHeard(c) ==
    /\ upstream[c] \in Live
    /\ client[c] = "open"
    /\ TearDown({c})
    /\ UNCHANGED <<service, handling, late, faulted>>

UpstreamIdle(c) ==
    /\ upstream[c] \in Live
    /\ TearDown({c})
    /\ UNCHANGED <<service, handling, late, faulted>>

\* The client ends or fails, or its idle timer fires.  While a CONNECT target
\* is being resolved its client has no handlers: an error then is an uncaught
\* exception.
ClientCloses(c) ==
    /\ client[c] = "open"
    /\ TearDown({c})
    /\ \/ UNCHANGED faulted
       \/ c \in ConnectConns /\ handling[c] = "resolving" /\ faulted' = TRUE
    /\ UNCHANGED <<service, handling, late>>

\* stop(): every socket in activeConnections is destroyed and the server
\* closes, which ends with its last client.
StopClientsOnly(kind) ==
    /\ service[kind] = "up"
    /\ service' = [service EXCEPT ![kind] = "stopping"]
    /\ late' = late \cup {c \in Of(kind) : handling[c] = "resolving"}
    /\ client' = [c \in Conns |-> IF <<c, "client">> \in active /\ c \in Of(kind)
                                  THEN "closed" ELSE client[c]]
    /\ active' = active \ {<<c, "client">> : c \in Of(kind)}
    /\ UNCHANGED <<upstream, handling, faulted>>

Stop(kind) ==
    /\ service[kind] = "up"
    /\ service' = [service EXCEPT ![kind] = "stopping"]
    /\ late' = late \cup {c \in Of(kind) : handling[c] = "resolving"}
    /\ TearDown({c \in Of(kind) : \E end \in {"client", "upstream"} : <<c, end>> \in active})
    /\ UNCHANGED <<handling, faulted>>

\* The server has closed; activeConnections is cleared, what was added to it
\* since then too.
Stopped(kind) ==
    /\ service[kind] = "stopping"
    /\ \A c \in Of(kind) : client[c] # "open"
    /\ service' = [service EXCEPT ![kind] = "down"]
    /\ active' = {e \in active : e[1] \notin Of(kind)}
    /\ UNCHANGED <<client, upstream, handling, late, faulted>>

TunnelNext ==
    \/ \E kind \in Kinds :
          \/ \E c \in Conns : Accept(kind, c)
          \/ Stop(kind)
          \/ Stopped(kind)
    \/ \E c \in Conns :
          \/ Hello(c)
          \/ HelloTimeout(c)
          \/ RefuseClient(c)
          \/ Dial(c)
          \/ Connected(c)
          \/ UpstreamCloses(c)
          \/ UpstreamIdle(c)
          \/ ClientCloses(c)

\* A resolution succeeds or fails.  An idle timer fires on a socket nothing
\* passes through, as none does once the other side is gone.  A server whose
\* clients are gone closes.
Fairness ==
    /\ \A c \in Conns :
          /\ WF_tunnelVars(handling[c] = "resolving" /\ (RefuseClient(c) \/ Dial(c)))
          /\ WF_tunnelVars(client[c] = "closed" /\ UpstreamIdle(c))
    /\ \A kind \in Kinds : WF_tunnelVars(Stopped(kind))

TunnelSpec == TunnelInit /\ [][TunnelNext]_tunnelVars /\ Fairness

-----------------------------------------------------------------------------

Ends == {"client", "upstream"}

TunnelTypeOK ==
    /\ service \in [Kinds -> {"up", "stopping", "down"}]
    /\ client \in [Conns -> {"none", "open", "closed"}]
    /\ upstream \in [Conns -> {"none", "connecting", "open", "closed"}]
    /\ handling \in [Conns -> {"new", "hello", "resolving", "decided"}]
    /\ active \subseteq Conns \X Ends
    /\ late \subseteq Conns
    /\ faulted \in BOOLEAN

\* While its proxy is up, activeConnections holds exactly the sockets of a
\* connection that are not closed, so that stop() finds them all and the set
\* does not grow with connections that are gone.
ActiveIsExact ==
    \A kind \in Kinds : service[kind] = "up" =>
        \A c \in Of(kind) :
            /\ <<c, "client">> \in active <=> client[c] = "open"
            /\ <<c, "upstream">> \in active <=> upstream[c] \in Live

\* A client never hangs on a tunnel whose target is gone.
TargetGoneClientGone == \A c \in Conns : upstream[c] = "closed" => client[c] # "open"

\* A stopped proxy has no connection left, but for those whose name was being
\* resolved when it was stopped: they dial their target all the same.
StopLeavesOnlyLateDials ==
    \A kind \in Kinds : service[kind] # "up" =>
        \A c \in Of(kind) :
            client[c] # "open" /\ (upstream[c] \in Live => c \in late)

\* Once the client is gone, so is the connection to its target in the end,
\* even one that is made after the client is gone and hears nothing of it.
ClientGoneTargetGone ==
    \A c \in Conns : client[c] = "closed" ~> [](upstream[c] \notin Live)

\* stop() of either proxy ends, whatever tunnels are open.
StopEnds == \A kind \in Kinds : service[kind] = "stopping" ~> service[kind] = "down"
=============================================================================
