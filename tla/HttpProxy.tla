------------------------------ MODULE HttpProxy ------------------------------
(***************************************************************************)
(* HttpHandler's requests, from their arrival to the head of the response: *)
(* the routes of handleRequest, the firewall's verdict on what they lead   *)
(* to, the circuit breaker of the target, and the token that tells a       *)
(* request the proxy sent to itself.  Safety only: timers may fire at any  *)
(* time, and need not.                                                     *)
(*                                                                         *)
(* An exchange is a request and the number of times it has come in.  A     *)
(* target is a record [name, ip]: a name, or an address written instead of *)
(* one.  In a URL that is an IPv4 address, a bracketed one being a name to *)
(* this code, but in a Host header the brackets are taken off.  The target *)
(* in the path of a request (//host) and ports are left out.               *)
(***************************************************************************)
EXTENDS HostTable, Firewall

CONSTANTS
    Requests,      \* what clients send
    Asked1(_),     \* the target in the URL or in the Host header; NoTarget
    Client(_),     \* where the request comes from
    Absolute,      \* the requests whose URL begins with http://
    Hosts,         \* config.hosts: [records, redirect, upstream] by key
    Policy,        \* config.firewall
    NameService,   \* what the resolver may answer: sequences of addresses
    Self,          \* the address this proxy is reached at, an IPv4 one
    Threshold,     \* 5 failures
    Reset,         \* resetTimeoutMs
    Idle,          \* idleTimeoutMs
    Window,        \* the minute of a loop token
    MaxBreakers,   \* 10000
    Rounds,        \* bound on the times a request comes in
    MaxTime        \* bound on the clock, for TLC

NoTarget == [name |-> <<>>, ip |-> Text]
V4Addresses == [family : {"v4"}, body : Octets]
V6Addresses ==
    [family : {"v6"}, body : Groups, begun : BOOLEAN, dotted : BOOLEAN, text : Nat]
Addresses == V4Addresses \cup V6Addresses \cup {Text}
Targets == [name : Seq(STRING), ip : Addresses]

ASSUME LimitsAssumption ==
    /\ Threshold \in Nat \ {0} /\ MaxBreakers \in Nat \ {0} /\ MaxTime \in Nat
    /\ Reset \in Nat /\ Idle \in Nat /\ Window \in Nat \ {0}
    /\ Rounds \in Nat /\ Rounds >= 3
ASSUME AddressAssumption ==
    /\ Self \in V4Addresses
    /\ \A r \in Requests : /\ Asked1(r) \in Targets
                           /\ r \in Absolute => Asked1(r).ip.family # "v6"
    /\ \A ips \in NameService : ips \in Seq(Addresses)
    /\ \A k \in DOMAIN Hosts : /\ Hosts[k].records \in Seq(Addresses)
                               /\ \A t \in {Hosts[k].redirect, Hosts[k].upstream} :
                                      t \in Targets /\ t.ip.family # "v6"

VARIABLES
    stage,         \* of each exchange, its last stage being the answer
    try,           \* what doHttpProxy was called with: [ip, host, breaker, begun]
    breakers,      \* circuitBreakers in the order of insertion: [key, id], where
                   \* a breaker's id is the exchange it was made for
    circuit,       \* the breakers' [state, failures, last]
    now            \* the clock

vars == <<stage, try, breakers, circuit, now>>

Exchanges == Requests \X (1..Rounds)
Parent(e) == <<e[1], e[2] - 1>>
Child(e) == <<e[1], e[2] + 1>>

\* An exchange is answered with a code of the proxy's, or with the head of the
\* target's response; a redirect and 508 are told apart.
Answers == {"answered", "redirected", "looped"}

-----------------------------------------------------------------------------
(* Routes.                                                                   *)

\* A connection to the address ends at this proxy.
IsSelf(ip) == Canonical(ip) = Self

\* The hop back to the proxy names the target it was sent to as its host, an
\* IPv6 address as URLs write it.
AsHost(t) == IF t.ip.family = "v6" THEN [t EXCEPT !.ip = V6(t.ip.body)] ELSE t
Asked(e) == IF e[2] = 1 THEN Asked1(e[1]) ELSE try[Parent(e)].host
ClientOf(e) == IF e[2] = 1 THEN Client(e[1]) ELSE Self

IsLiteral(t) == t.ip # Text

HostConfig(e) == RoutedHost(Hosts, Asked(e).name)

Route(e) ==
    LET h == HostConfig(e) IN
    CASE e[2] = 1 /\ e[1] \in Absolute -> "forward"
      [] OTHER -> IF h = NoHost THEN "direct"
                  ELSE IF h.redirect # NoTarget THEN "redirect"
                  ELSE IF h.upstream # NoTarget THEN "upstream" ELSE "direct"

To(e) ==
    CASE Route(e) = "redirect" -> HostConfig(e).redirect
      [] Route(e) = "upstream" -> HostConfig(e).upstream
      [] OTHER -> Asked(e)

\* The verdict before the name is resolved.  Only the direct route looks at an
\* address before it is one of several.
NameVerdict(e) ==
    IF ~IsLiteral(To(e)) THEN EvaluateDomain(Normalized(To(e).name), Policy)
    ELSE Route(e) = "direct" => EvaluateIp(To(e).ip, Policy)

\* resolveHost: the records of the configuration, or else the resolver.
Resolutions(t) ==
    LET h == ProxyHost(Hosts, Normalized(t.name)) IN
    IF IsLiteral(t) THEN {<<t.ip>>}
    ELSE IF h # NoHost /\ h.records # <<>> THEN {h.records} ELSE NameService

AddressVerdict(ip) == EvaluateIp(ip, Policy) /\ EvaluateOutbound(ip, Policy)

\* A redirect and a configured upstream are refused for any address of the
\* target, the direct route for the address it will use.
AcceptsOne(e, ips) == \E i \in DOMAIN ips : AddressVerdict(ips[i])

Accepts(e, ips) ==
    /\ ips # <<>>
    /\ IF Route(e) = "direct" THEN AddressVerdict(ips[1])
       ELSE \A i \in DOMAIN ips : AddressVerdict(ips[i])

\* The token the parent sent is the one expected of this client, in this minute
\* or in the one before.
IsLoopThisMinute(e) ==
    /\ e[2] > 1 /\ ClientOf(Parent(e)) = ClientOf(e)
    /\ now \div Window = try[Parent(e)].begun \div Window

IsLoop(e) ==
    /\ e[2] > 1 /\ ClientOf(Parent(e)) = ClientOf(e)
    /\ (now \div Window) - (try[Parent(e)].begun \div Window) \in {0, 1}

-----------------------------------------------------------------------------
(* The circuit breaker.                                                      *)

Closed == [state |-> "CLOSED", failures |-> 0, last |-> 0]

\* getCircuitBreaker: the map afterwards, and the breaker.
BreakerUnbounded(e) ==
    LET known == {i \in DOMAIN breakers : breakers[i].key = To(e)} IN
    IF known # {} THEN [map |-> breakers, id |-> breakers[CHOOSE i \in known : TRUE].id]
    ELSE [map |-> Append(breakers, [key |-> To(e), id |-> e]), id |-> e]

Breaker(e) ==
    LET known == {i \in DOMAIN breakers : breakers[i].key = To(e)}
        room  == IF Len(breakers) >= MaxBreakers THEN Tail(breakers) ELSE breakers
    IN  IF known # {} THEN [map |-> breakers, id |-> breakers[CHOOSE i \in known : TRUE].id]
        ELSE [map |-> Append(room, [key |-> To(e), id |-> e]), id |-> e]

Refuses(c) == c.state = "OPEN" /\ now - c.last <= Reset

\* execute, before and after the action.
Entered(c) == IF c.state = "OPEN" THEN [c EXCEPT !.state = "HALF_OPEN"] ELSE c

Succeeded(c) ==
    IF c.state = "HALF_OPEN" THEN [c EXCEPT !.state = "CLOSED", !.failures = 0] ELSE c

\* recordFailure, with the time at which the request was begun.
FailedForgetfully(c, time) ==
    [c EXCEPT !.failures = IF c.state = "HALF_OPEN" THEN 1 ELSE @ + 1, !.last = time,
              !.state = IF c.state # "HALF_OPEN" /\ c.failures + 1 >= Threshold THEN "OPEN" ELSE @]

Failed(c, time) ==
    [c EXCEPT !.failures = @ + 1, !.last = time,
              !.state = IF c.failures + 1 >= Threshold THEN "OPEN" ELSE @]

-----------------------------------------------------------------------------

Untried(e) == [ip |-> Text, host |-> NoTarget, breaker |-> e, begun |-> 0]

Init ==
    /\ stage = [e \in Exchanges |-> "idle"]
    /\ try = [e \in Exchanges |-> Untried(e)]
    /\ breakers = <<>>
    /\ circuit = [e \in Exchanges |-> Closed]
    /\ now = 0

Moved(e, s) == stage' = [stage EXCEPT ![e] = s]

\* The end of an exchange: what it sent on may still be under way.
Ended(e) ==
    /\ Moved(e, "answered")
    /\ try' = [try EXCEPT ![e] = [Untried(e) EXCEPT !.host = try[e].host]]

\* A request comes in, from a client or, over the loop, from this proxy.
Receive(e) ==
    /\ stage[e] = "idle"
    /\ e[2] > 1 => stage[Parent(e)] = "trying" /\ IsSelf(try[Parent(e)].ip)
    /\ Moved(e, IF IsLoop(e) THEN "looped"
                ELSE IF Asked(e) # NoTarget /\ NameVerdict(e) THEN "resolving" ELSE "answered")
    /\ UNCHANGED <<try, breakers, circuit, now>>

\* The resolver reports an error or no address, or one that is refused.
Refuse(e) ==
    /\ stage[e] = "resolving"
    /\ ~IsLiteral(To(e)) \/ \E ips \in Resolutions(To(e)) : ~Accepts(e, ips)
    /\ Moved(e, "answered")
    /\ UNCHANGED <<try, breakers, circuit, now>>

Redirect(e) ==
    /\ stage[e] = "resolving" /\ Route(e) = "redirect"
    /\ \E ips \in Resolutions(To(e)) : Accepts(e, ips)
    /\ Moved(e, "redirected")
    /\ UNCHANGED <<try, breakers, circuit, now>>

\* The breaker of the target refuses the request or lets it be sent.  What has
\* come in for the last time that is counted is not sent round again.
Enter(e, ips) ==
    /\ stage[e] = "resolving" /\ Route(e) # "redirect"
    /\ Accepts(e, ips)
    /\ IsSelf(ips[1]) => e[2] < Rounds
    /\ LET b == Breaker(e) IN
        /\ breakers' = b.map
        /\ IF Refuses(circuit[b.id])
           THEN Moved(e, "answered") /\ UNCHANGED <<try, circuit>>
           ELSE /\ Moved(e, "trying")
                /\ try' = [try EXCEPT ![e] = [ip |-> ips[1], host |-> AsHost(To(e)),
                                              breaker |-> b.id, begun |-> now]]
                /\ circuit' = [circuit EXCEPT ![b.id] = Entered(@)]
    /\ UNCHANGED now

\* The head of the response arrives, over the loop once the proxy has sent it,
\* and the body is left to a pipe.
Headers(e) ==
    /\ stage[e] = "trying"
    /\ IsSelf(try[e].ip) => stage[Child(e)] \in Answers
    /\ Ended(e)
    /\ circuit' = [circuit EXCEPT ![try[e].breaker] = Succeeded(@)]
    /\ UNCHANGED <<breakers, now>>

\* The idle timer fires, the connection is refused or breaks; or the client's
\* body is too long, or the client leaves before it was sent.  All count as a
\* failure of the target.
Fail(e) ==
    /\ stage[e] = "trying"
    /\ Ended(e)
    /\ circuit' = [circuit EXCEPT ![try[e].breaker] = Failed(@, try[e].begun)]
    /\ UNCHANGED <<breakers, now>>

\* A request that was sent to the proxy itself arrives before the idle timer of
\* its sender fires.
Tick ==
    /\ now < MaxTime
    /\ \A e \in Exchanges : stage[e] = "trying" /\ IsSelf(try[e].ip) /\ stage[Child(e)] = "idle"
                              => now - try[e].begun < Idle
    /\ now' = now + 1
    /\ UNCHANGED <<stage, try, breakers, circuit>>

Next ==
    \/ Tick
    \/ \E e \in Exchanges :
        \/ Receive(e) \/ Refuse(e) \/ Redirect(e)
        \/ \E ips \in Resolutions(To(e)) : Enter(e, ips)
        \/ Headers(e) \/ Fail(e)

Spec == Init /\ [][Next]_vars

-----------------------------------------------------------------------------

Trials(b) == {e \in Exchanges : stage[e] = "trying" /\ try[e].breaker = b}

\* Types, and that the map of breakers has one per host and stays within its limit.
TypeOK ==
    /\ stage \in [Exchanges -> Answers \cup {"idle", "resolving", "trying"}]
    /\ try \in [Exchanges -> [ip : Addresses, host : Targets, breaker : Exchanges, begun : 0..now]]
    /\ circuit \in [Exchanges ->
                       [state : {"CLOSED", "OPEN", "HALF_OPEN"}, failures : Nat, last : 0..now]]
    /\ breakers \in Seq([key : Targets, id : Exchanges]) /\ Len(breakers) <= MaxBreakers
    /\ \A i, j \in 1..Len(breakers) : breakers[i].key = breakers[j].key => i = j
    /\ now \in Nat

\* No connection is opened to an address the configuration does not permit: one
\* in its blocklist, or one set aside for special use that it does not list, in
\* whatever text; but for the IPv6 addresses that the verdicts overlook.
DialsArePermitted ==
    \A e \in Exchanges : LET ip == try[e].ip IN
        stage[e] = "trying" => Permitted(ip, Policy) \/ Overlooked(ip, Policy)

\* A half-open breaker waits for the end of a request that it let through, so it
\* is not left half open, whatever requests of earlier times end meanwhile.
HalfOpenIsUnderTrial ==
    \A b \in Exchanges : circuit[b].state = "HALF_OPEN" => Trials(b) # {}

\* A request that leads back to the proxy is recognised at the latest when it
\* comes in for the third time, names, minutes and clients as they may be: where
\* no hop takes longer than a token is known for, as with the default idle timer.
LoopsEnd ==
    Idle <= Window => \A e \in Exchanges : e[2] >= 3 => stage[e] \in {"idle", "looped"}
=============================================================================
