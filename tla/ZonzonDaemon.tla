---------------------------- MODULE ZonzonDaemon ----------------------------
(***************************************************************************)
(* ZonzonDaemon and startEngine of the command line: three listeners (DNS, *)
(* HTTP, SNI) opened one after the other by start() and closed one after   *)
(* the other by stop(), the reload that the control plane's subscriber runs*)
(* for every configuration update (stop, then start) without anybody       *)
(* waiting for it, and the shutdown on a signal.                           *)
(*                                                                         *)
(* Each call of start() and stop() is a process of its own, because every  *)
(* await in them lets the others run.  Promise reactions and the settling  *)
(* of a bind to a numeric address run before the event loop handles any    *)
(* other event, so opening a listener is one step and nothing from outside *)
(* happens while a call can go on; closing a listener takes until its      *)
(* connections are gone, and anything may happen meanwhile.                *)
(***************************************************************************)
EXTENDS Naturals

CONSTANTS
    Updates,       \* how many configuration updates there are; they are 1..Updates
    PortOf(_, _),  \* PortOf(c, s): the port configuration c gives subsystem s
    BindMayFail,   \* whether a port may be refused for a reason outside the daemon
    None           \* a field that is null

Subsystems == {"dns", "http", "sni"}

\* The configuration the daemon was booted with is number 0.
Configs == 0..Updates
Reloads == 1..Updates
Shutdown == Updates + 1
Procs == Configs \cup {Shutdown}

\* The order in which start() opens the fields and stop() closes them.
First == "dns"
AfterNoSni(s) == IF s = "dns" THEN "http" ELSE "end"
After(s) == IF s = "dns" THEN "http" ELSE IF s = "http" THEN "sni" ELSE "end"

ASSUME UpdatesAssumption == Updates \in Nat
ASSUME BindAssumption == BindMayFail \in BOOLEAN
ASSUME NoneAssumption == None \notin Configs

VARIABLES
    field,         \* dnsHandler, httpHandler, sniProxy: whose instance each is
    sock,          \* sock[c][s]: the server socket of that instance
    phase,         \* what each call is doing
    step,          \* the subsystem it is at
    waiting,       \* whether it awaits the close of that subsystem
    exit           \* how the process ended, if it did

vars == <<field, sock, phase, step, waiting, exit>>

Running == exit = "no"

\* The event loop waits for an event: no call can go on by itself.
AllBlocked == \A p \in Procs : phase[p] \in {"idle", "closing", "done", "hung"} \/ waiting[p]

\* Where a call goes on once it is through with subsystem s; a call whose
\* next step is "end" is taken on by Turn.
Advance(p, s) == step' = [step EXCEPT ![p] = After(s)]

PortFree(c, s) ==
    \A d \in Configs : sock[d][s] = "listening" => PortOf(d, s) # PortOf(c, s)

-----------------------------------------------------------------------------

Init ==
    /\ field = [s \in Subsystems |-> None]
    /\ sock = [c \in Configs |-> [s \in Subsystems |-> "new"]]
    /\ phase = [p \in Procs |-> IF p = 0 THEN "start" ELSE "idle"]
    /\ step = [p \in Procs |-> First]
    /\ waiting = [p \in Procs |-> FALSE]
    /\ exit = "no"

\* The control plane, up once the first start() is through, calls the
\* subscriber with the next configuration; the reload begins and is not awaited.
Notify(u) ==
    /\ Running
    /\ AllBlocked
    /\ phase[0] = "done"
    /\ phase[u] = "idle"
    /\ \A v \in Reloads : v < u => phase[v] # "idle"
    /\ phase' = [phase EXCEPT ![u] = "stop"]
    /\ UNCHANGED <<field, sock, step, waiting, exit>>

\* SIGINT or SIGTERM: shutdown() runs once.
Signal ==
    /\ Running
    /\ AllBlocked
    /\ phase[0] = "done"
    /\ phase[Shutdown] = "idle"
    /\ phase' = [phase EXCEPT ![Shutdown] = "stop"]
    /\ UNCHANGED <<field, sock, step, waiting, exit>>

\* stop(): a field that is null is passed over, and so, at once, is an
\* instance that never got to listen.
PassOver(p, s) ==
    /\ Running
    /\ phase[p] \in {"stop", "abort"} /\ step[p] = s /\ ~waiting[p]
    /\ \/ field[s] = None /\ UNCHANGED field
       \/ /\ field[s] # None
          /\ sock[field[s]][s] = "failed"
          /\ field' = [field EXCEPT ![s] = None]
    /\ Advance(p, s)
    /\ UNCHANGED <<sock, phase, waiting, exit>>

\* stop(): the instance stops accepting, its port is free, and the call waits
\* for its connections, as may others that found the same instance.
Close(p, s) ==
    /\ Running
    /\ phase[p] \in {"stop", "abort"} /\ step[p] = s /\ ~waiting[p]
    /\ field[s] # None
    /\ sock[field[s]][s] \in {"listening", "closing"}
    /\ sock' = [sock EXCEPT ![field[s]][s] = "closing"]
    /\ waiting' = [waiting EXCEPT ![p] = TRUE]
    /\ UNCHANGED <<field, phase, step, exit>>

\* The last connection of the closing instance is gone: every call that waits
\* for it sets the field to null and goes on.
DrainedUnheard(c, s) ==
    /\ Running
    /\ AllBlocked
    /\ sock[c][s] = "closing"
    /\ sock' = [sock EXCEPT ![c][s] = "closed"]
    /\ UNCHANGED <<field, phase, step, waiting, exit>>

Drained(c, s) ==
    /\ Running
    /\ AllBlocked
    /\ sock[c][s] = "closing"
    /\ sock' = [sock EXCEPT ![c][s] = "closed"]
    /\ field' = IF \E p \in Procs : waiting[p] /\ step[p] = s
                THEN [field EXCEPT ![s] = None] ELSE field
    /\ step' = [p \in Procs |-> IF waiting[p] /\ step[p] = s THEN After(s) ELSE step[p]]
    /\ waiting' = [p \in Procs |-> waiting[p] /\ step[p] # s]
    /\ UNCHANGED <<phase, exit>>

\* start(): a new instance is assigned to the field and bound to its port.
OpenUntracked(c, s) ==
    /\ Running
    /\ phase[c] = "start" /\ step[c] = s
    /\ PortFree(c, s)
    /\ sock' = [sock EXCEPT ![c][s] = "listening"]
    /\ Advance(c, s)
    /\ UNCHANGED <<field, phase, waiting, exit>>

Open(c, s) ==
    /\ Running
    /\ phase[c] = "start" /\ step[c] = s
    /\ PortFree(c, s)
    /\ field' = [field EXCEPT ![s] = c]
    /\ sock' = [sock EXCEPT ![c][s] = "listening"]
    /\ Advance(c, s)
    /\ UNCHANGED <<phase, waiting, exit>>

\* start(): the bind is rejected, and the catch block runs stop() from the
\* beginning.
BindFails(c, s) ==
    /\ Running
    /\ phase[c] = "start" /\ step[c] = s
    /\ ~PortFree(c, s) \/ BindMayFail
    /\ field' = [field EXCEPT ![s] = c]
    /\ sock' = [sock EXCEPT ![c][s] = "failed"]
    /\ phase' = [phase EXCEPT ![c] = "abort"]
    /\ step' = [step EXCEPT ![c] = First]
    /\ UNCHANGED <<waiting, exit>>

\* start(): the UDP socket fails to bind, but not because the port is taken or
\* not allowed: startUdp then neither resolves nor rejects, and the call waits
\* for ever.
BindHangs(c, s) ==
    /\ Running
    /\ phase[c] = "start" /\ step[c] = s /\ s = "dns"
    /\ BindMayFail
    /\ field' = [field EXCEPT ![s] = c]
    /\ sock' = [sock EXCEPT ![c][s] = "failed"]
    /\ phase' = [phase EXCEPT ![c] = "hung"]
    /\ UNCHANGED <<step, waiting, exit>>

\* A call that is through with its last subsystem: a reload goes from stop()
\* to start() and from start() to its end, a failed start() ends the process,
\* and shutdown() begins to close the control plane.
Turn(p) ==
    /\ Running
    /\ step[p] = "end"
    /\ \/ /\ phase[p] = "stop" /\ p # Shutdown
          /\ phase' = [phase EXCEPT ![p] = "start"]
          /\ step' = [step EXCEPT ![p] = First]
          /\ UNCHANGED exit
       \/ /\ phase[p] = "start"
          /\ phase' = [phase EXCEPT ![p] = "done"]
          /\ UNCHANGED <<step, exit>>
       \/ /\ phase[p] = "abort"
          /\ exit' = "1"
          /\ UNCHANGED <<phase, step>>
       \/ /\ phase[p] = "stop" /\ p = Shutdown
          /\ phase' = [phase EXCEPT ![p] = "closing"]
          /\ UNCHANGED <<step, exit>>
    /\ UNCHANGED <<field, sock, waiting>>

\* ControlPlane.stop(): the last of its connections is gone, and shutdown()
\* ends the process.  Until then requests under way may still update the
\* configuration.
ControlPlaneClosed ==
    /\ Running
    /\ AllBlocked
    /\ phase[Shutdown] = "closing"
    /\ phase' = [phase EXCEPT ![Shutdown] = "done"]
    /\ exit' = "0"
    /\ UNCHANGED <<field, sock, step, waiting>>

\* The timer of shutdown() fires after 10 seconds.
ForceExitLate ==
    /\ Running
    /\ phase[Shutdown] = "done"
    /\ exit' = "1"
    /\ UNCHANGED <<field, sock, phase, step, waiting>>

ForceExit ==
    /\ Running
    /\ AllBlocked
    /\ phase[Shutdown] \in {"stop", "closing"}
    /\ exit' = "1"
    /\ UNCHANGED <<field, sock, phase, step, waiting>>

\* The steps the event loop takes of itself for one call.
Work(p) ==
    \/ \E s \in Subsystems : PassOver(p, s) \/ Close(p, s)
    \/ p \in Configs /\ \E s \in Subsystems : Open(p, s) \/ BindFails(p, s) \/ BindHangs(p, s)
    \/ Turn(p)

Next ==
    \/ \E u \in Reloads : Notify(u)
    \/ Signal
    \/ \E p \in Procs : Work(p)
    \/ \E c \in Configs, s \in Subsystems : Drained(c, s)
    \/ ControlPlaneClosed
    \/ ForceExit

\* The event loop runs every call, and the timer fires.  Nothing makes the
\* connections of a closing listener end: that is up to their other side.
Fairness ==
    /\ \A p \in Procs : WF_vars(Work(p))
    /\ WF_vars(ForceExit)

Spec == Init /\ [][Next]_vars /\ Fairness

\* Updates far enough apart: none arrives while a reload is under way, which
\* one that hangs is for ever.
Settled(u) == phase[u] \in {"idle", "done"}
FarApart ==
    \A u \in Reloads :
        phase[u] = "idle" /\ phase'[u] # "idle" => \A v \in Reloads : Settled(v)

SerialSpec == Init /\ [][Next /\ FarApart]_vars /\ Fairness

-----------------------------------------------------------------------------

TypeOK ==
    /\ field \in [Subsystems -> Configs \cup {None}]
    /\ sock \in [Configs -> [Subsystems -> {"new", "listening", "closing", "closed", "failed"}]]
    /\ phase \in [Procs -> {"idle", "stop", "start", "abort", "hung", "closing", "done"}]
    /\ step \in [Procs -> Subsystems \cup {"end"}]
    /\ waiting \in [Procs -> BOOLEAN]
    /\ exit \in {"no", "0", "1"}

\* The configuration of the last update that was accepted.
Latest == CHOOSE c \in Configs :
    /\ phase[c] # "idle"
    /\ \A d \in Configs : phase[d] # "idle" => d <= c

Quiescent ==
    /\ Running
    /\ phase[Shutdown] = "idle"
    /\ \A c \in Configs : Settled(c)

\* Once nothing is going on any more, no call under way and none that hangs,
\* all three listeners are up and serve the configuration accepted last: after
\* reloads one at a time, as overlapping ones may end the process.
QuietDaemonServesLatest ==
    Quiescent =>
        \A s \in Subsystems : field[s] = Latest /\ sock[Latest][s] = "listening"

\* A socket that accepts is one that stop() can find: no reload, of reloads one
\* at a time, loses the handle of a listener that is still up.
NoLostListener ==
    Running =>
        \A c \in Configs, s \in Subsystems :
            sock[c][s] = "listening" => field[s] = c

\* README.md ("an http api to update the server configuration dynamically"):
\* where no port is taken by anybody else, an accepted update does not end the
\* process; only shutdown does.
UpdatesKeepDaemonRunning ==
    ~BindMayFail /\ phase[Shutdown] = "idle" => Running

\* stop() awaits the connections of a listener that is closing.
AwaitsConnections(p) ==
    /\ waiting[p] /\ field[step[p]] # None
    /\ sock[field[step[p]]][step[p]] = "closing"

\* A reload gets to its end, or the process does, unless it is held for ever by
\* something outside: a connection that does not end, or a UDP bind that fails
\* with an error nobody handles.  No call of stop() waits for a listener that
\* is closed already, or that another call took from it.
EveryReloadEnds ==
    \A u \in Reloads :
        \/ phase[u] # "idle" ~> (phase[u] \in {"done", "hung"} \/ ~Running)
        \/ <>[]AwaitsConnections(u)
=============================================================================
