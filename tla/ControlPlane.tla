----------------------------- MODULE ControlPlane -----------------------------
(***************************************************************************)
(* The daemon with its control plane, in one process: a request that       *)
(* ConfigHandler admits becomes an update of ConfigService, the update     *)
(* that goes live becomes a reload of ZonzonDaemon, and the end of the     *)
(* daemon, by a signal or a failed bind, is the end of all of it.          *)
(*                                                                         *)
(* Callbacks of files, connections and timers run while no other part can  *)
(* go on by itself.                                                        *)
(***************************************************************************)
EXTENDS Integers, Sequences, FiniteSets

CONSTANTS
    Requests, Body, Boot, Torn, Down,      \* of ConfigService
    PortsGiven, MaxCrashes,
    Sent(_), MaxWindow, MaxSalts,          \* of ConfigHandler, whose Calls are the Requests
    PortOf(_, _), BindMayFail, None        \* of ZonzonDaemon

Methods == {"GET", "PUT", "POST", "DELETE"}

ASSUME SentAssumption ==
    \A r \in Requests : /\ Sent(r).path \in {"config", "metrics", "other", "malformed"}
                        /\ Sent(r).method \in Methods
                        /\ Sent(r).authentic \in BOOLEAN /\ Sent(r).json \in BOOLEAN
                        /\ Sent(r).work.window \in Nat /\ Sent(r).work.salt \in Nat

\* The process may die: the end of the daemon is the end of the service.
ASSUME BoundsAssumption ==
    /\ MaxWindow \in Nat /\ MaxSalts \in Nat \ {0} /\ MaxCrashes \in Nat \ {0}
    /\ IsFiniteSet(Requests)

\* Each request updates once at most.
Updates == Cardinality(Requests)

ASSUME DaemonAssumption == BindMayFail \in BOOLEAN /\ None \notin 0..Updates

VARIABLES
    locked, queue, pc, temp, disk, config, arrivals, crashes,
    at, seenNonces, currentPoWWindow, window, salt, admitted,
    field, sock, phase, step, waiting, exit,
    applied        \* history: the requests whose configuration went live, in order

service == <<locked, queue, pc, temp, disk, config, arrivals, crashes>>
handler == <<at, seenNonces, currentPoWWindow, window, salt, admitted>>
daemon == <<field, sock, phase, step, waiting, exit>>
vars == <<service, handler, daemon, applied>>

Service == INSTANCE ConfigService
Handler == INSTANCE ConfigHandler WITH Calls <- Requests
Daemon == INSTANCE ZonzonDaemon

\* As ConfigService assumes.
ASSUME ServiceAssumption ==
    /\ \A r \in Requests : Body[r] \in Service!Configs /\ Body[r].body = r
    /\ PortsGiven \in BOOLEAN
    /\ Boot \notin Requests /\ {Torn, Down} \cap Service!Configs = {} /\ Torn # Down

-----------------------------------------------------------------------------

\* Header secrets are the matter of ConfigService alone.
Init ==
    /\ Service!Init /\ disk.secret = "none"
    /\ Handler!Init /\ Daemon!Init
    /\ applied = <<>>

\* The control plane listens from the end of the first start() to the end of
\* the shutdown's stop().
Listening == Daemon!Running /\ phase[0] = "done" /\ phase[Daemon!Shutdown] # "closing"
Idle == Daemon!Running /\ Daemon!AllBlocked

\* A request that is answered without an update, or has more to come.
Handle(r) ==
    /\ Idle
    /\ \/ Listening /\ Handler!Arrive(r)
       \/ Handler!BodyFails(r) \/ Handler!Deny(r) \/ Handler!Refuse(r)
       \/ Handler!Admit(r) /\ at'[r] # "updating"
    /\ UNCHANGED <<service, daemon, applied>>

\* The body of a PUT is admitted, and updateConfig is called with it.
Submit(r) ==
    /\ Idle
    /\ Handler!Admit(r) /\ at'[r] = "updating"
    /\ Service!AcquireFree(r) \/ Service!Enqueue(r)
    /\ UNCHANGED <<daemon, applied>>

\* updateConfig goes on, or gives up, or goes through: then its subscriber
\* starts a reload and does not wait for it.
Write(r) ==
    /\ Idle
    /\ Service!StartWrite(r) \/ Service!FinishWrite(r) \/ Service!Rename(r)
    /\ UNCHANGED <<handler, daemon, applied>>

GiveUp(r) ==
    /\ Idle
    /\ Service!RejectInvalid(r) \/ Service!FailFileOperation(r)
    /\ Handler!Settle(r, "400")
    /\ UNCHANGED <<daemon, applied>>

GoLiveUnheard(r) ==
    /\ Idle
    /\ Service!Commit(r)
    /\ Handler!Settle(r, "200")
    /\ applied' = Append(applied, r)
    /\ UNCHANGED daemon

GoLive(r) ==
    /\ Service!Commit(r)
    /\ Handler!Settle(r, "200")
    /\ Daemon!Notify(Len(applied) + 1)
    /\ applied' = Append(applied, r)

\* A step of the daemon after which the process is there, or is not.
Ends(A) ==
    /\ A
    /\ IF exit' = "no" THEN UNCHANGED <<service, handler>> ELSE Service!Crash /\ Handler!Die
    /\ UNCHANGED applied

Work(p) == Ends(Daemon!Work(p))
ForceExit == Ends(Daemon!ForceExit)
Drained == Ends(\E c \in Daemon!Configs, s \in Daemon!Subsystems : Daemon!Drained(c, s))
Signal == Ends(Daemon!Signal)

\* The server of the control plane is closed once its requests are answered.
Closed ==
    /\ \A r \in Requests : at[r] \notin Handler!Open
    /\ Ends(Daemon!ControlPlaneClosed)

NextWindow == Handler!NextWindow /\ Idle /\ UNCHANGED <<service, daemon, applied>>

Next ==
    \/ \E r \in Requests : Handle(r) \/ Submit(r) \/ Write(r) \/ GiveUp(r) \/ GoLive(r)
    \/ \E p \in Daemon!Procs : Work(p)
    \/ Drained \/ Signal \/ Closed \/ ForceExit \/ NextWindow

\* As of the parts: the event loop runs every call, and the timer fires.
Spec ==
    /\ Init /\ [][Next]_vars
    /\ \A p \in Daemon!Procs : WF_vars(Work(p))
    /\ WF_vars(ForceExit)

-----------------------------------------------------------------------------

\* What is served by the instances of reload u.
ConfigOf(u) == IF u = 0 THEN Boot ELSE applied[u]

\* When nothing is going on any more, all listeners are up and serve what is in
\* the configuration file: the order in which updates were written is the order
\* in which their reloads end, although nobody waits for a reload.  (Before the
\* first update, the ports are those of the command line where it gives any.)
QuietDaemonServesFile ==
    /\ Daemon!Quiescent
    /\ \A r \in Requests : at[r] \notin Handler!Open
    => \A s \in Daemon!Subsystems :
        /\ field[s] # None
        /\ sock[field[s]][s] = "listening"
        /\ ConfigOf(field[s]) = disk.body

\* A proof of work admits one request.
NonceAdmitsOnce == Handler!NonceAdmitsOnce

\* A signal ends the process, whatever requests and reloads are under way.
ShutdownEnds == phase[Daemon!Shutdown] # "idle" ~> exit # "no"
=============================================================================
