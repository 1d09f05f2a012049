---------------------------- MODULE ConfigService ----------------------------
(***************************************************************************)
(* ConfigService of the control plane: PUT requests that replace the       *)
(* server configuration, serialised by PessimisticLock, each written to a  *)
(* temporary file, renamed over the configuration file and only then made  *)
(* the configuration in memory.  The daemon process may die between any    *)
(* two steps and be started again from the file.                           *)
(*                                                                         *)
(* A configuration is abstracted to whose body it holds, whether the schema*)
(* accepts it, in what form it carries an http_proxy header secret and     *)
(* whether its ports are its own or those of the command line.             *)
(***************************************************************************)
EXTENDS Naturals, Sequences

CONSTANTS
    Requests,      \* the PUT requests, each submitted once
    Body,          \* Body[r]: the configuration request r carries
    Boot,          \* the configuration the daemon was first started from
    Torn,          \* the content of a truncated configuration file
    Down,          \* the value of config while the daemon does not run
    PortsGiven,    \* whether the command line gives --port or --cp-port
    MaxCrashes     \* bound: how often the daemon process dies

\* A "long" header value is one the schema accepts in the clear (8192
\* characters at most) and no longer once it is sealed.
Secrets == {"none", "plain", "long", "sealed"}

Configs == [body : Requests \cup {Boot}, valid : BOOLEAN, secret : Secrets,
            ports : {"own", "given"}]

ASSUME BodyAssumption == \A r \in Requests : Body[r] \in Configs /\ Body[r].body = r
ASSUME PortsAssumption == PortsGiven \in BOOLEAN
ASSUME BootAssumption == Boot \notin Requests
ASSUME DistinctValues == Torn \notin Configs /\ Down \notin Configs /\ Torn # Down
ASSUME CrashAssumption == MaxCrashes \in Nat

VARIABLES
    locked,        \* PessimisticLock.locked
    queue,         \* PessimisticLock.queue: requests waiting in acquire()
    pc,            \* how far updateConfig has come for each request
    temp,          \* the temporary file of each request
    disk,          \* the content of the configuration file
    config,        \* ConfigService.config, Down while the process is dead
    arrivals,      \* history: the requests of this process, as they came
    crashes        \* how often the process died

lockVars == <<locked, queue>>
vars == <<locked, queue, pc, temp, disk, config, arrivals, crashes>>

\* The stages of updateConfig at which the request owns the lock.
Owning == {"acquired", "writing", "renaming", "renamed"}
InFlight == Owning \cup {"queued"}
Answered == {"ok", "rejected"}

(***************************************************************************)
(* encryptSecret on every http_proxy header: what is already encrypted     *)
(* stays as it is.  The result is written in hexadecimal, more than twice  *)
(* as long, and is not measured against the schema again.                  *)
(***************************************************************************)
Sealed(c) ==
    [c EXCEPT !.secret = IF c.secret = "none" THEN "none" ELSE "sealed",
              !.valid = c.valid /\ c.secret # "long"]

Stored(r) == Sealed(Body[r])

\* The update is accepted, and the file it leaves is one the schema refuses.
Outgrown(r) == Body[r].valid /\ Body[r].secret = "long"

\* startEngine on a configuration file: the ports given on the command line
\* replace those of the file.
Started(c) == IF PortsGiven THEN [c EXCEPT !.ports = "given"] ELSE c

(***************************************************************************)
(* PessimisticLock.release: the lock passes to the request that has waited *)
(* longest without ever being free.  The outcome is r's.                   *)
(***************************************************************************)
ReleaseNewest(r, outcome) ==
    \/ /\ queue = <<>>
       /\ locked' = FALSE
       /\ queue' = queue
       /\ pc' = [pc EXCEPT ![r] = outcome]
    \/ /\ queue # <<>>
       /\ queue' = SubSeq(queue, 1, Len(queue) - 1)
       /\ pc' = [pc EXCEPT ![r] = outcome, ![queue[Len(queue)]] = "acquired"]
       /\ UNCHANGED locked

ReleaseForgetful(r, outcome) ==
    /\ locked' = FALSE
    /\ pc' = [pc EXCEPT ![r] = outcome]
    /\ UNCHANGED queue

Release(r, outcome) ==
    \/ /\ queue = <<>>
       /\ locked' = FALSE
       /\ queue' = queue
       /\ pc' = [pc EXCEPT ![r] = outcome]
    \/ /\ queue # <<>>
       /\ queue' = Tail(queue)
       /\ pc' = [pc EXCEPT ![r] = outcome, ![Head(queue)] = "acquired"]
       /\ UNCHANGED locked

-----------------------------------------------------------------------------

\* The daemon runs, started from the file.
Init ==
    /\ locked = FALSE
    /\ queue = <<>>
    /\ pc = [r \in Requests |-> "new"]
    /\ temp = [r \in Requests |-> "none"]
    /\ disk \in {c \in Configs : c.body = Boot /\ c.valid /\ c.ports = "own"}
    /\ config = Started(disk)
    /\ arrivals = <<>>
    /\ crashes = 0

\* updateConfig is called: acquire() takes the free lock.
AcquireFree(r) ==
    /\ config # Down
    /\ pc[r] = "new"
    /\ ~locked
    /\ locked' = TRUE
    /\ pc' = [pc EXCEPT ![r] = "acquired"]
    /\ arrivals' = Append(arrivals, r)
    /\ UNCHANGED <<queue, temp, disk, config, crashes>>

\* updateConfig is called: acquire() queues the resolver of its promise.
EnqueueUnlocked(r) ==
    /\ config # Down
    /\ pc[r] = "new"
    /\ locked
    /\ pc' = [pc EXCEPT ![r] = "acquired"]
    /\ arrivals' = Append(arrivals, r)
    /\ UNCHANGED <<locked, queue, temp, disk, config, crashes>>

Enqueue(r) ==
    /\ config # Down
    /\ pc[r] = "new"
    /\ locked
    /\ queue' = Append(queue, r)
    /\ pc' = [pc EXCEPT ![r] = "queued"]
    /\ arrivals' = Append(arrivals, r)
    /\ UNCHANGED <<locked, temp, disk, config, crashes>>

\* validateServerConfig throws: the finally block releases the lock.
RejectInvalid(r) ==
    /\ pc[r] = "acquired"
    /\ ~Body[r].valid
    /\ Release(r, "rejected")
    /\ UNCHANGED <<temp, disk, config, arrivals, crashes>>

\* The configuration is accepted and sealed; fs.writeFile is under way.
StartWrite(r) ==
    /\ pc[r] = "acquired"
    /\ Body[r].valid
    /\ temp' = [temp EXCEPT ![r] = "partial"]
    /\ pc' = [pc EXCEPT ![r] = "writing"]
    /\ UNCHANGED <<locked, queue, disk, config, arrivals, crashes>>

\* fs.writeFile resolves; fs.rename is under way.
FinishWrite(r) ==
    /\ pc[r] = "writing"
    /\ temp' = [temp EXCEPT ![r] = "full"]
    /\ pc' = [pc EXCEPT ![r] = "renaming"]
    /\ UNCHANGED <<locked, queue, disk, config, arrivals, crashes>>

\* fs.writeFile or fs.rename rejects: what is left of the temporary file stays.
FailFileOperationDirty(r) ==
    /\ pc[r] \in {"writing", "renaming"}
    /\ Release(r, "rejected")
    /\ config' = Stored(r)
    /\ UNCHANGED <<temp, disk, arrivals, crashes>>

FailFileOperation(r) ==
    /\ pc[r] \in {"writing", "renaming"}
    /\ Release(r, "rejected")
    /\ UNCHANGED <<temp, disk, config, arrivals, crashes>>

\* The file system replaces the configuration file; Node does not know yet.
Rename(r) ==
    /\ pc[r] = "renaming"
    /\ disk' = Stored(r)
    /\ temp' = [temp EXCEPT ![r] = "none"]
    /\ pc' = [pc EXCEPT ![r] = "renamed"]
    /\ UNCHANGED <<locked, queue, config, arrivals, crashes>>

\* fs.rename resolves: the configuration goes live, the subscribers are
\* called, the lock is released and the request is answered 200.
CommitUnawaited(r) ==
    /\ pc[r] \in {"renaming", "renamed"}
    /\ config' = Stored(r)
    /\ Release(r, "ok")
    /\ UNCHANGED <<temp, disk, arrivals, crashes>>

Commit(r) ==
    /\ pc[r] = "renamed"
    /\ config' = Stored(r)
    /\ Release(r, "ok")
    /\ UNCHANGED <<temp, disk, arrivals, crashes>>

\* The process dies; temporary files and the configuration file survive it.
Crash ==
    /\ config # Down
    /\ crashes < MaxCrashes
    /\ crashes' = crashes + 1
    /\ config' = Down
    /\ locked' = FALSE
    /\ queue' = <<>>
    /\ pc' = [r \in Requests |-> IF pc[r] \in InFlight THEN "lost" ELSE pc[r]]
    /\ arrivals' = <<>>
    /\ UNCHANGED <<temp, disk>>

\* startEngine: loadConfig, the ports of the command line and
\* validateServerConfig; with a file that does not parse or validate the
\* process exits and stays Down.
Restart ==
    /\ config = Down
    /\ disk # Torn
    /\ disk.valid
    /\ config' = Started(disk)
    /\ UNCHANGED <<locked, queue, pc, temp, disk, arrivals, crashes>>

\* What the control plane does of itself once a request is in.
Progress(r) ==
    \/ RejectInvalid(r)
    \/ StartWrite(r)
    \/ FinishWrite(r)
    \/ FailFileOperation(r)
    \/ Rename(r)
    \/ Commit(r)

Next ==
    \/ \E r \in Requests : AcquireFree(r) \/ Enqueue(r) \/ Progress(r)
    \/ Crash
    \/ Restart

Spec == Init /\ [][Next]_vars

\* Microtasks run and file operations settle; nobody is obliged to send a
\* request, to kill the daemon or to start it again.
FairSpec == Spec /\ \A r \in Requests : WF_vars(Progress(r))

-----------------------------------------------------------------------------

TypeOK ==
    /\ locked \in BOOLEAN
    /\ queue \in Seq(Requests)
    /\ pc \in [Requests -> {"new", "lost"} \cup InFlight \cup Answered]
    /\ temp \in [Requests -> {"none", "partial", "full"}]
    /\ disk \in Configs \cup {Torn}
    /\ config \in Configs \cup {Down}
    /\ arrivals \in Seq(Requests)
    /\ crashes \in 0..MaxCrashes

\* One updateConfig at a time is past acquire(), and the lock is taken exactly
\* while one is: acquire() and release() hand it over without losing it.
ExactlyOneOwner ==
    /\ \A r, s \in Requests : pc[r] \in Owning /\ pc[s] \in Owning => r = s
    /\ locked <=> \E r \in Requests : pc[r] \in Owning

\* Updates are carried out in the order in which they were received: none is
\* past acquire() while one received before it still waits.
FirstComeFirstServed ==
    \A i, j \in DOMAIN arrivals :
        i < j /\ pc[arrivals[i]] = "queued" => pc[arrivals[j]] = "queued"

\* The configuration in memory is the one in the file, or what a start with
\* the command line's ports makes of it, whatever failed on the way, except
\* between the rename and its callback.
LiveIsDurable ==
    \/ config = Down
    \/ config \in {disk, Started(disk)}
    \/ \E r \in Requests : pc[r] = "renamed" /\ disk = Stored(r)

\* The file is whole at every instant of an update, and a daemon that died
\* can be started again from it, unless the update that wrote it carried a
\* header that the schema accepts in the clear and refuses sealed.
Restartable ==
    /\ disk # Torn
    /\ disk.valid \/ \E r \in Requests : Outgrown(r) /\ disk = Stored(r)

\* What the service itself put on disk or in memory holds no header secret in
\* the clear; only what the daemon was started from may.
UpdatesAreSealed ==
    \A c \in {disk, config} \ {Torn, Down} :
        c.body # Boot => c.secret \in {"none", "sealed"}

\* Every update the control plane took is answered, or its daemon died: the
\* lock is never left to a request that will not release it.
EveryUpdateSettles ==
    \A r \in Requests : pc[r] \in InFlight ~> pc[r] \in Answered \cup {"lost"}

\* The abstract register, seen through the file and the field.
AbstractStatus ==
    [r \in Requests |->
        IF pc[r] \in {"queued", "acquired", "writing", "renaming"} THEN "pending"
        ELSE IF pc[r] = "renamed" THEN "applied"
        ELSE pc[r]]

Accepted(r) == Body[r].valid

Register == INSTANCE ConfigRegister WITH
    durable  <- disk,
    live     <- config,
    status   <- AbstractStatus,
    Value    <- Stored,
    Storable <- Accepted,
    Loaded   <- Started

\* An update is atomic and durable: it implements the register, with the
\* rename as the instant it takes effect.
ImplementsRegister == Register!Spec
=============================================================================
