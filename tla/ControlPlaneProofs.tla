-------------------------- MODULE ControlPlaneProofs --------------------------
(***************************************************************************)
(* Theorems about ControlPlane and the ConfigHandler in it, for any         *)
(* requests, whatever they carry, and any number of windows and processes:  *)
(* a proof of work admits one request, and the daemon serves its file.      *)
(* What ConfigServiceProofs and ZonzonDaemonProofs prove of the parts holds *)
(* in the composition, since each of its steps is one of theirs or none.    *)
(***************************************************************************)
EXTENDS ControlPlane, FiniteSetTheorems, FunctionTheorems, TLAPS

\* What was admitted carries the salt of this process or of one before it, and
\* if of this, was mined for a window that has been entered.
AdmittedIsPast ==
    \A r \in admitted :
        /\ Sent(r).work.salt <= salt
        /\ Sent(r).work.salt = salt => Sent(r).work.window <= currentPoWWindow

\* The nonces that were admitted in the window of seenNonces are in it.
AdmittedIsSeen ==
    \A r \in admitted :
        Sent(r).work.salt = salt /\ Sent(r).work.window = currentPoWWindow
            => Sent(r).work.nonce \in seenNonces

HandlerInv ==
    /\ Handler!TypeOK
    /\ currentPoWWindow <= window
    /\ AdmittedIsPast
    /\ AdmittedIsSeen
    /\ Handler!NonceAdmitsOnce

-----------------------------------------------------------------------------
(* ConfigHandler by itself.                                                  *)

LEMMA WorkTyped ==
    ASSUME NEW r \in Requests
    PROVE  Sent(r).work.salt \in Nat /\ Sent(r).work.window \in Nat
  BY SentAssumption

\* Nothing is admitted, and nothing forgotten.
LEMMA OnlyMoves ==
    ASSUME HandlerInv, NEW r \in Requests,
           Handler!Arrive(r) \/ Handler!BodyFails(r) \/ Handler!Deny(r)
              \/ Handler!Settle(r, "200") \/ Handler!Settle(r, "400")
    PROVE  HandlerInv'
<1>1. UNCHANGED <<seenNonces, currentPoWWindow, window, salt, admitted>>
  BY DEF Handler!Arrive, Handler!BodyFails, Handler!Deny, Handler!Settle
<1>2. PICK s \in {"reading"} \cup Handler!Codes : at' = [at EXCEPT ![r] = s]
  BY DEF Handler!Arrive, Handler!BodyFails, Handler!Deny, Handler!Settle, Handler!Move, Handler!Codes
<1>3. at' \in [Requests -> {"new", "lost"} \cup Handler!Open \cup Handler!Codes]
  BY <1>2 DEF HandlerInv, Handler!TypeOK, Handler!Open
<1>4. QED
  BY <1>1, <1>3 DEF HandlerInv, Handler!TypeOK, AdmittedIsPast, AdmittedIsSeen, Handler!NonceAdmitsOnce

\* What Refuse and Admit remember of the nonces is what AdmittedIsSeen needs in
\* the window of the clock.
LEMMA SeenInWindow ==
    ASSUME HandlerInv, NEW r \in admitted,
           Sent(r).work.salt = salt, Sent(r).work.window = window
    PROVE  Sent(r).work.nonce \in Handler!Seen
<1>1. r \in Requests /\ window \in Nat /\ currentPoWWindow \in Nat
  BY DEF HandlerInv, Handler!TypeOK
<1>2. window <= currentPoWWindow /\ currentPoWWindow <= window
  BY DEF HandlerInv, AdmittedIsPast
<1>3. currentPoWWindow = window
  BY <1>1, <1>2
<1>4. QED
  BY <1>3 DEF HandlerInv, AdmittedIsSeen, Handler!Seen

\* The turn of the window: verifyProofOfWork forgets the nonces of another.
LEMMA Refused ==
    ASSUME HandlerInv, NEW r \in Requests, Handler!Refuse(r)
    PROVE  HandlerInv'
<1>1. /\ at' \in [Requests -> {"new", "lost"} \cup Handler!Open \cup Handler!Codes]
      /\ currentPoWWindow' = window /\ seenNonces' = Handler!Seen
      /\ UNCHANGED <<window, salt, admitted>>
      /\ window \in Nat /\ salt \in Nat /\ currentPoWWindow \in Nat
      /\ admitted \subseteq Requests /\ currentPoWWindow <= window
  BY DEF HandlerInv, Handler!TypeOK, Handler!Refuse, Handler!Move, Handler!Codes
<1>2. AdmittedIsPast'
  <2> SUFFICES ASSUME NEW s \in admitted
               PROVE  /\ Sent(s).work.salt <= salt
                      /\ Sent(s).work.salt = salt => Sent(s).work.window <= window
    BY <1>1 DEF AdmittedIsPast
  <2>1. Sent(s).work.window \in Nat
    BY <1>1, WorkTyped
  <2>2. QED
    BY <1>1, <2>1 DEF HandlerInv, AdmittedIsPast
<1>3. AdmittedIsSeen'
  BY <1>1, SeenInWindow DEF AdmittedIsSeen
<1>4. QED
  BY <1>1, <1>2, <1>3 DEF HandlerInv, Handler!TypeOK, Handler!NonceAdmitsOnce

\* A proof of work that is admitted is new: one admitted before would be of this
\* process and of the window of the clock, and its nonce among those seen.
LEMMA Admitted ==
    ASSUME HandlerInv, NEW r \in Requests, Handler!Admit(r)
    PROVE  HandlerInv'
<1>1. /\ at' \in [Requests -> {"new", "lost"} \cup Handler!Open \cup Handler!Codes]
      /\ currentPoWWindow' = window
      /\ seenNonces' = Handler!Seen \cup {Sent(r).work.nonce}
      /\ admitted' = admitted \cup {r}
      /\ UNCHANGED <<window, salt>>
      /\ window \in Nat /\ salt \in Nat /\ currentPoWWindow \in Nat
      /\ admitted \subseteq Requests /\ currentPoWWindow <= window
  BY DEF HandlerInv, Handler!TypeOK, Handler!Admit, Handler!Move, Handler!Codes, Handler!Open
<1>2. /\ Sent(r).work.nonce \notin Handler!Seen
      /\ Sent(r).work.salt = salt /\ Sent(r).work.window = window
  BY DEF Handler!Admit, Handler!Solves
<1>3. AdmittedIsPast'
  <2> SUFFICES ASSUME NEW s \in admitted'
               PROVE  /\ Sent(s).work.salt <= salt
                      /\ Sent(s).work.salt = salt => Sent(s).work.window <= window
    BY <1>1 DEF AdmittedIsPast
  <2>1. Sent(s).work.window \in Nat /\ Sent(s).work.salt \in Nat
    BY <1>1, WorkTyped
  <2>2. CASE s = r
    BY <1>1, <1>2, <2>2
  <2>3. CASE s \in admitted
    BY <1>1, <2>1, <2>3 DEF HandlerInv, AdmittedIsPast
  <2>4. QED
    BY <1>1, <2>2, <2>3
<1>4. AdmittedIsSeen'
  BY <1>1, SeenInWindow DEF AdmittedIsSeen
<1>5. \A s \in admitted : Sent(s).work # Sent(r).work
  BY <1>2, SeenInWindow
<1>6. Handler!NonceAdmitsOnce'
  BY <1>1, <1>5 DEF HandlerInv, Handler!NonceAdmitsOnce
<1>7. QED
  BY <1>1, <1>3, <1>4, <1>6 DEF HandlerInv, Handler!TypeOK

\* Another process has another salt, which nothing admitted carries.
LEMMA Restarted ==
    ASSUME HandlerInv, Handler!Die
    PROVE  HandlerInv'
<1>1. /\ at' \in [Requests -> {"new", "lost"} \cup Handler!Open \cup Handler!Codes]
      /\ salt' = salt + 1 /\ currentPoWWindow' = 0
      /\ UNCHANGED <<window, admitted>>
      /\ window \in Nat /\ salt \in Nat /\ admitted \subseteq Requests
  BY DEF HandlerInv, Handler!TypeOK, Handler!Die
<1>2. \A s \in admitted : Sent(s).work.salt <= salt' /\ Sent(s).work.salt # salt'
  <2> TAKE s \in admitted
  <2>1. Sent(s).work.salt <= salt
    BY DEF HandlerInv, AdmittedIsPast
  <2>2. Sent(s).work.salt \in Nat
    BY <1>1, WorkTyped
  <2>3. QED
    BY <1>1, <2>1, <2>2
<1>3. QED
  BY <1>1, <1>2 DEF HandlerInv, Handler!TypeOK, AdmittedIsPast, AdmittedIsSeen, Handler!NonceAdmitsOnce

LEMMA WindowTurns ==
    ASSUME HandlerInv, Handler!NextWindow
    PROVE  HandlerInv'
  BY DEF HandlerInv, Handler!TypeOK, Handler!NextWindow, AdmittedIsPast, AdmittedIsSeen,
         Handler!NonceAdmitsOnce

\* The inductive invariant of ConfigHandler.
THEOREM HandlerInvariant == Handler!Spec => []HandlerInv
<1>1. Handler!Init => HandlerInv
  BY DEF Handler!Init, HandlerInv, Handler!TypeOK, AdmittedIsPast, AdmittedIsSeen,
         Handler!NonceAdmitsOnce
<1>2. HandlerInv /\ [Handler!Next]_(Handler!handlerVars) => HandlerInv'
  <2> SUFFICES ASSUME HandlerInv, [Handler!Next]_(Handler!handlerVars) PROVE HandlerInv'
    OBVIOUS
  <2>1. ASSUME NEW r \in Requests,
               Handler!Arrive(r) \/ Handler!BodyFails(r) \/ Handler!Deny(r)
                 \/ Handler!Settle(r, "200") \/ Handler!Settle(r, "400")
        PROVE  HandlerInv'
    BY <2>1, OnlyMoves
  <2>2. ASSUME NEW r \in Requests, Handler!Refuse(r) PROVE HandlerInv'
    BY <2>2, Refused
  <2>3. ASSUME NEW r \in Requests, Handler!Admit(r) PROVE HandlerInv'
    BY <2>3, Admitted
  <2>4. ASSUME Handler!Die PROVE HandlerInv'
    BY <2>4, Restarted
  <2>5. ASSUME Handler!NextWindow PROVE HandlerInv'
    BY <2>5, WindowTurns
  <2>6. ASSUME UNCHANGED Handler!handlerVars PROVE HandlerInv'
    BY <2>6 DEF Handler!handlerVars, HandlerInv, Handler!TypeOK, AdmittedIsPast, AdmittedIsSeen,
                Handler!NonceAdmitsOnce
  <2>7. QED
    BY <2>1, <2>2, <2>3, <2>4, <2>5, <2>6 DEF Handler!Next
<1>3. QED
  BY <1>1, <1>2, PTL DEF Handler!Spec

\* One proof of work admits one request, over any number of windows of the clock
\* and of processes that take each other's place.
THEOREM WorkIsSpentOnce == Handler!Spec => []Handler!NonceAdmitsOnce
<1>1. HandlerInv => Handler!NonceAdmitsOnce
  BY DEF HandlerInv
<1>2. QED
  BY <1>1, HandlerInvariant, PTL

-----------------------------------------------------------------------------
(* The parts in the composition.                                             *)

\* What ConfigHandler does in the composition it does by itself.
LEMMA HandlerSteps == Next => [Handler!Next]_handler
<1> SUFFICES ASSUME Next PROVE Handler!Next \/ UNCHANGED handler
  OBVIOUS
<1>1. ASSUME NEW r \in Requests, Handle(r) PROVE Handler!Next
  BY <1>1 DEF Handle, Handler!Next
<1>2. ASSUME NEW r \in Requests, Submit(r) PROVE Handler!Next
  BY <1>2 DEF Submit, Handler!Next
<1>3. ASSUME NEW r \in Requests, Write(r) PROVE UNCHANGED handler
  BY <1>3 DEF Write
<1>4. ASSUME NEW r \in Requests, GiveUp(r) \/ GoLive(r) PROVE Handler!Next
  BY <1>4 DEF GiveUp, GoLive, Handler!Next
<1>5. ASSUME (\E p \in Daemon!Procs : Work(p)) \/ Drained \/ Signal \/ Closed \/ ForceExit
      PROVE  Handler!Die \/ UNCHANGED handler
  BY <1>5 DEF Work, Drained, Signal, Closed, ForceExit, Ends
<1>6. ASSUME NextWindow PROVE Handler!Next
  BY <1>6 DEF NextWindow, Handler!Next
<1>7. QED
  BY <1>1, <1>2, <1>3, <1>4, <1>5, <1>6 DEF Next, Handler!Next

\* And what ConfigService does, so that what is proved of it holds here as well.
LEMMA ServiceSteps == Next => [Service!Next]_service
<1> SUFFICES ASSUME Next PROVE Service!Next \/ UNCHANGED service
  OBVIOUS
<1>1. ASSUME NEW r \in Requests, Handle(r) \/ NextWindow PROVE UNCHANGED service
  BY <1>1 DEF Handle, NextWindow
<1>2. ASSUME NEW r \in Requests, Submit(r) \/ Write(r) \/ GiveUp(r) \/ GoLive(r)
      PROVE  Service!Next
  BY <1>2 DEF Submit, Write, GiveUp, GoLive, Service!Next, Service!Progress
<1>3. ASSUME (\E p \in Daemon!Procs : Work(p)) \/ Drained \/ Signal \/ Closed \/ ForceExit
      PROVE  Service!Crash \/ UNCHANGED service
  BY <1>3 DEF Work, Drained, Signal, Closed, ForceExit, Ends
<1>4. ASSUME NextWindow PROVE UNCHANGED service
  BY <1>4 DEF NextWindow
<1>5. QED
  BY <1>1, <1>2, <1>3, <1>4 DEF Next, Service!Next

-----------------------------------------------------------------------------
(* What went live, against the lock of ConfigService.                        *)

Stages == {"new", "lost"} \cup Service!InFlight \cup Service!Answered

\* The requests of q, all at stage s, none twice.
Distinct(q, s) ==
    /\ q \in Seq(Requests)
    /\ \A i \in 1..Len(q) : pc[q[i]] = s
    /\ \A i, j \in 1..Len(q) : q[i] = q[j] => i = j

\* Whoever is in the lock's queue waits, and what went live is settled.
LiveInv ==
    /\ pc \in [Requests -> Stages]
    /\ Distinct(queue, "queued")
    /\ Distinct(applied, "ok")

\* release() ends one request and wakes the next, which is in the queue once.
LEMMA Released ==
    ASSUME LiveInv, NEW r \in Requests, pc[r] \in Service!Owning,
           NEW outcome \in Service!Answered, Service!Release(r, outcome)
    PROVE  /\ pc' \in [Requests -> Stages] /\ pc'[r] = outcome
           /\ Distinct(queue, "queued")'
           /\ \A s \in Requests : pc[s] = "ok" => pc'[s] = "ok" /\ s # r
<1>0. pc[r] # "queued" /\ pc[r] # "ok"
  BY DEF Service!Owning
<1>1. CASE queue = <<>> /\ pc' = [pc EXCEPT ![r] = outcome] /\ queue' = queue
  BY <1>0, <1>1 DEF LiveInv, Distinct, Stages
<1>2. CASE /\ queue # <<>> /\ queue' = Tail(queue)
           /\ pc' = [pc EXCEPT ![r] = outcome, ![Head(queue)] = "acquired"]
  <2>1. /\ queue \in Seq(Requests) /\ Len(queue) \in Nat \ {0} /\ Head(queue) = queue[1]
        /\ Tail(queue) \in Seq(Requests) /\ Len(Tail(queue)) = Len(queue) - 1
        /\ \A i \in 1..Len(Tail(queue)) : Tail(queue)[i] = queue[i + 1]
    BY <1>2 DEF LiveInv, Distinct
  <2>2. queue[1] \in Requests /\ pc[queue[1]] = "queued"
    BY <2>1 DEF LiveInv, Distinct
  <2>3. pc' \in [Requests -> Stages] /\ pc'[r] = outcome
    BY <1>0, <1>2, <2>1, <2>2 DEF LiveInv, Stages, Service!InFlight, Service!Owning
  <2>4. \A s \in Requests : s # r /\ s # queue[1] => pc'[s] = pc[s]
    BY <1>2, <2>1 DEF LiveInv
  <2>5. ASSUME NEW i \in 1..Len(Tail(queue)) PROVE pc'[Tail(queue)[i]] = "queued"
    <3>1. i + 1 \in 1..Len(queue) /\ i + 1 # 1 /\ 1 \in 1..Len(queue)
      BY <2>1
    <3>2. queue[i + 1] # queue[1] /\ pc[queue[i + 1]] = "queued" /\ queue[i + 1] \in Requests
      BY <3>1 DEF LiveInv, Distinct
    <3>3. QED
      BY <1>0, <2>1, <2>4, <3>2
  <2>6. ASSUME NEW i \in 1..Len(Tail(queue)), NEW j \in 1..Len(Tail(queue)),
               Tail(queue)[i] = Tail(queue)[j]
        PROVE  i = j
    <3>1. i + 1 \in 1..Len(queue) /\ j + 1 \in 1..Len(queue)
      BY <2>1
    <3>2. i + 1 = j + 1
      BY <2>1, <2>6, <3>1 DEF LiveInv, Distinct
    <3>3. QED
      BY <2>1, <3>2
  <2>7. Distinct(queue, "queued")'
    BY <1>2, <2>1, <2>5, <2>6 DEF Distinct
  <2>8. ASSUME NEW s \in Requests, pc[s] = "ok" PROVE pc'[s] = "ok" /\ s # r
    BY <1>0, <2>2, <2>4, <2>8
  <2>9. QED
    BY <2>3, <2>7, <2>8
<1>3. QED
  BY <1>1, <1>2 DEF Service!Release

\* What went live stays settled, if every settled request does.
LEMMA LiveStays ==
    ASSUME LiveInv, applied' = applied,
           \A s \in Requests : pc[s] = "ok" => pc'[s] = "ok"
    PROVE  Distinct(applied, "ok")'
  BY DEF LiveInv, Distinct

\* A step of one request that leaves the lock's queue to the others.
LEMMA OneMoves ==
    ASSUME LiveInv, NEW r \in Requests, pc[r] \notin {"queued", "ok"},
           NEW s \in Stages, pc' = [pc EXCEPT ![r] = s],
           UNCHANGED <<queue, applied>>
    PROVE  LiveInv'
  BY DEF LiveInv, Distinct

LEMMA SubmitKeepsLive ==
    ASSUME LiveInv, NEW r \in Requests, Submit(r)
    PROVE  LiveInv'
<1>1. pc[r] = "new" /\ applied' = applied
  BY DEF Submit, Service!AcquireFree, Service!Enqueue
<1>2. CASE Service!AcquireFree(r)
  BY <1>1, <1>2, OneMoves DEF Service!AcquireFree, Stages, Service!InFlight, Service!Owning
<1>3. CASE Service!Enqueue(r)
  <2>1. pc' = [pc EXCEPT ![r] = "queued"] /\ queue' = Append(queue, r)
    BY <1>3 DEF Service!Enqueue
  <2>2. pc' \in [Requests -> Stages] /\ pc'[r] = "queued" /\ \A s \in Requests \ {r} : pc'[s] = pc[s]
    BY <2>1 DEF LiveInv, Stages, Service!InFlight
  <2>3. /\ queue \in Seq(Requests) /\ Len(queue) \in Nat /\ queue' \in Seq(Requests)
        /\ Len(queue') = Len(queue) + 1 /\ queue'[Len(queue) + 1] = r
        /\ \A i \in 1..Len(queue) : queue'[i] = queue[i]
    BY <2>1 DEF LiveInv, Distinct
  <2>4. \A i \in 1..Len(queue) : queue[i] # r /\ queue[i] \in Requests /\ pc[queue[i]] = "queued"
    BY <1>1, <2>3 DEF LiveInv, Distinct
  <2>5. \A i \in 1..Len(queue') : i \in 1..Len(queue) \/ i = Len(queue) + 1
    BY <2>3
  <2>6. \A i \in 1..Len(queue') : pc'[queue'[i]] = "queued"
    BY <2>2, <2>3, <2>4, <2>5
  <2>7. \A i, j \in 1..Len(queue') : queue'[i] = queue'[j] => i = j
    BY <2>3, <2>4, <2>5 DEF LiveInv, Distinct
  <2>8. \A s \in Requests : pc[s] = "ok" => pc'[s] = "ok"
    BY <1>1, <2>2
  <2>9. QED
    BY <1>1, <2>2, <2>3, <2>6, <2>7, <2>8, LiveStays DEF LiveInv, Distinct
<1>4. QED
  BY <1>2, <1>3 DEF Submit

LEMMA WriteKeepsLive ==
    ASSUME LiveInv, NEW r \in Requests, Write(r)
    PROVE  LiveInv'
<1>1. UNCHANGED <<queue, applied>> /\ pc[r] \notin {"queued", "ok"}
  BY DEF Write, Service!StartWrite, Service!FinishWrite, Service!Rename
<1>2. PICK s \in {"writing", "renaming", "renamed"} : pc' = [pc EXCEPT ![r] = s]
  BY DEF Write, Service!StartWrite, Service!FinishWrite, Service!Rename
<1>3. s \in Stages
  BY DEF Stages, Service!InFlight, Service!Owning
<1>4. QED
  BY <1>1, <1>2, <1>3, OneMoves

LEMMA GiveUpKeepsLive ==
    ASSUME LiveInv, NEW r \in Requests, GiveUp(r)
    PROVE  LiveInv'
<1>1. Service!Release(r, "rejected") /\ pc[r] \in Service!Owning /\ applied' = applied
  BY DEF GiveUp, Service!RejectInvalid, Service!FailFileOperation, Service!Owning
<1>2. "rejected" \in Service!Answered
  BY DEF Service!Answered
<1>3. /\ pc' \in [Requests -> Stages] /\ Distinct(queue, "queued")'
      /\ \A s \in Requests : pc[s] = "ok" => pc'[s] = "ok"
  BY <1>1, <1>2, Released
<1>4. QED
  BY <1>1, <1>3, LiveStays DEF LiveInv

LEMMA GoLiveKeepsLive ==
    ASSUME LiveInv, NEW r \in Requests, GoLive(r)
    PROVE  LiveInv'
<1>1. Service!Release(r, "ok") /\ pc[r] \in Service!Owning /\ applied' = Append(applied, r)
  BY DEF GoLive, Service!Commit, Service!Owning
<1>2. "ok" \in Service!Answered
  BY DEF Service!Answered
<1>3. /\ pc' \in [Requests -> Stages] /\ Distinct(queue, "queued")' /\ pc'[r] = "ok"
      /\ \A s \in Requests : pc[s] = "ok" => pc'[s] = "ok" /\ s # r
  BY <1>1, <1>2, Released
<1>4. /\ applied \in Seq(Requests) /\ Len(applied) \in Nat /\ applied' \in Seq(Requests)
      /\ Len(applied') = Len(applied) + 1 /\ applied'[Len(applied) + 1] = r
      /\ \A i \in 1..Len(applied) : applied'[i] = applied[i]
  BY <1>1 DEF LiveInv, Distinct
<1>5. \A i \in 1..Len(applied) : applied[i] # r /\ pc'[applied[i]] = "ok"
  BY <1>3, <1>4 DEF LiveInv, Distinct
<1>6. \A i \in 1..Len(applied') : i \in 1..Len(applied) \/ i = Len(applied) + 1
  BY <1>4
<1>7. \A i \in 1..Len(applied') : pc'[applied'[i]] = "ok"
  BY <1>3, <1>4, <1>5, <1>6
<1>8. \A i, j \in 1..Len(applied') : applied'[i] = applied'[j] => i = j
  BY <1>4, <1>5, <1>6 DEF LiveInv, Distinct
<1>9. QED
  BY <1>3, <1>4, <1>7, <1>8 DEF LiveInv, Distinct

LEMMA EndKeepsLive ==
    ASSUME LiveInv, applied' = applied, Service!Crash \/ UNCHANGED service
    PROVE  LiveInv'
<1>1. CASE Service!Crash
  <2>1. /\ pc' = [r \in Requests |-> IF pc[r] \in Service!InFlight THEN "lost" ELSE pc[r]]
        /\ queue' = <<>>
    BY <1>1 DEF Service!Crash
  <2>2. pc' \in [Requests -> Stages]
    BY <2>1 DEF LiveInv, Stages
  <2>3. \A s \in Requests : pc[s] = "ok" => pc'[s] = "ok"
    BY <2>1 DEF Service!InFlight, Service!Owning
  <2>4. Distinct(queue, "queued")'
    BY <2>1 DEF Distinct
  <2>5. QED
    BY <2>2, <2>3, <2>4, LiveStays DEF LiveInv
<1>2. CASE UNCHANGED service
  BY <1>2 DEF service, LiveInv, Distinct
<1>3. QED
  BY <1>1, <1>2

LEMMA LiveKept == LiveInv /\ [Next]_vars => LiveInv'
<1> SUFFICES ASSUME LiveInv, [Next]_vars PROVE LiveInv'
  OBVIOUS
<1>1. ASSUME NEW r \in Requests, Handle(r) PROVE LiveInv'
  BY <1>1, EndKeepsLive DEF Handle
<1>2. ASSUME NEW r \in Requests, Submit(r) \/ Write(r) \/ GiveUp(r) \/ GoLive(r)
      PROVE  LiveInv'
  BY <1>2, SubmitKeepsLive, WriteKeepsLive, GiveUpKeepsLive, GoLiveKeepsLive
<1>3. ASSUME (\E p \in Daemon!Procs : Work(p)) \/ Drained \/ Signal \/ Closed \/ ForceExit
      PROVE  LiveInv'
  <2>1. applied' = applied /\ (Service!Crash \/ UNCHANGED service)
    BY <1>3 DEF Work, Drained, Signal, Closed, ForceExit, Ends
  <2>2. QED
    BY <2>1, EndKeepsLive
<1>4. CASE NextWindow \/ UNCHANGED vars
  BY <1>4, EndKeepsLive DEF NextWindow, vars
<1>5. QED
  BY <1>1, <1>2, <1>3, <1>4 DEF Next

\* As many updates go live as there are requests, so each has a reload of its own.
LEMMA ReloadsSuffice ==
    ASSUME NEW q \in Seq(Requests), \A i, j \in 1..Len(q) : q[i] = q[j] => i = j
    PROVE  Len(q) \in 0..Updates /\ Updates \in Nat
<1>1. q \in Injection(1..Len(q), Requests)
  BY DEF Injection, IsInjective
<1>2. Cardinality(1..Len(q)) = Len(q) /\ IsFiniteSet(1..Len(q)) /\ Len(q) \in Nat
  <2>1. \A n \in Nat : Cardinality(1..n) = n /\ IsFiniteSet(1..n)
    BY FS_Interval
  <2>2. Len(q) \in Nat
    OBVIOUS
  <2>3. QED
    BY <2>1, <2>2
<1>3. IsFiniteSet(Requests)
  BY BoundsAssumption
<1>4. Cardinality(1..Len(q)) <= Cardinality(Requests) /\ Cardinality(Requests) \in Nat
  BY <1>1, <1>3, FS_Injection, FS_CardinalityType
<1>5. QED
  BY <1>2, <1>4 DEF Updates

LEMMA NextReload ==
    ASSUME LiveInv, NEW r \in Requests, GoLive(r)
    PROVE  Len(applied) + 1 \in Daemon!Reloads
<1>1. Distinct(applied, "ok")' /\ applied' = Append(applied, r) /\ applied \in Seq(Requests)
  BY GoLiveKeepsLive DEF GoLive, LiveInv, Distinct
<1>2. Len(applied') = Len(applied) + 1 /\ Len(applied) \in Nat
  BY <1>1
<1>3. Len(applied') \in 0..Updates /\ Updates \in Nat
  BY <1>1, ReloadsSuffice DEF Distinct
<1>4. QED
  BY <1>2, <1>3 DEF Daemon!Reloads

\* What ZonzonDaemon does in the composition it does by itself.
LEMMA DaemonSteps == LiveInv /\ Next => [Daemon!Next]_daemon
<1> SUFFICES ASSUME LiveInv, Next PROVE Daemon!Next \/ UNCHANGED daemon
  OBVIOUS
<1>1. ASSUME NEW r \in Requests, Handle(r) \/ Submit(r) \/ Write(r) \/ GiveUp(r)
      PROVE  UNCHANGED daemon
  BY <1>1 DEF Handle, Submit, Write, GiveUp
<1>2. ASSUME NEW r \in Requests, GoLive(r) PROVE Daemon!Next
  BY <1>2, NextReload DEF GoLive, Daemon!Next
<1>3. ASSUME (\E p \in Daemon!Procs : Work(p)) \/ Drained \/ Signal \/ Closed \/ ForceExit
      PROVE  Daemon!Next
  BY <1>3 DEF Work, Drained, Signal, Closed, ForceExit, Ends, Daemon!Next
<1>4. ASSUME NextWindow PROVE UNCHANGED daemon
  BY <1>4 DEF NextWindow
<1>5. QED
  BY <1>1, <1>2, <1>3, <1>4 DEF Next

-----------------------------------------------------------------------------

\* An update that waits for the lock has not gone live, and none goes live twice.
THEOREM LiveInvariant == Spec => []LiveInv
<1>1. Init => LiveInv
  BY DEF Init, Service!Init, LiveInv, Distinct, Stages
<1>2. QED
  BY <1>1, LiveKept, PTL DEF Spec

\* Each part takes in the composition only steps that it takes by itself, so
\* that its safety properties hold here: the requests of ConfigHandler become
\* calls of ConfigService, each once, and these become reloads, each its own.
THEOREM PartsAreImplemented ==
    Spec => /\ Handler!Spec
            /\ Service!Spec
            /\ Daemon!Init /\ [][Daemon!Next]_daemon
<1>1. Init => Handler!Init /\ Service!Init /\ Daemon!Init
  BY DEF Init
<1>2. [Next]_vars => [Handler!Next]_(Handler!handlerVars)
  BY HandlerSteps DEF vars, handler, Handler!handlerVars
<1>3. [Next]_vars => [Service!Next]_(Service!vars)
  BY ServiceSteps DEF vars, service, Service!vars
<1>4. LiveInv /\ [Next]_vars => [Daemon!Next]_daemon
  BY DaemonSteps DEF vars
<1>5. QED
  BY <1>1, <1>2, <1>3, <1>4, LiveInvariant, PTL DEF Spec, Handler!Spec, Service!Spec

\* In the daemon too, one proof of work admits one request.
THEOREM NoncesAdmitOnce == Spec => []NonceAdmitsOnce
  BY PartsAreImplemented, WorkIsSpentOnce, PTL DEF NonceAdmitsOnce

-----------------------------------------------------------------------------
(* What is proved of the parts.                                              *)

ServiceP == INSTANCE ConfigServiceProofs
DaemonP == INSTANCE ZonzonDaemonProofs

LEMMA PartsAssume ==
    /\ ServiceP!BodyAssumption /\ ServiceP!BootAssumption
    /\ ServiceP!PortsAssumption /\ ServiceP!DistinctValues /\ ServiceP!CrashAssumption
    /\ DaemonP!UpdatesAssumption /\ DaemonP!BindAssumption /\ DaemonP!NoneAssumption
<1>1. Updates \in Nat
  BY BoundsAssumption, FS_CardinalityType DEF Updates
<1>2. ServiceP!Configs = Service!Configs
  BY DEF ServiceP!Configs, Service!Configs, ServiceP!Secrets, Service!Secrets
<1>3. QED
  BY <1>1, <1>2, ServiceAssumption, BoundsAssumption, DaemonAssumption DEF DaemonP!Configs

\* The definitions are those of the parts.
LEMMA SameService ==
    /\ Service!Init => ServiceP!Init
    /\ [Service!Next]_(Service!vars) => [ServiceP!Next]_(ServiceP!vars)
<1>1. Service!Init => ServiceP!Init
  BY DEF Service!Init, ServiceP!Init, Service!Configs, ServiceP!Configs, Service!Secrets, ServiceP!Secrets,
     Service!Started, ServiceP!Started
<1>2. \A r \in Requests : Service!Stored(r) = ServiceP!Stored(r)
  BY DEF Service!Stored, ServiceP!Stored, Service!Sealed, ServiceP!Sealed
<1>3. ASSUME NEW r \in Requests, NEW o PROVE Service!Release(r, o) => ServiceP!Release(r, o)
  BY DEF Service!Release, ServiceP!Release
<1>4. ASSUME NEW r \in Requests, Service!AcquireFree(r) \/ Service!Enqueue(r)
      PROVE  ServiceP!AcquireFree(r) \/ ServiceP!Enqueue(r)
  BY <1>4 DEF Service!AcquireFree, ServiceP!AcquireFree, Service!Enqueue, ServiceP!Enqueue
<1>5. ASSUME NEW r \in Requests, Service!Progress(r) PROVE ServiceP!Progress(r)
  BY <1>2, <1>3, <1>5 DEF Service!Progress, ServiceP!Progress, Service!RejectInvalid, ServiceP!RejectInvalid,
     Service!StartWrite, ServiceP!StartWrite, Service!FinishWrite, ServiceP!FinishWrite,
     Service!FailFileOperation, ServiceP!FailFileOperation, Service!Rename, ServiceP!Rename,
     Service!Commit, ServiceP!Commit
<1>6. Service!Crash => ServiceP!Crash
  BY DEF Service!Crash, ServiceP!Crash, Service!InFlight, ServiceP!InFlight, Service!Owning, ServiceP!Owning
<1>7. Service!Restart => ServiceP!Restart
  BY DEF Service!Restart, ServiceP!Restart, Service!Started, ServiceP!Started
<1>8. UNCHANGED Service!vars => UNCHANGED ServiceP!vars
  BY DEF Service!vars, ServiceP!vars
<1>9. Service!Next => ServiceP!Next
  BY <1>4, <1>5, <1>6, <1>7 DEF Service!Next, ServiceP!Next
<1>10. QED
  BY <1>1, <1>8, <1>9

LEMMA SameDaemon ==
    /\ Daemon!Init => DaemonP!Init
    /\ Daemon!Reloads = DaemonP!Reloads /\ Daemon!Configs = DaemonP!Configs
    /\ Daemon!Subsystems = DaemonP!Subsystems /\ Daemon!Procs = DaemonP!Procs
    /\ Daemon!Quiescent = DaemonP!Quiescent
    /\ \A u : Daemon!Notify(u) => DaemonP!Notify(u)
    /\ \A p : Daemon!Work(p) => DaemonP!Work(p)
    /\ \A c, s : Daemon!Drained(c, s) => DaemonP!Drained(c, s)
    /\ Daemon!Signal => DaemonP!Signal
    /\ Daemon!ControlPlaneClosed => DaemonP!ControlPlaneClosed
    /\ Daemon!ForceExit => DaemonP!ForceExit
    /\ [Daemon!Next]_daemon => [DaemonP!Next]_(DaemonP!vars)
<1>1. /\ Daemon!Subsystems = DaemonP!Subsystems /\ Daemon!Configs = DaemonP!Configs
      /\ Daemon!Reloads = DaemonP!Reloads /\ Daemon!Procs = DaemonP!Procs
      /\ Daemon!Shutdown = DaemonP!Shutdown /\ Daemon!First = DaemonP!First
  BY DEF Daemon!Subsystems, DaemonP!Subsystems, Daemon!Configs, DaemonP!Configs, Daemon!Reloads, DaemonP!Reloads,
     Daemon!Procs, DaemonP!Procs, Daemon!Shutdown, DaemonP!Shutdown, Daemon!First, DaemonP!First
<1>2. Daemon!Running = DaemonP!Running /\ Daemon!AllBlocked = DaemonP!AllBlocked
  BY <1>1 DEF Daemon!Running, DaemonP!Running, Daemon!AllBlocked, DaemonP!AllBlocked
<1>3. \A s : Daemon!After(s) = DaemonP!After(s)
  BY DEF Daemon!After, DaemonP!After
<1>4. Daemon!Init => DaemonP!Init
  BY <1>1 DEF Daemon!Init, DaemonP!Init
<1>5. ASSUME NEW u, Daemon!Notify(u) PROVE DaemonP!Notify(u)
  BY <1>1, <1>2, <1>5 DEF Daemon!Notify, DaemonP!Notify
<1>6. Daemon!Signal => DaemonP!Signal
  BY <1>1, <1>2 DEF Daemon!Signal, DaemonP!Signal
<1>7. ASSUME NEW c, NEW s PROVE Daemon!PortFree(c, s) = DaemonP!PortFree(c, s)
  BY <1>1 DEF Daemon!PortFree, DaemonP!PortFree
<1>8. ASSUME NEW p, Daemon!Work(p) PROVE DaemonP!Work(p)
  <2>1. ASSUME NEW s, Daemon!PassOver(p, s) PROVE DaemonP!PassOver(p, s)
    BY <1>2, <1>3, <2>1 DEF Daemon!PassOver, DaemonP!PassOver, Daemon!Advance, DaemonP!Advance
  <2>2. ASSUME NEW s, Daemon!Close(p, s) PROVE DaemonP!Close(p, s)
    BY <1>2, <2>2 DEF Daemon!Close, DaemonP!Close
  <2>3. ASSUME NEW s, Daemon!Open(p, s) PROVE DaemonP!Open(p, s)
    BY <1>2, <1>3, <1>7, <2>3 DEF Daemon!Open, DaemonP!Open, Daemon!Advance, DaemonP!Advance
  <2>4. ASSUME NEW s, Daemon!BindFails(p, s) PROVE DaemonP!BindFails(p, s)
    BY <1>1, <1>2, <1>7, <2>4 DEF Daemon!BindFails, DaemonP!BindFails
  <2>5. ASSUME NEW s, Daemon!BindHangs(p, s) PROVE DaemonP!BindHangs(p, s)
    BY <1>2, <2>5 DEF Daemon!BindHangs, DaemonP!BindHangs
  <2>6. Daemon!Turn(p) => DaemonP!Turn(p)
    BY <1>1, <1>2 DEF Daemon!Turn, DaemonP!Turn
  <2>7. QED
    BY <1>1, <1>8, <2>1, <2>2, <2>3, <2>4, <2>5, <2>6 DEF Daemon!Work, DaemonP!Work
<1>9. ASSUME NEW c, NEW s, Daemon!Drained(c, s) PROVE DaemonP!Drained(c, s)
  BY <1>1, <1>2, <1>3, <1>9 DEF Daemon!Drained, DaemonP!Drained
<1>10. Daemon!ControlPlaneClosed => DaemonP!ControlPlaneClosed
  BY <1>1, <1>2 DEF Daemon!ControlPlaneClosed, DaemonP!ControlPlaneClosed
<1>11. Daemon!ForceExit => DaemonP!ForceExit
  BY <1>1, <1>2 DEF Daemon!ForceExit, DaemonP!ForceExit
<1>12. UNCHANGED daemon => UNCHANGED DaemonP!vars
  BY DEF daemon, DaemonP!vars
<1>13. Daemon!Next => DaemonP!Next
  BY <1>1, <1>5, <1>6, <1>8, <1>9, <1>10, <1>11 DEF Daemon!Next, DaemonP!Next
<1>14. Daemon!Quiescent = DaemonP!Quiescent
  BY <1>1, <1>2 DEF Daemon!Quiescent, DaemonP!Quiescent, Daemon!Settled, DaemonP!Settled
<1>15. QED
  BY <1>1, <1>4, <1>5, <1>6, <1>8, <1>9, <1>10, <1>11, <1>12, <1>13, <1>14

\* So the theorems about the parts hold in the composition.
THEOREM ServiceKept == Spec => []ServiceP!Inv
<1>1. Service!Spec => ServiceP!Spec
  BY SameService, PTL DEF Service!Spec, ServiceP!Spec
<1>2. ServiceP!Spec => []ServiceP!Inv
  BY PartsAssume, ServiceP!Invariance
<1>3. QED
  BY <1>1, <1>2, PartsAreImplemented, PTL

\* The daemon, with its requests, its reloads and its end by a signal or by a
\* failed bind, is the atomic and durable register that its updates promise.
THEOREM RegisterIsImplemented == Spec => ServiceP!ImplementsRegister
<1>1. Service!Spec => ServiceP!Spec
  BY SameService, PTL DEF Service!Spec, ServiceP!Spec
<1>2. ServiceP!Spec => ServiceP!ImplementsRegister
  BY PartsAssume, ServiceP!Refinement
<1>3. QED
  BY <1>1, <1>2, PartsAreImplemented, PTL

LEMMA DaemonBase == Spec => []DaemonP!BaseInv
<1>1. Daemon!Init /\ [][Daemon!Next]_daemon => DaemonP!Init /\ [][DaemonP!Next]_(DaemonP!vars)
  BY SameDaemon, PTL
<1>2. DaemonP!Init /\ [][DaemonP!Next]_(DaemonP!vars) => []DaemonP!BaseInv
  BY PartsAssume, DaemonP!BaseInvariant
<1>3. QED
  BY <1>1, <1>2, PartsAreImplemented, PTL

LEMMA DaemonKept ==
    DaemonP!DnsPortIsFixed => (Spec => []DaemonP!OverlapInv)
<1> SUFFICES ASSUME DaemonP!DnsPortIsFixed PROVE Spec => []DaemonP!OverlapInv
  OBVIOUS
<1>1. Daemon!Init /\ [][Daemon!Next]_daemon => DaemonP!Init /\ [][DaemonP!Next]_(DaemonP!vars)
  BY SameDaemon, PTL
<1>2. DaemonP!Init /\ [][DaemonP!Next]_(DaemonP!vars) => []DaemonP!OverlapInv
  BY PartsAssume, DaemonP!OverlapInvariant
<1>3. QED
  BY <1>1, <1>2, PartsAreImplemented, PTL

-----------------------------------------------------------------------------
(* The file and the listeners.                                               *)

\* A request whose update is under way is open.
UpdatesAreOpen == \A r \in Requests : pc[r] \in Service!InFlight => at[r] = "updating"

\* The file holds what went live last, except between a rename and its callback.
FileIsLive ==
    Daemon!Running /\ (\A r \in Requests : pc[r] # "renamed") => disk.body = ConfigOf(Len(applied))

\* Every update that went live, and no other, has had its reload begun.
ReloadsAreLive == \A c \in Daemon!Configs : phase[c] # "idle" <=> c <= Len(applied)

FileInv ==
    /\ at \in [Requests -> {"new", "lost"} \cup Handler!Open \cup Handler!Codes]
    /\ UpdatesAreOpen /\ FileIsLive /\ ReloadsAreLive

\* What the steps below rest on.
Known == LiveInv /\ ServiceP!Inv /\ DaemonP!BaseInv

\* What does not change what went live, nor ends a rename, nor begins a reload.
LEMMA FileStays ==
    ASSUME FileInv, applied' = applied, disk' = disk \/ \E r \in Requests : pc'[r] = "renamed",
           Daemon!Running' => Daemon!Running /\ \A r \in Requests : pc[r] = "renamed" => pc'[r] = "renamed"
    PROVE  FileIsLive'
  BY DEF FileInv, FileIsLive, ConfigOf

LEMMA HandleKeepsFile ==
    ASSUME FileInv, NEW r \in Requests, Handle(r)
    PROVE  FileInv'
<1>1. /\ UNCHANGED <<service, daemon, applied>> /\ at[r] \in {"new", "reading"}
      /\ \E s \in {"reading"} \cup Handler!Codes : at' = [at EXCEPT ![r] = s]
  BY DEF Handle, Handler!Arrive, Handler!BodyFails, Handler!Deny, Handler!Refuse, Handler!Admit,
         Handler!Move, Handler!Codes, FileInv
<1>2. at' \in [Requests -> {"new", "lost"} \cup Handler!Open \cup Handler!Codes]
  BY <1>1 DEF FileInv, Handler!Open
<1>3. UpdatesAreOpen'
  BY <1>1 DEF FileInv, UpdatesAreOpen, service
<1>4. FileIsLive' /\ ReloadsAreLive'
  BY <1>1 DEF FileInv, FileIsLive, ReloadsAreLive, ConfigOf, service, daemon, Daemon!Running
<1>5. QED
  BY <1>2, <1>3, <1>4 DEF FileInv

LEMMA SubmitKeepsFile ==
    ASSUME LiveInv, FileInv, NEW r \in Requests, Submit(r)
    PROVE  FileInv'
<1>1. /\ at' \in [Requests -> {"new", "lost"} \cup Handler!Open \cup Handler!Codes]
      /\ at'[r] = "updating" /\ \A s \in Requests \ {r} : at'[s] = at[s]
  BY DEF Submit, Handler!Admit, Handler!Move, FileInv, Handler!Open, Handler!Codes
<1>2. /\ pc[r] = "new" /\ UNCHANGED <<disk, daemon, applied>>
      /\ \A s \in Requests \ {r} : pc'[s] = pc[s]
  BY DEF Submit, Service!AcquireFree, Service!Enqueue, LiveInv
<1>3. UpdatesAreOpen'
  BY <1>1, <1>2 DEF FileInv, UpdatesAreOpen
<1>4. FileIsLive'
  BY <1>2, FileStays DEF daemon, Daemon!Running
<1>5. ReloadsAreLive'
  BY <1>2 DEF FileInv, ReloadsAreLive, daemon
<1>6. QED
  BY <1>1, <1>3, <1>4, <1>5 DEF FileInv

LEMMA WriteKeepsFile ==
    ASSUME LiveInv, FileInv, NEW r \in Requests, Write(r)
    PROVE  FileInv'
<1>1. /\ UNCHANGED <<handler, daemon, applied>> /\ pc[r] \in Service!InFlight /\ pc[r] # "renamed"
      /\ \A s \in Requests \ {r} : pc'[s] = pc[s]
      /\ disk' = disk \/ pc'[r] = "renamed"
  BY DEF Write, Service!StartWrite, Service!FinishWrite, Service!Rename, LiveInv, Service!InFlight, Service!Owning
<1>2. UpdatesAreOpen'
  BY <1>1 DEF FileInv, UpdatesAreOpen, handler
<1>3. FileIsLive'
  BY <1>1, FileStays DEF daemon, Daemon!Running
<1>4. QED
  BY <1>1, <1>2, <1>3 DEF FileInv, ReloadsAreLive, handler, daemon

\* release() puts one request out of flight and none into it.
LEMMA ReleasedFlight ==
    ASSUME LiveInv, NEW r \in Requests, NEW outcome \in Service!Answered, Service!Release(r, outcome),
           pc[r] \in Service!Owning
    PROVE  /\ pc'[r] \notin Service!InFlight
           /\ \A s \in Requests \ {r} : pc'[s] \in Service!InFlight => pc[s] \in Service!InFlight
           /\ \A s \in Requests \ {r} : pc[s] = "renamed" => pc'[s] = "renamed"
<1>1. pc'[r] = outcome
  BY Released
<1>2. CASE pc' = [pc EXCEPT ![r] = outcome]
  BY <1>1, <1>2 DEF LiveInv, Service!Answered, Service!InFlight, Service!Owning
<1>3. CASE queue # <<>> /\ pc' = [pc EXCEPT ![r] = outcome, ![Head(queue)] = "acquired"]
  <2>1. Head(queue) = queue[1] /\ 1 \in 1..Len(queue)
    BY <1>3 DEF LiveInv, Distinct
  <2>2. Head(queue) \in Requests /\ pc[Head(queue)] = "queued"
    BY <2>1 DEF LiveInv, Distinct
  <2>3. \A s \in Requests \ {r} : pc'[s] = IF s = Head(queue) THEN "acquired" ELSE pc[s]
    BY <1>3 DEF LiveInv
  <2>4. QED
    BY <1>1, <2>2, <2>3 DEF Service!Answered, Service!InFlight, Service!Owning
<1>4. QED
  BY <1>2, <1>3 DEF Service!Release

LEMMA GiveUpKeepsFile ==
    ASSUME LiveInv, FileInv, NEW r \in Requests, GiveUp(r)
    PROVE  FileInv'
<1>1. /\ Service!Release(r, "rejected") /\ pc[r] \in Service!Owning /\ pc[r] # "renamed"
      /\ UNCHANGED <<disk, daemon, applied>> /\ at' = [at EXCEPT ![r] = "400"]
  BY DEF GiveUp, Service!RejectInvalid, Service!FailFileOperation, Service!Owning, Handler!Settle, Handler!Move
<1>2. /\ pc'[r] \notin Service!InFlight
      /\ \A s \in Requests \ {r} : pc'[s] \in Service!InFlight => pc[s] \in Service!InFlight
      /\ \A s \in Requests \ {r} : pc[s] = "renamed" => pc'[s] = "renamed"
  BY <1>1, ReleasedFlight DEF Service!Answered
<1>3. at' \in [Requests -> {"new", "lost"} \cup Handler!Open \cup Handler!Codes]
  BY <1>1 DEF FileInv, Handler!Codes
<1>4. UpdatesAreOpen'
  BY <1>1, <1>2 DEF FileInv, UpdatesAreOpen
<1>5. FileIsLive'
  BY <1>1, <1>2, FileStays DEF daemon, Daemon!Running
<1>6. QED
  BY <1>1, <1>3, <1>4, <1>5 DEF FileInv, ReloadsAreLive, daemon

LEMMA GoLiveKeepsFile ==
    ASSUME Known, FileInv, NEW r \in Requests, GoLive(r)
    PROVE  FileInv'
<1>1. /\ Service!Release(r, "ok") /\ pc[r] \in Service!Owning /\ pc[r] = "renamed" /\ disk' = disk
      /\ applied' = Append(applied, r) /\ at' = [at EXCEPT ![r] = "200"]
      /\ Daemon!Notify(Len(applied) + 1)
  BY DEF GoLive, Service!Commit, Service!Owning, Handler!Settle, Handler!Move
<1>2. /\ pc'[r] \notin Service!InFlight
      /\ \A s \in Requests \ {r} : pc'[s] \in Service!InFlight => pc[s] \in Service!InFlight
  BY <1>1, ReleasedFlight DEF Service!Answered, Known
<1>3. /\ Len(applied) \in Nat /\ Len(applied') = Len(applied) + 1 /\ applied'[Len(applied')] = r
  BY <1>1 DEF Known, LiveInv, Distinct
<1>4. at' \in [Requests -> {"new", "lost"} \cup Handler!Open \cup Handler!Codes]
  BY <1>1 DEF FileInv, Handler!Codes
<1>5. UpdatesAreOpen'
  BY <1>1, <1>2 DEF FileInv, UpdatesAreOpen
<1>6. FileIsLive'
  <2>1. disk.body = r
    BY <1>1, PartsAssume, ServiceP!SealedStored DEF Known, ServiceP!Inv, ServiceP!DataInv
  <2>2. ConfigOf(Len(applied))' = r
    BY <1>3 DEF ConfigOf
  <2>3. QED
    BY <1>1, <2>1, <2>2 DEF FileIsLive
<1>7. ReloadsAreLive'
  <2>1. /\ Len(applied) + 1 \in DaemonP!Reloads /\ DaemonP!Notify(Len(applied) + 1)
        /\ \A c \in DaemonP!Configs : phase[c] # "idle" <=> c <= Len(applied)
    BY <1>1, NextReload, SameDaemon DEF Known, FileInv, ReloadsAreLive
  <2>2. Len(applied) \in DaemonP!Configs /\ DaemonP!TypeOK
    BY ReloadsSuffice DEF DaemonP!Configs, Known, DaemonP!BaseInv, LiveInv, Distinct
  <2>3. \A c \in DaemonP!Configs : phase'[c] # "idle" <=> c <= Len(applied) + 1
    BY <2>1, <2>2, PartsAssume, DaemonP!NextAccepted
  <2>4. QED
    BY <1>3, <2>3, SameDaemon DEF ReloadsAreLive
<1>8. QED
  BY <1>4, <1>5, <1>6, <1>7 DEF FileInv

LEMMA DaemonKeepsFile ==
    ASSUME Known, FileInv, (\E p \in Daemon!Procs : Work(p)) \/ Drained \/ Signal \/ Closed \/ ForceExit
    PROVE  FileInv'
<1>1. /\ applied' = applied
      /\ IF exit' = "no" THEN UNCHANGED <<service, handler>> ELSE Service!Crash /\ Handler!Die
  BY DEF Work, Drained, Signal, Closed, ForceExit, Ends
<1>2. \A c \in DaemonP!Configs : phase'[c] = "idle" <=> phase[c] = "idle"
  <2>1. \/ DaemonP!Signal \/ DaemonP!ControlPlaneClosed \/ DaemonP!ForceExit
        \/ \E p \in DaemonP!Procs : DaemonP!Work(p)
        \/ \E c \in DaemonP!Configs, s \in DaemonP!Subsystems : DaemonP!Drained(c, s)
    BY SameDaemon DEF Work, Drained, Signal, Closed, ForceExit, Ends
  <2>2. DaemonP!TypeOK
    BY DEF Known, DaemonP!BaseInv
  <2>3. QED
    BY <2>1, <2>2, PartsAssume, DaemonP!RestStays
<1>3. ReloadsAreLive'
  BY <1>1, <1>2, SameDaemon DEF FileInv, ReloadsAreLive
<1>4. CASE exit' = "no"
  <2>1. UNCHANGED <<service, handler>> /\ Daemon!Running
    <3>1. Daemon!Running
      <4>1. ASSUME NEW p, Daemon!Work(p) PROVE Daemon!Running
        BY <4>1 DEF Daemon!Work, Daemon!PassOver, Daemon!Close, Daemon!Open, Daemon!BindFails,
           Daemon!BindHangs, Daemon!Turn
      <4>2. QED
        BY <4>1 DEF Work, Drained, Signal, Closed, ForceExit, Ends, Daemon!Drained, Daemon!Signal,
           Daemon!ControlPlaneClosed, Daemon!ForceExit
    <3>2. QED
      BY <1>1, <1>4, <3>1
  <2>2. at' \in [Requests -> {"new", "lost"} \cup Handler!Open \cup Handler!Codes] /\ UpdatesAreOpen'
    BY <2>1 DEF FileInv, UpdatesAreOpen, service, handler
  <2>3. FileIsLive'
    BY <1>1, <2>1, FileStays DEF service
  <2>4. QED
    BY <1>3, <2>2, <2>3 DEF FileInv
<1>5. CASE exit' # "no"
  <2>1. /\ pc' = [r \in Requests |-> IF pc[r] \in Service!InFlight THEN "lost" ELSE pc[r]]
        /\ at' = [r \in Requests |-> IF at[r] \in Handler!Open THEN "lost" ELSE at[r]]
    BY <1>1, <1>5 DEF Service!Crash, Handler!Die
  <2>2. at' \in [Requests -> {"new", "lost"} \cup Handler!Open \cup Handler!Codes]
    BY <2>1 DEF FileInv
  <2>3. UpdatesAreOpen'
    BY <2>1 DEF UpdatesAreOpen, Service!InFlight, Service!Owning
  <2>4. FileIsLive'
    BY <1>5 DEF FileIsLive, Daemon!Running
  <2>5. QED
    BY <1>3, <2>2, <2>3, <2>4 DEF FileInv
<1>6. QED
  BY <1>4, <1>5

LEMMA FileKept == Known /\ FileInv /\ [Next]_vars => FileInv'
<1> SUFFICES ASSUME Known, FileInv, [Next]_vars PROVE FileInv'
  OBVIOUS
<1>1. LiveInv
  BY DEF Known
<1>2. ASSUME NEW r \in Requests, Handle(r) \/ Submit(r) \/ Write(r) \/ GiveUp(r) \/ GoLive(r)
      PROVE  FileInv'
  BY <1>1, <1>2, HandleKeepsFile, SubmitKeepsFile, WriteKeepsFile, GiveUpKeepsFile, GoLiveKeepsFile
<1>3. CASE NextWindow \/ UNCHANGED vars
  <2>1. UNCHANGED <<service, daemon, applied, at>>
    BY <1>3 DEF NextWindow, Handler!NextWindow, vars, handler
  <2>2. QED
    BY <2>1 DEF FileInv, UpdatesAreOpen, FileIsLive, ReloadsAreLive, ConfigOf, service, daemon, Daemon!Running
<1>4. QED
  BY <1>2, <1>3, DaemonKeepsFile DEF Next

\* The inductive invariant of the file: what it holds went live last, and the
\* updates that went live are those whose reloads were begun.
THEOREM FileInvariant == Spec => [](Known /\ FileInv)
<1>1. Init => FileInv
  <2> SUFFICES ASSUME Init PROVE FileInv
    OBVIOUS
  <2>1. at \in [Requests -> {"new", "lost"} \cup Handler!Open \cup Handler!Codes] /\ UpdatesAreOpen
    BY DEF Init, Handler!Init, Service!Init, UpdatesAreOpen, Service!InFlight, Service!Owning
  <2>2. FileIsLive
    BY DEF Init, Service!Init, FileIsLive, ConfigOf
  <2>3. ReloadsAreLive
    <3>1. \A c \in Daemon!Configs : c \in Daemon!Procs /\ (c <= 0 <=> c = 0)
      BY PartsAssume DEF Daemon!Configs, Daemon!Procs
    <3>2. Len(applied) = 0
      BY DEF Init
    <3>3. QED
      BY <3>1, <3>2 DEF Init, Daemon!Init, ReloadsAreLive
  <2>4. QED
    BY <2>1, <2>2, <2>3 DEF FileInv
<1>2. Spec => []Known
  BY LiveInvariant, ServiceKept, DaemonBase, PTL DEF Known
<1>3. Known /\ FileInv /\ [Next]_vars => FileInv'
  BY FileKept
<1>4. QED
  BY <1>1, <1>2, <1>3, PTL DEF Spec

\* Once no request is open and no reload under way, what the file holds is what
\* all three listeners serve, in whatever order requests came, updates failed
\* or reloads ran through each other, if no update moves the DNS port.
THEOREM FileIsServed ==
    DaemonP!DnsPortIsFixed => (Spec => []QuietDaemonServesFile)
<1> SUFFICES ASSUME DaemonP!DnsPortIsFixed PROVE Spec => []QuietDaemonServesFile
  OBVIOUS
<1>1. ASSUME Known, FileInv, DaemonP!OverlapInv PROVE QuietDaemonServesFile
  <2> SUFFICES ASSUME Daemon!Quiescent, \A r \in Requests : at[r] \notin Handler!Open,
                      NEW s \in Daemon!Subsystems
               PROVE  field[s] # None /\ sock[field[s]][s] = "listening" /\ ConfigOf(field[s]) = disk.body
    BY DEF QuietDaemonServesFile
  <2>1. disk.body = ConfigOf(Len(applied))
    <3>1. \A r \in Requests : pc[r] # "renamed"
      BY <1>1 DEF FileInv, UpdatesAreOpen, Handler!Open, Service!InFlight, Service!Owning
    <3>2. QED
      BY <1>1, <3>1 DEF FileInv, FileIsLive, Daemon!Quiescent
  <2>2. DaemonP!Quiescent /\ s \in DaemonP!Subsystems
    BY SameDaemon
  <2>3. field[s] = DaemonP!Latest /\ sock[DaemonP!Latest][s] = "listening"
    BY <1>1, <2>2, PartsAssume, DaemonP!RestIsCalm, DaemonP!CalmServes DEF DaemonP!OverlapInv
  <2>4. PICK n \in DaemonP!Configs : \A c \in DaemonP!Configs : phase[c] # "idle" <=> c <= n
    BY <1>1 DEF DaemonP!OverlapInv, DaemonP!BaseInv, DaemonP!Accepted
  <2>5. DaemonP!Latest = n /\ n # None
    BY <2>4, PartsAssume, DaemonP!LatestIsLast DEF DaemonP!NoneAssumption
  <2>6. n = Len(applied)
    <3>1. Len(applied) \in DaemonP!Configs
      BY <1>1, ReloadsSuffice DEF Known, LiveInv, Distinct, DaemonP!Configs
    <3>2. \A c \in DaemonP!Configs : c \in Int /\ (phase[c] # "idle" <=> c <= Len(applied))
      BY <1>1, SameDaemon DEF FileInv, ReloadsAreLive, DaemonP!Configs
    <3>3. n <= Len(applied) /\ Len(applied) <= n
      BY <2>4, <3>1, <3>2
    <3>4. QED
      BY <3>1, <3>2, <3>3
  <2>7. QED
    BY <2>1, <2>3, <2>5, <2>6
<1>2. QED
  BY <1>1, FileInvariant, DaemonKept, PTL
=============================================================================
