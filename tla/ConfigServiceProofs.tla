------------------------- MODULE ConfigServiceProofs -------------------------
(***************************************************************************)
(* Proofs about ConfigService for every set of requests, every content of  *)
(* their bodies and any number of crashes: the lock admits one update at a *)
(* time, in order of arrival; the file is never torn, is what memory holds *)
(* and is refused by a start only after an update that outgrew the schema; *)
(* and the service implements ConfigRegister.                              *)
(*                                                                         *)
(* The inductive invariant has three parts.  TypeOK.  LockInv describes the*)
(* lock: the queue is the tail end of the arrivals and holds exactly the   *)
(* requests that wait.  DataInv ties the file, the field and the stage of  *)
(* the owner together; it needs LockInv, for a second owner could rename   *)
(* its file between the first one's rename and commit.                     *)
(***************************************************************************)
EXTENDS ConfigService, SequenceTheorems, TLAPS

\* How many of the arrivals have left the queue.
Served == Len(arrivals) - Len(queue)

QueueIsTailOfArrivals ==
    /\ Len(queue) <= Len(arrivals)
    /\ \A i \in 1..Len(queue) : queue[i] = arrivals[Served + i]

QueueHoldsTheWaiting ==
    /\ \A i \in 1..Len(queue) : pc[queue[i]] = "queued"
    /\ \A r \in Requests : pc[r] = "queued" => \E i \in 1..Len(queue) : queue[i] = r
    /\ \A i, j \in 1..Len(queue) : queue[i] = queue[j] => i = j

ServedDoNotWait ==
    /\ \A i \in 1..Served : pc[arrivals[i]] # "queued"
    /\ \A i \in 1..Len(arrivals) : pc[arrivals[i]] # "new"

DeadProcessIsEmpty ==
    config = Down => ~locked /\ queue = <<>>

LockInv ==
    /\ ExactlyOneOwner
    /\ ~locked => queue = <<>>
    /\ QueueIsTailOfArrivals
    /\ QueueHoldsTheWaiting
    /\ ServedDoNotWait
    /\ DeadProcessIsEmpty

DataInv ==
    /\ Restartable
    /\ LiveIsDurable
    /\ UpdatesAreSealed
    /\ \A r \in Requests : pc[r] = "renamed" => disk = Stored(r)
    /\ \A r \in Requests : pc[r] \in {"writing", "renaming", "renamed"} => Body[r].valid

Inv == TypeOK /\ LockInv /\ DataInv

-----------------------------------------------------------------------------

(***************************************************************************)
(* What encryptSecret leaves of a configuration (config.service.ts 61-69). *)
(***************************************************************************)
LEMMA SealedStored ==
    ASSUME NEW r \in Requests
    PROVE  /\ Stored(r) \in Configs
           /\ Stored(r).valid <=> Body[r].valid /\ ~Outgrown(r)
           /\ Stored(r).body = r
           /\ Stored(r).secret \in {"none", "sealed"}
  <1>1. Body[r] \in Configs /\ Body[r].body = r
    BY BodyAssumption DEF BodyAssumption
  <1>2. /\ Stored(r) \in Configs
        /\ Stored(r).body = r
        /\ Stored(r).secret \in {"none", "sealed"}
        /\ Stored(r).valid = (Body[r].valid /\ Body[r].secret # "long")
    BY <1>1 DEF Stored, Sealed, Configs, Secrets
  <1>3. Stored(r).valid <=> Body[r].valid /\ ~Outgrown(r)
    BY <1>2 DEF Outgrown
  <1>4. QED
    BY <1>2, <1>3

(***************************************************************************)
(* What startEngine makes of a file is a configuration, of the same update *)
(* and with the same secrets.                                              *)
(***************************************************************************)
LEMMA StartedFile ==
    ASSUME NEW c \in Configs
    PROVE  Started(c) \in Configs /\ Started(c).body = c.body /\ Started(c).secret = c.secret
  BY DEF Started, Configs

(***************************************************************************)
(* release() keeps the types of what it changes.                           *)
(***************************************************************************)
LEMMA ReleaseTypes ==
    ASSUME TypeOK, NEW r \in Requests, NEW outcome \in Answered, Release(r, outcome)
    PROVE  /\ locked' \in BOOLEAN
           /\ queue' \in Seq(Requests)
           /\ pc' \in [Requests -> {"new", "lost"} \cup InFlight \cup Answered]
  <1>1. CASE queue = <<>>
    BY <1>1 DEF TypeOK, Release, InFlight, Owning, Answered
  <1>2. CASE queue # <<>>
    <2>1. Head(queue) \in Requests /\ Tail(queue) \in Seq(Requests)
      BY <1>2 DEF TypeOK
    <2>2. /\ locked' = locked
          /\ queue' = Tail(queue)
          /\ pc' = [pc EXCEPT ![r] = outcome, ![Head(queue)] = "acquired"]
      BY <1>2 DEF Release
    <2>3. pc' \in [Requests -> {"new", "lost"} \cup InFlight \cup Answered]
      BY <2>1, <2>2 DEF TypeOK, InFlight, Owning
    <2>4. QED
      BY <2>1, <2>2, <2>3 DEF TypeOK
  <1>3. QED
    BY <1>1, <1>2

(***************************************************************************)
(* Every variable has its type in every reachable state.                   *)
(***************************************************************************)
LEMMA InitType == Init => TypeOK
  <1> SUFFICES ASSUME Init PROVE TypeOK
    OBVIOUS
  <1>1. locked \in BOOLEAN
    BY DEF Init
  <1>2. queue \in Seq(Requests) /\ arrivals \in Seq(Requests)
    BY DEF Init
  <1>3. pc \in [Requests -> {"new", "lost"} \cup InFlight \cup Answered]
    BY DEF Init
  <1>4. temp \in [Requests -> {"none", "partial", "full"}]
    BY DEF Init
  <1>5. crashes \in 0..MaxCrashes
    BY CrashAssumption DEF Init, CrashAssumption
  <1>6. disk \in Configs /\ config \in Configs
    BY StartedFile DEF Init
  <1>7. QED
    BY <1>1, <1>2, <1>3, <1>4, <1>5, <1>6 DEF TypeOK

(***************************************************************************)
(* Every step of updateConfig, of the lock and of the process keeps the    *)
(* types.                                                                  *)
(***************************************************************************)
LEMMA NextType == TypeOK /\ [Next]_vars => TypeOK'
  <1> SUFFICES ASSUME TypeOK, [Next]_vars PROVE TypeOK'
    OBVIOUS
  <1> USE DEF TypeOK
  <1>1. ASSUME NEW r \in Requests, AcquireFree(r) PROVE TypeOK'
    BY <1>1 DEF AcquireFree, InFlight, Owning, Answered
  <1>2. ASSUME NEW r \in Requests, Enqueue(r) PROVE TypeOK'
    BY <1>2 DEF Enqueue, InFlight, Owning, Answered
  <1>3. ASSUME NEW r \in Requests, Progress(r) PROVE TypeOK'
    <2>1. CASE RejectInvalid(r)
      BY <2>1, ReleaseTypes DEF RejectInvalid, Answered
    <2>2. CASE StartWrite(r)
      BY <2>2 DEF StartWrite, InFlight, Owning, Answered
    <2>3. CASE FinishWrite(r)
      BY <2>3 DEF FinishWrite, InFlight, Owning, Answered
    <2>4. CASE FailFileOperation(r)
      BY <2>4, ReleaseTypes DEF FailFileOperation, Answered
    <2>5. CASE Rename(r)
      BY <2>5, SealedStored DEF Rename, InFlight, Owning, Answered
    <2>6. CASE Commit(r)
      BY <2>6, ReleaseTypes, SealedStored DEF Commit, Answered
    <2>7. QED
      BY <1>3, <2>1, <2>2, <2>3, <2>4, <2>5, <2>6 DEF Progress
  <1>4. CASE Crash
    <2>1. locked' \in BOOLEAN
      BY <1>4 DEF Crash
    <2>2. queue' \in Seq(Requests) /\ arrivals' \in Seq(Requests)
      BY <1>4 DEF Crash
    <2>3. pc' \in [Requests -> {"new", "lost"} \cup InFlight \cup Answered]
      BY <1>4 DEF Crash
    <2>4. crashes' \in 0..MaxCrashes
      BY <1>4, CrashAssumption DEF Crash, CrashAssumption
    <2>5. QED
      BY <1>4, <2>1, <2>2, <2>3, <2>4 DEF Crash
  <1>5. CASE Restart
    BY <1>5, StartedFile DEF Restart
  <1>6. CASE UNCHANGED vars
    BY <1>6 DEF vars
  <1>7. QED
    BY <1>1, <1>2, <1>3, <1>4, <1>5, <1>6 DEF Next

(***************************************************************************)
(* TypeOK in every reachable state: the lock, the files and the field of   *)
(* the service only ever hold what the code puts there.                    *)
(***************************************************************************)
THEOREM TypeCorrect == Spec => []TypeOK
  BY InitType, NextType, PTL DEF Spec

-----------------------------------------------------------------------------

(***************************************************************************)
(* A step that moves r between two stages which both own the lock leaves   *)
(* the lock invariant alone (the file operations of updateConfig).         *)
(***************************************************************************)
LEMMA OwnerMoves ==
    ASSUME TypeOK, LockInv, NEW r \in Requests, NEW stage \in Owning,
           pc[r] \in Owning, pc' = [pc EXCEPT ![r] = stage],
           UNCHANGED <<locked, queue, config, arrivals>>
    PROVE  LockInv'
  <1>1. ExactlyOneOwner'
    BY DEF TypeOK, LockInv, ExactlyOneOwner
  <1>2. pc'[r] # "queued" /\ pc[r] # "queued" /\ pc'[r] # "new"
    BY DEF TypeOK, Owning
  <1>3. \A s \in Requests : s # r => pc'[s] = pc[s]
    BY DEF TypeOK
  <1>4. QueueHoldsTheWaiting'
    BY <1>2, <1>3 DEF TypeOK, LockInv, QueueHoldsTheWaiting
  <1>5. ServedDoNotWait'
    BY <1>2, <1>3 DEF TypeOK, LockInv, ServedDoNotWait, Served
  <1>6. QED
    BY <1>1, <1>4, <1>5
    DEF LockInv, QueueIsTailOfArrivals, Served, DeadProcessIsEmpty

(***************************************************************************)
(* release() hands the lock to the head of the queue or frees it: it never *)
(* admits a second owner and never drops or overtakes a waiting request.   *)
(***************************************************************************)
LEMMA ReleaseKeepsLockInv ==
    ASSUME TypeOK, LockInv, NEW r \in Requests, NEW outcome \in Answered,
           pc[r] \in Owning, Release(r, outcome),
           UNCHANGED arrivals, config' # Down
    PROVE  LockInv'
  <1>1. /\ outcome \notin Owning
        /\ outcome # "queued"
        /\ outcome # "new"
        /\ pc[r] # "queued"
    BY DEF Answered, Owning
  <1>2. /\ locked
        /\ \A s \in Requests : pc[s] \in Owning => s = r
    BY DEF LockInv, ExactlyOneOwner
  <1>3. CASE queue = <<>>
    <2>1. locked' = FALSE /\ queue' = queue /\ pc' = [pc EXCEPT ![r] = outcome]
      BY <1>3 DEF Release
    <2>2. pc'[r] = outcome /\ \A s \in Requests : s # r => pc'[s] = pc[s]
      BY <2>1 DEF TypeOK
    <2>3. ExactlyOneOwner'
      BY <1>1, <1>2, <2>1, <2>2 DEF ExactlyOneOwner
    <2>4. QueueHoldsTheWaiting'
      BY <1>1, <2>1, <2>2 DEF TypeOK, LockInv, QueueHoldsTheWaiting
    <2>5. ServedDoNotWait'
      BY <1>1, <2>1, <2>2 DEF TypeOK, LockInv, ServedDoNotWait, Served
    <2>6. QED
      BY <1>3, <2>1, <2>3, <2>4, <2>5
      DEF LockInv, QueueIsTailOfArrivals, Served, DeadProcessIsEmpty
  <1>4. CASE queue # <<>>
    <2> DEFINE h == Head(queue)
    <2>1. /\ queue' = Tail(queue)
          /\ locked' = locked
          /\ pc' = [pc EXCEPT ![r] = outcome, ![h] = "acquired"]
      BY <1>4 DEF Release
    <2>2. /\ queue \in Seq(Requests) /\ Len(queue) \in Nat
          /\ arrivals \in Seq(Requests) /\ Len(arrivals) \in Nat
      BY DEF TypeOK
    <2>3. /\ h \in Requests /\ h = queue[1] /\ 1 \in 1..Len(queue)
          /\ Len(queue') = Len(queue) - 1
          /\ \A i \in 1..Len(queue') : queue'[i] = queue[i + 1]
      BY <1>4, <2>1, <2>2, HeadTailProperties
    <2>4. pc[h] = "queued" /\ h # r
      BY <1>1, <2>3 DEF LockInv, QueueHoldsTheWaiting
    <2>5. /\ pc'[r] = outcome
          /\ pc'[h] = "acquired"
          /\ \A s \in Requests : s # r /\ s # h => pc'[s] = pc[s]
      BY <2>1, <2>3, <2>4 DEF TypeOK
    <2>6. ExactlyOneOwner'
      <3>1. \A s \in Requests : pc'[s] \in Owning <=> s = h
        BY <1>1, <1>2, <2>3, <2>4, <2>5 DEF Owning
      <3>2. QED
        BY <1>2, <2>1, <2>3, <3>1 DEF ExactlyOneOwner
    <2>7. QueueIsTailOfArrivals'
      BY <2>2, <2>3 DEF LockInv, QueueIsTailOfArrivals, Served
    <2>8. QueueHoldsTheWaiting'
      <3>1. ASSUME NEW i \in 1..Len(queue') PROVE pc'[queue'[i]] = "queued"
        <4>1. i + 1 \in 1..Len(queue) /\ queue'[i] = queue[i + 1] /\ i + 1 # 1
          BY <2>2, <2>3
        <4>2. queue[i + 1] # h /\ queue[i + 1] \in Requests /\ pc[queue[i + 1]] = "queued"
          BY <2>2, <2>3, <4>1 DEF LockInv, QueueHoldsTheWaiting
        <4>3. QED
          BY <1>1, <2>5, <4>1, <4>2
      <3>2. ASSUME NEW s \in Requests, pc'[s] = "queued"
            PROVE  \E i \in 1..Len(queue') : queue'[i] = s
        <4>1. s # r /\ s # h /\ pc[s] = "queued"
          BY <1>1, <2>5, <3>2
        <4>2. PICK j \in 1..Len(queue) : queue[j] = s
          BY <4>1 DEF LockInv, QueueHoldsTheWaiting
        <4>3. j # 1 /\ j - 1 \in 1..Len(queue') /\ queue'[j - 1] = s
          BY <2>2, <2>3, <4>1, <4>2
        <4>4. QED
          BY <4>3
      <3>3. ASSUME NEW i \in 1..Len(queue'), NEW j \in 1..Len(queue'), queue'[i] = queue'[j]
            PROVE  i = j
        <4>1. /\ i + 1 \in 1..Len(queue) /\ j + 1 \in 1..Len(queue)
              /\ queue[i + 1] = queue[j + 1]
          BY <2>2, <2>3, <3>3
        <4>2. i + 1 = j + 1
          BY <4>1 DEF LockInv, QueueHoldsTheWaiting
        <4>3. QED
          BY <4>2
      <3>4. QED
        BY <3>1, <3>2, <3>3 DEF QueueHoldsTheWaiting
    <2>9. ServedDoNotWait'
      <3>1. ASSUME NEW i \in 1..Len(arrivals)
            PROVE  /\ pc'[arrivals[i]] # "new"
                   /\ pc'[arrivals[i]] = "queued" => pc[arrivals[i]] = "queued" /\ arrivals[i] # h
        BY <1>1, <2>2, <2>3, <2>5 DEF LockInv, ServedDoNotWait
      <3>2. ASSUME NEW i \in 1..(Len(arrivals) - Len(queue'))
            PROVE  pc'[arrivals[i]] # "queued"
        <4>1. i \in 1..Served \/ i = Served + 1
          <5>1. Len(queue') = Len(queue) - 1 /\ Len(queue) \in Nat /\ Len(arrivals) \in Nat
            BY <2>2, <2>3
          <5>2. QED
            BY <5>1 DEF Served
        <4>2. i \in 1..Len(arrivals)
          BY <2>2, <2>3 DEF LockInv, QueueIsTailOfArrivals
        <4>3. CASE i \in 1..Served
          BY <3>1, <4>2, <4>3 DEF LockInv, ServedDoNotWait
        <4>4. CASE i = Served + 1
          <5>1. arrivals[i] = h
            BY <2>3, <4>4 DEF LockInv, QueueIsTailOfArrivals
          <5>2. QED
            BY <2>5, <5>1
        <4>5. QED
          BY <4>1, <4>3, <4>4
      <3>3. QED
        BY <3>1, <3>2 DEF ServedDoNotWait, Served
    <2>10. QED
      BY <1>2, <2>1, <2>6, <2>7, <2>8, <2>9 DEF LockInv, DeadProcessIsEmpty
  <1>5. QED
    BY <1>3, <1>4

-----------------------------------------------------------------------------

(***************************************************************************)
(* The lock invariant holds initially and is kept by every step.           *)
(***************************************************************************)
LEMMA InitLockInv == Init => LockInv
  BY DistinctValues
  DEF DistinctValues, Init, LockInv, ExactlyOneOwner, QueueIsTailOfArrivals,
      QueueHoldsTheWaiting, ServedDoNotWait, DeadProcessIsEmpty, Served, Owning

(***************************************************************************)
(* acquire() on a free lock: nobody waited, so the new owner overtakes     *)
(* none.                                                                   *)
(***************************************************************************)
LEMMA AcquireFreeKeepsLockInv ==
    ASSUME TypeOK, LockInv, NEW r \in Requests, AcquireFree(r)
    PROVE  LockInv'
  <1>1. /\ locked' = TRUE /\ queue' = queue /\ queue = <<>> /\ config' # Down
        /\ arrivals' = Append(arrivals, r)
    BY DEF AcquireFree, LockInv
  <1>2. pc'[r] = "acquired" /\ \A s \in Requests : s # r => pc'[s] = pc[s]
    BY DEF AcquireFree, TypeOK
  <1>3. /\ arrivals' \in Seq(Requests) /\ Len(queue) = 0 /\ Len(arrivals) \in Nat
        /\ Len(arrivals') = Len(arrivals) + 1
        /\ arrivals'[Len(arrivals) + 1] = r
        /\ \A i \in 1..Len(arrivals) : arrivals[i] \in Requests /\ arrivals'[i] = arrivals[i]
    BY <1>1, AppendProperties DEF TypeOK
  <1>4. ExactlyOneOwner'
    BY <1>1, <1>2 DEF LockInv, ExactlyOneOwner, AcquireFree, Owning
  <1>5. QueueIsTailOfArrivals'
    BY <1>1, <1>3 DEF QueueIsTailOfArrivals
  <1>6. \A s \in Requests : pc[s] # "queued" /\ pc'[s] # "queued"
    BY <1>2, <1>3 DEF LockInv, QueueHoldsTheWaiting
  <1>7. QueueHoldsTheWaiting'
    BY <1>1, <1>3, <1>6 DEF QueueHoldsTheWaiting
  <1>8. ServedDoNotWait'
    <2>1. ASSUME NEW i \in 1..Len(arrivals')
          PROVE  arrivals'[i] \in Requests /\ pc'[arrivals'[i]] # "new"
      <3>1. CASE i = Len(arrivals) + 1
        BY <1>2, <1>3, <3>1
      <3>2. CASE i \in 1..Len(arrivals)
        BY <1>2, <1>3, <3>2 DEF LockInv, ServedDoNotWait
      <3>3. QED
        BY <1>3, <3>1, <3>2
    <2>2. (Len(arrivals) - Len(queue))' = Len(arrivals')
      BY <1>1, <1>3
    <2>3. QED
      BY <1>6, <2>1, <2>2 DEF ServedDoNotWait, Served
  <1>9. QED
    BY <1>1, <1>4, <1>5, <1>7, <1>8 DEF LockInv, DeadProcessIsEmpty

(***************************************************************************)
(* acquire() on a taken lock: the request is last of those received and    *)
(* last in the queue.                                                      *)
(***************************************************************************)
LEMMA EnqueueKeepsLockInv ==
    ASSUME TypeOK, LockInv, NEW r \in Requests, Enqueue(r)
    PROVE  LockInv'
  <1>1. /\ locked /\ locked' = locked /\ config' # Down /\ pc[r] = "new"
        /\ queue' = Append(queue, r) /\ arrivals' = Append(arrivals, r)
    BY DEF Enqueue
  <1>2. pc'[r] = "queued" /\ \A s \in Requests : s # r => pc'[s] = pc[s]
    BY DEF Enqueue, TypeOK
  <1>3. /\ Len(arrivals) \in Nat /\ Len(arrivals') = Len(arrivals) + 1
        /\ arrivals'[Len(arrivals) + 1] = r
        /\ \A i \in 1..Len(arrivals) : arrivals[i] \in Requests /\ arrivals'[i] = arrivals[i]
    BY <1>1, AppendProperties DEF TypeOK
  <1>4. /\ Len(queue) \in Nat /\ Len(queue') = Len(queue) + 1
        /\ queue'[Len(queue) + 1] = r
        /\ \A i \in 1..Len(queue) : queue[i] \in Requests /\ queue'[i] = queue[i]
    BY <1>1, AppendProperties DEF TypeOK
  <1>5. ExactlyOneOwner'
    BY <1>1, <1>2 DEF LockInv, ExactlyOneOwner, Owning
  <1>6. QueueIsTailOfArrivals'
    <2>1. Len(arrivals') - Len(queue') = Served
      BY <1>3, <1>4 DEF Served
    <2>2. /\ Len(queue) <= Len(arrivals)
          /\ \A i \in 1..Len(queue) : Served + i \in 1..Len(arrivals) /\ queue[i] = arrivals[Served + i]
      BY <1>3, <1>4 DEF LockInv, QueueIsTailOfArrivals, Served
    <2>3. ASSUME NEW i \in 1..Len(queue') PROVE queue'[i] = arrivals'[Served + i]
      <3>1. CASE i \in 1..Len(queue)
        BY <1>3, <1>4, <2>2, <3>1
      <3>2. CASE i = Len(queue) + 1
        BY <1>3, <1>4, <3>2 DEF Served
      <3>3. QED
        BY <1>4, <3>1, <3>2
    <2>4. Len(queue') <= Len(arrivals')
      BY <1>3, <1>4, <2>2
    <2>5. QED
      BY <2>1, <2>3, <2>4 DEF QueueIsTailOfArrivals, Served
  <1>7. QueueHoldsTheWaiting'
    <2>1. \A i \in 1..Len(queue) : queue[i] # r /\ pc'[queue'[i]] = "queued"
      BY <1>1, <1>2, <1>4 DEF LockInv, QueueHoldsTheWaiting
    <2>2. \A i \in 1..Len(queue') : i \in 1..Len(queue) \/ i = Len(queue) + 1
      BY <1>4
    <2>3. \A i \in 1..Len(queue') : pc'[queue'[i]] = "queued"
      BY <1>2, <1>4, <2>1, <2>2
    <2>4. ASSUME NEW s \in Requests, pc'[s] = "queued"
          PROVE  \E i \in 1..Len(queue') : queue'[i] = s
      <3>1. CASE s = r
        BY <1>4, <3>1
      <3>2. CASE s # r
        <4>1. PICK i \in 1..Len(queue) : queue[i] = s
          BY <1>2, <2>4, <3>2 DEF LockInv, QueueHoldsTheWaiting
        <4>2. i \in 1..Len(queue') /\ queue'[i] = s
          BY <1>4, <4>1
        <4>3. QED
          BY <4>2
      <3>3. QED
        BY <3>1, <3>2
    <2>5. ASSUME NEW i \in 1..Len(queue'), NEW j \in 1..Len(queue'), queue'[i] = queue'[j]
          PROVE  i = j
      BY <1>4, <2>1, <2>2, <2>5 DEF LockInv, QueueHoldsTheWaiting
    <2>6. QED
      BY <2>3, <2>4, <2>5 DEF QueueHoldsTheWaiting
  <1>8. ServedDoNotWait'
    <2>1. (Len(arrivals) - Len(queue))' = Served /\ Len(queue) <= Len(arrivals)
      BY <1>3, <1>4 DEF Served, LockInv, QueueIsTailOfArrivals
    <2>2. \A i \in 1..Len(arrivals) : arrivals[i] # r
      BY <1>1 DEF LockInv, ServedDoNotWait
    <2>3. \A i \in 1..Served : i \in 1..Len(arrivals)
      BY <1>3, <1>4, <2>1 DEF Served
    <2>4. \A i \in 1..Served : pc'[arrivals'[i]] # "queued"
      BY <1>2, <1>3, <2>2, <2>3 DEF LockInv, ServedDoNotWait
    <2>5. \A i \in 1..Len(arrivals') : i \in 1..Len(arrivals) \/ i = Len(arrivals) + 1
      BY <1>3
    <2>6. \A i \in 1..Len(arrivals') : pc'[arrivals'[i]] # "new"
      BY <1>2, <1>3, <2>2, <2>5 DEF LockInv, ServedDoNotWait
    <2>7. QED
      BY <2>1, <2>4, <2>6 DEF ServedDoNotWait, Served
  <1>9. QED
    BY <1>1, <1>5, <1>6, <1>7, <1>8 DEF LockInv, DeadProcessIsEmpty

(***************************************************************************)
(* The process dies: lock, queue and arrivals are gone together.           *)
(***************************************************************************)
LEMMA CrashKeepsLockInv ==
    ASSUME TypeOK, LockInv, Crash
    PROVE  LockInv'
  <1>1. locked' = FALSE /\ queue' = <<>> /\ arrivals' = <<>>
    BY DEF Crash
  <1>2. \A r \in Requests : pc'[r] \notin Owning /\ pc'[r] # "queued"
    BY DEF Crash, TypeOK, InFlight, Owning
  <1>3. QED
    BY <1>1, <1>2
    DEF LockInv, ExactlyOneOwner, QueueIsTailOfArrivals, QueueHoldsTheWaiting,
        ServedDoNotWait, DeadProcessIsEmpty, Served

(***************************************************************************)
(* While a request is past acquire(), the process runs.                    *)
(***************************************************************************)
LEMMA OwnerImpliesAlive ==
    ASSUME LockInv, NEW r \in Requests, pc[r] \in Owning
    PROVE  config # Down
  BY DEF LockInv, ExactlyOneOwner, DeadProcessIsEmpty

(***************************************************************************)
(* Every step keeps the lock invariant: the three moves of the lock above, *)
(* and file operations that only move its owner.                           *)
(***************************************************************************)
LEMMA NextLockInv == TypeOK /\ LockInv /\ [Next]_vars => LockInv'
  <1> SUFFICES ASSUME TypeOK, LockInv, [Next]_vars PROVE LockInv'
    OBVIOUS
  <1>1. ASSUME NEW r \in Requests, AcquireFree(r) PROVE LockInv'
    BY <1>1, AcquireFreeKeepsLockInv
  <1>2. ASSUME NEW r \in Requests, Enqueue(r) PROVE LockInv'
    BY <1>2, EnqueueKeepsLockInv
  <1>3. ASSUME NEW r \in Requests, Progress(r) PROVE LockInv'
    <2>1. CASE RejectInvalid(r)
      BY <2>1, ReleaseKeepsLockInv, OwnerImpliesAlive
      DEF RejectInvalid, Owning, Answered
    <2>2. CASE StartWrite(r)
      BY <2>2, OwnerMoves DEF StartWrite, Owning
    <2>3. CASE FinishWrite(r)
      BY <2>3, OwnerMoves DEF FinishWrite, Owning
    <2>4. CASE FailFileOperation(r)
      BY <2>4, ReleaseKeepsLockInv, OwnerImpliesAlive
      DEF FailFileOperation, Owning, Answered
    <2>5. CASE Rename(r)
      BY <2>5, OwnerMoves DEF Rename, Owning
    <2>6. CASE Commit(r)
      <3>1. config' # Down
        BY <2>6, SealedStored, DistinctValues DEF Commit, DistinctValues
      <3>2. QED
        BY <2>6, <3>1, ReleaseKeepsLockInv DEF Commit, Owning, Answered
    <2>7. QED
      BY <1>3, <2>1, <2>2, <2>3, <2>4, <2>5, <2>6 DEF Progress
  <1>4. CASE Crash
    BY <1>4, CrashKeepsLockInv
  <1>5. CASE Restart
    BY <1>5
    DEF Restart, LockInv, ExactlyOneOwner, QueueIsTailOfArrivals,
        QueueHoldsTheWaiting, ServedDoNotWait, DeadProcessIsEmpty, Served
  <1>6. CASE UNCHANGED vars
    BY <1>6
    DEF vars, LockInv, ExactlyOneOwner, QueueIsTailOfArrivals,
        QueueHoldsTheWaiting, ServedDoNotWait, DeadProcessIsEmpty, Served
  <1>7. QED
    BY <1>1, <1>2, <1>3, <1>4, <1>5, <1>6 DEF Next

-----------------------------------------------------------------------------

(***************************************************************************)
(* The file, the field and the owner's stage agree, initially and after    *)
(* every step.  That release() moves stages only out of the critical ones  *)
(* comes first.                                                            *)
(***************************************************************************)
LEMMA ReleaseLeavesStages ==
    ASSUME TypeOK, LockInv, NEW r \in Requests, NEW outcome \in Answered,
           pc[r] \in Owning, Release(r, outcome)
    PROVE  \A s \in Requests : pc'[s] \notin {"writing", "renaming", "renamed"}
  <1>1. \A s \in Requests : pc[s] \in Owning => s = r
    BY DEF LockInv, ExactlyOneOwner
  <1>2. CASE queue = <<>>
    BY <1>1, <1>2 DEF Release, TypeOK, Owning, Answered
  <1>3. CASE queue # <<>>
    <2>1. Head(queue) \in Requests
      BY <1>3, HeadTailProperties DEF TypeOK
    <2>2. pc' = [pc EXCEPT ![r] = outcome, ![Head(queue)] = "acquired"]
      BY <1>3 DEF Release
    <2>3. QED
      BY <1>1, <2>1, <2>2 DEF TypeOK, Owning, Answered
  <1>4. QED
    BY <1>2, <1>3

(***************************************************************************)
(* The daemon starts with the valid file it was configured from.           *)
(***************************************************************************)
LEMMA InitDataInv == Init => DataInv
  BY DistinctValues, BootAssumption, StartedFile
  DEF DistinctValues, BootAssumption, Init, DataInv, Restartable, LiveIsDurable,
      UpdatesAreSealed, Configs

(***************************************************************************)
(* Every step keeps file and field consistent; a second update between the *)
(* rename of the first and its callback is excluded by the lock invariant. *)
(***************************************************************************)
LEMMA NextDataInv == TypeOK /\ LockInv /\ DataInv /\ [Next]_vars => DataInv'
  <1> SUFFICES ASSUME TypeOK, LockInv, DataInv, [Next]_vars PROVE DataInv'
    OBVIOUS
  <1>1. ASSUME UNCHANGED <<disk, config>>,
               \A s \in Requests :
                  /\ pc'[s] = "renamed" => pc[s] = "renamed"
                  /\ pc[s] = "renamed" => pc'[s] = "renamed"
                  /\ pc'[s] \in {"writing", "renaming"} => Body[s].valid
        PROVE  DataInv'
    BY <1>1 DEF DataInv, Restartable, LiveIsDurable, UpdatesAreSealed
  <1>2. ASSUME NEW r \in Requests, AcquireFree(r) \/ Enqueue(r) PROVE DataInv'
    BY <1>1, <1>2 DEF AcquireFree, Enqueue, TypeOK, DataInv
  <1>3. ASSUME NEW r \in Requests, Progress(r) PROVE DataInv'
    <2>1. CASE RejectInvalid(r)
      <3>1. \A s \in Requests : pc[s] # "renamed"
        BY <2>1 DEF RejectInvalid, LockInv, ExactlyOneOwner, Owning
      <3>2. QED
        BY <1>1, <2>1, <3>1, ReleaseLeavesStages DEF RejectInvalid, Owning, Answered
    <2>2. CASE StartWrite(r)
      BY <1>1, <2>2 DEF StartWrite, TypeOK, DataInv
    <2>3. CASE FinishWrite(r)
      BY <1>1, <2>3 DEF FinishWrite, TypeOK, DataInv
    <2>4. CASE FailFileOperation(r)
      <3>1. \A s \in Requests : pc[s] # "renamed"
        BY <2>4 DEF FailFileOperation, LockInv, ExactlyOneOwner, Owning
      <3>2. QED
        BY <1>1, <2>4, <3>1, ReleaseLeavesStages DEF FailFileOperation, Owning, Answered
    <2>5. CASE Rename(r)
      <3>1. /\ disk' = Stored(r) /\ config' = config /\ pc'[r] = "renamed"
            /\ \A s \in Requests : s # r => pc'[s] = pc[s]
        BY <2>5 DEF Rename, TypeOK
      <3>2. Body[r].valid /\ \A s \in Requests : pc[s] \in Owning => s = r
        BY <2>5 DEF Rename, DataInv, LockInv, ExactlyOneOwner, Owning
      <3>3. Restartable' /\ LiveIsDurable'
        BY <3>1, <3>2, SealedStored, DistinctValues
        DEF DistinctValues, Restartable, LiveIsDurable
      <3>4. UpdatesAreSealed'
        BY <3>1, SealedStored DEF DataInv, UpdatesAreSealed
      <3>5. QED
        BY <3>1, <3>2, <3>3, <3>4 DEF DataInv, Owning
    <2>6. CASE Commit(r)
      <3>1. disk = Stored(r) /\ disk' = disk /\ config' = disk
        BY <2>6 DEF Commit, DataInv
      <3>2. \A s \in Requests : pc'[s] \notin {"writing", "renaming", "renamed"}
        BY <2>6, ReleaseLeavesStages DEF Commit, Owning, Answered
      <3>3. QED
        BY <3>1, <3>2 DEF DataInv, Restartable, LiveIsDurable, UpdatesAreSealed
    <2>7. QED
      BY <1>3, <2>1, <2>2, <2>3, <2>4, <2>5, <2>6 DEF Progress
  <1>4. CASE Crash
    <2>1. \A s \in Requests : pc'[s] \notin {"writing", "renaming", "renamed"}
      BY <1>4 DEF Crash, TypeOK, InFlight, Owning
    <2>2. QED
      BY <1>4, <2>1 DEF Crash, DataInv, Restartable, LiveIsDurable, UpdatesAreSealed
  <1>5. CASE Restart
    <2>1. disk \in Configs /\ config' = Started(disk) /\ disk # Down
      BY <1>5, DistinctValues DEF Restart, TypeOK, DistinctValues
    <2>2. UpdatesAreSealed'
      BY <1>5, <2>1, StartedFile DEF Restart, DataInv, UpdatesAreSealed
    <2>3. QED
      BY <1>5, <2>1, <2>2 DEF Restart, DataInv, Restartable, LiveIsDurable
  <1>6. CASE UNCHANGED vars
    BY <1>6 DEF vars, DataInv, Restartable, LiveIsDurable, UpdatesAreSealed
  <1>7. QED
    BY <1>2, <1>3, <1>4, <1>5, <1>6 DEF Next

(***************************************************************************)
(* The inductive invariant holds in every reachable state of               *)
(* ConfigService.                                                          *)
(***************************************************************************)
THEOREM Invariance == Spec => []Inv
  <1>1. Init => Inv
    BY InitType, InitLockInv, InitDataInv DEF Inv
  <1>2. Inv /\ [Next]_vars => Inv'
    BY NextType, NextLockInv, NextDataInv DEF Inv
  <1>3. QED
    BY <1>1, <1>2, PTL DEF Spec

-----------------------------------------------------------------------------

(***************************************************************************)
(* One update at a time owns the lock, and it is taken exactly then.       *)
(***************************************************************************)
THEOREM MutualExclusion == Spec => []ExactlyOneOwner
  <1>1. Inv => ExactlyOneOwner
    BY DEF Inv, LockInv
  <1>2. QED
    BY <1>1, Invariance, PTL

(***************************************************************************)
(* Updates leave acquire() in the order in which they entered it.          *)
(***************************************************************************)
THEOREM NoOvertaking == Spec => []FirstComeFirstServed
  <1>1. Inv => FirstComeFirstServed
    <2> SUFFICES ASSUME Inv,
                        NEW i \in DOMAIN arrivals, NEW j \in DOMAIN arrivals,
                        i < j, pc[arrivals[i]] = "queued"
                 PROVE  pc[arrivals[j]] = "queued"
      BY DEF FirstComeFirstServed
    <2>1. /\ i \in 1..Len(arrivals) /\ j \in 1..Len(arrivals)
          /\ Len(arrivals) \in Nat /\ Len(queue) \in Nat
      BY DEF Inv, TypeOK
    <2>2. i \notin 1..Served
      BY DEF Inv, LockInv, ServedDoNotWait
    <2>3. j - Served \in 1..Len(queue)
      BY <2>1, <2>2 DEF Served
    <2>4. arrivals[j] = queue[j - Served]
      <3>1. queue[j - Served] = arrivals[Served + (j - Served)]
        BY <2>3 DEF Inv, LockInv, QueueIsTailOfArrivals
      <3>2. Served + (j - Served) = j
        BY <2>1 DEF Served
      <3>3. QED
        BY <3>1, <3>2
    <2>5. QED
      BY <2>3, <2>4 DEF Inv, LockInv, QueueHoldsTheWaiting
  <1>2. QED
    BY <1>1, Invariance, PTL

(***************************************************************************)
(* The configuration in force is the durable one, outside of the instant   *)
(* between a rename and its callback.                                      *)
(***************************************************************************)
THEOREM LiveDurable == Spec => []LiveIsDurable
  <1>1. Inv => LiveIsDurable
    BY DEF Inv, DataInv
  <1>2. QED
    BY <1>1, Invariance, PTL

(***************************************************************************)
(* Whenever the daemon dies, the file it leaves is whole, and lets it start*)
(* again unless the update that wrote it had a header too long once sealed.*)
(***************************************************************************)
THEOREM AlwaysRestartable == Spec => []Restartable
  <1>1. Inv => Restartable
    BY DEF Inv, DataInv
  <1>2. QED
    BY <1>1, Invariance, PTL

(***************************************************************************)
(* No update brings a secret in the clear to the disk or into memory.      *)
(***************************************************************************)
THEOREM SecretsSealed == Spec => []UpdatesAreSealed
  <1>1. Inv => UpdatesAreSealed
    BY DEF Inv, DataInv
  <1>2. QED
    BY <1>1, Invariance, PTL

-----------------------------------------------------------------------------

(***************************************************************************)
(* release() ends r and, at most, lets a waiting request past acquire(),   *)
(* which the register does not see.                                        *)
(***************************************************************************)
LEMMA ReleaseAbstract ==
    ASSUME TypeOK, LockInv, NEW r \in Requests, NEW outcome \in Answered,
           pc[r] \in Owning, Release(r, outcome)
    PROVE  AbstractStatus' = [AbstractStatus EXCEPT ![r] = outcome]
  <1>1. CASE queue = <<>>
    BY <1>1 DEF Release, TypeOK, AbstractStatus, Answered
  <1>2. CASE queue # <<>>
    <2> DEFINE h == Head(queue)
    <2>1. h \in Requests /\ h = queue[1] /\ 1 \in 1..Len(queue)
      BY <1>2, HeadTailProperties DEF TypeOK
    <2>2. pc[h] = "queued" /\ h # r
      BY <2>1 DEF LockInv, QueueHoldsTheWaiting, Owning
    <2>3. pc' = [pc EXCEPT ![r] = outcome, ![h] = "acquired"]
      BY <1>2 DEF Release
    <2>4. /\ pc'[r] = outcome /\ pc'[h] = "acquired"
          /\ \A s \in Requests : s # r /\ s # h => pc'[s] = pc[s]
      BY <2>1, <2>2, <2>3 DEF TypeOK
    <2>5. ASSUME NEW s \in Requests
          PROVE  AbstractStatus'[s] = IF s = r THEN outcome ELSE AbstractStatus[s]
      BY <2>2, <2>4 DEF AbstractStatus, Answered
    <2>6. QED
      BY <2>5 DEF AbstractStatus
  <1>3. QED
    BY <1>1, <1>2

(***************************************************************************)
(* Every step of the service is a step of the register or stutters.        *)
(***************************************************************************)
LEMMA StepImplementsRegister ==
    Inv /\ [Next]_vars => [Register!Next]_Register!vars
  <1> SUFFICES ASSUME Inv, [Next]_vars PROVE [Register!Next]_Register!vars
    OBVIOUS
  <1> USE DEF Inv
  <1>1. ASSUME NEW r \in Requests, AcquireFree(r) \/ Enqueue(r) PROVE Register!Next
    <2>1. /\ config # Down /\ AbstractStatus[r] = "new"
          /\ AbstractStatus' = [AbstractStatus EXCEPT ![r] = "pending"]
          /\ UNCHANGED <<disk, config>>
      BY <1>1 DEF AcquireFree, Enqueue, TypeOK, AbstractStatus
    <2>2. Register!Submit(r)
      BY <2>1 DEF Register!Submit
    <2>3. QED
      BY <2>2 DEF Register!Next
  <1>2. ASSUME NEW r \in Requests, Progress(r)
        PROVE  [Register!Next]_Register!vars
    <2>1. ASSUME RejectInvalid(r) \/ FailFileOperation(r) PROVE Register!Next
      <3>1. /\ AbstractStatus[r] = "pending"
            /\ AbstractStatus' = [AbstractStatus EXCEPT ![r] = "rejected"]
            /\ UNCHANGED <<disk, config>>
        BY <2>1, ReleaseAbstract
        DEF RejectInvalid, FailFileOperation, AbstractStatus, Owning, Answered
      <3>2. Register!Reject(r)
        BY <3>1 DEF Register!Reject
      <3>3. QED
        BY <3>2 DEF Register!Next
    <2>2. ASSUME StartWrite(r) \/ FinishWrite(r) PROVE UNCHANGED Register!vars
      <3>1. AbstractStatus' = AbstractStatus
        BY <2>2 DEF StartWrite, FinishWrite, TypeOK, AbstractStatus
      <3>2. QED
        BY <2>2, <3>1 DEF StartWrite, FinishWrite, Register!vars
    <2>3. CASE Rename(r)
      <3>1. /\ AbstractStatus[r] = "pending"
            /\ AbstractStatus' = [AbstractStatus EXCEPT ![r] = "applied"]
            /\ disk' = Stored(r) /\ UNCHANGED config
        BY <2>3 DEF Rename, TypeOK, AbstractStatus
      <3>2. Accepted(r)
        BY <2>3 DEF Rename, DataInv, Accepted
      <3>3. \A s \in Requests : AbstractStatus[s] # "applied"
        <4>1. \A s \in Requests : pc[s] # "renamed" /\ pc[s] # "applied"
          BY <2>3 DEF Rename, LockInv, ExactlyOneOwner, TypeOK, InFlight, Owning, Answered
        <4>2. QED
          BY <4>1 DEF AbstractStatus
      <3>4. Register!Apply(r)
        BY <3>1, <3>2, <3>3 DEF Register!Apply
      <3>5. QED
        BY <3>4 DEF Register!Next
    <2>4. CASE Commit(r)
      <3>1. AbstractStatus[r] = "applied" /\ disk = Stored(r)
        BY <2>4 DEF Commit, DataInv, AbstractStatus
      <3>2. /\ AbstractStatus' = [AbstractStatus EXCEPT ![r] = "ok"]
            /\ config' = disk /\ UNCHANGED disk
        BY <2>4, <3>1, ReleaseAbstract DEF Commit, Owning, Answered
      <3>3. Register!Acknowledge(r)
        BY <3>1, <3>2 DEF Register!Acknowledge
      <3>4. QED
        BY <3>3 DEF Register!Next
    <2>5. QED
      BY <1>2, <2>1, <2>2, <2>3, <2>4 DEF Progress
  <1>3. CASE Crash
    <2>1. AbstractStatus' = [r \in Requests |->
              IF AbstractStatus[r] \in {"pending", "applied"} THEN "lost"
              ELSE AbstractStatus[r]]
      <3>1. ASSUME NEW r \in Requests
            PROVE  AbstractStatus'[r] =
                     IF AbstractStatus[r] \in {"pending", "applied"} THEN "lost"
                     ELSE AbstractStatus[r]
        BY <1>3 DEF Crash, TypeOK, AbstractStatus, InFlight, Owning, Answered
      <3>2. QED
        BY <3>1 DEF AbstractStatus
    <2>2. Register!Crash
      BY <1>3, <2>1 DEF Crash, Register!Crash, Register!InFlight
    <2>3. QED
      BY <2>2 DEF Register!Next
  <1>4. CASE Restart
    <2>1. AbstractStatus' = AbstractStatus
      BY <1>4 DEF Restart, AbstractStatus
    <2>2. Register!Restart
      BY <1>4, <2>1 DEF Restart, Register!Restart
    <2>3. QED
      BY <2>2 DEF Register!Next
  <1>5. CASE UNCHANGED vars
    BY <1>5 DEF vars, Register!vars, AbstractStatus
  <1>6. QED
    BY <1>1, <1>2, <1>3, <1>4, <1>5 DEF Next

(***************************************************************************)
(* The daemon starts with the value of the file live and no update begun.  *)
(***************************************************************************)
LEMMA InitImplementsRegister == Init => Register!Init
  BY DEF Init, Register!Init, AbstractStatus

(***************************************************************************)
(* updateConfig is an atomic, durable update of one configuration.         *)
(***************************************************************************)
THEOREM Refinement == Spec => ImplementsRegister
  <1>1. Spec => Register!Init /\ [][Register!Next]_Register!vars
    BY InitImplementsRegister, StepImplementsRegister, Invariance, PTL DEF Spec
  <1>2. QED
    BY <1>1 DEF ImplementsRegister, Register!Spec
=============================================================================
