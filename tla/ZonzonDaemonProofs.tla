-------------------------- MODULE ZonzonDaemonProofs --------------------------
(***************************************************************************)
(* ZonzonDaemon for any number of updates and any ports: what it serves    *)
(* once it is quiet.                                                       *)
(*                                                                         *)
(* One reload at a time empties the fields in order and fills them in order*)
(* (Calm).  Reloads that overlap may take each other's listeners; where    *)
(* the DNS port stays the same from one configuration to the next, a bind  *)
(* is then bound to fail, which ends the daemon, or hangs (Doomed).        *)
(***************************************************************************)
EXTENDS ZonzonDaemon, TLAPS

\* The subsystems that a call at t is through with.
Before(s, t) == t = "end" \/ (t = "sni" /\ s # "sni") \/ (t = "http" /\ s = "dns")

\* A call waits where it stops something, and starts at the first.
Placed == \A p \in Procs :
    /\ waiting[p] => phase[p] \in {"stop", "abort"} /\ step[p] \in Subsystems
    /\ phase[p] = "idle" => step[p] = First
    /\ phase[p] = "closing" => p = Shutdown

\* Updates are accepted one after the other.
Accepted == \E n \in Configs : \A c \in Configs : phase[c] # "idle" <=> c <= n

BaseInv == TypeOK /\ Placed /\ Accepted

\* No reload begins before the one ahead of it is through.
InTurn == \A c, d \in Configs : c < d /\ phase[d] # "idle" => phase[c] = "done"

\* What listens, or waits for its connections, is what the field holds.
Held == \A c \in Configs, s \in Subsystems :
    sock[c][s] \in {"listening", "closing"} => field[s] = c

\* What stop() is through with, and start() has ahead of it, is null.
Emptied(c, s) ==
    \/ phase[c] = "stop" /\ Before(s, step[c])
    \/ phase[c] = "start" /\ ~Before(s, step[c])

Cleared == \A c \in Configs, s \in Subsystems : Emptied(c, s) => field[s] = None

\* What start() is through with listens, until the next reload or the shutdown.
IsLatest(c) == \A d \in Configs : c < d => phase[d] = "idle"
Filled(c, s) ==
    \/ phase[c] = "start" /\ Before(s, step[c])
    \/ phase[c] = "done" /\ IsLatest(c)

Kept ==
    Running /\ phase[Shutdown] = "idle" =>
        \A c \in Configs, s \in Subsystems :
            Filled(c, s) => field[s] = c /\ sock[c][s] = "listening"

Calm == InTurn /\ Held /\ Cleared /\ Kept

-----------------------------------------------------------------------------
(* Calls and subsystems.                                                    *)

LEMMA Calls ==
    /\ Configs \subseteq Procs /\ Reloads \subseteq Configs /\ Reloads \subseteq Procs
    /\ Shutdown \in Procs /\ Shutdown \notin Configs /\ 0 \in Configs /\ 0 \notin Reloads
    /\ None \notin Configs /\ Configs \subseteq Nat /\ Procs = Configs \cup {Shutdown}
    /\ \A u \in Reloads : u - 1 \in Configs
BY UpdatesAssumption, NoneAssumption DEF Configs, Reloads, Shutdown, Procs

LEMMA Sequence ==
    ASSUME NEW s \in Subsystems
    PROVE  /\ After(s) \in Subsystems \cup {"end"} /\ s # "end" /\ After(s) # First
           /\ ~Before(s, s) /\ ~Before(s, First)
           /\ \A r \in Subsystems : Before(r, After(s)) <=> Before(r, s) \/ r = s
BY DEF Subsystems, After, Before, First

-----------------------------------------------------------------------------
(* What holds however calls overlap.                                        *)

LEMMA TypesStep == TypeOK /\ [Next]_vars => TypeOK'
<1> SUFFICES ASSUME TypeOK, [Next]_vars PROVE TypeOK'
  OBVIOUS
<1> USE DEF TypeOK
<1>1. Reloads \subseteq Procs /\ Configs \subseteq Procs /\ Shutdown \in Procs
  BY Calls
<1>2. First \in Subsystems /\ \A s \in Subsystems : After(s) \in Subsystems \cup {"end"}
  BY Sequence DEF First, Subsystems
<1>3. ASSUME NEW u \in Reloads, Notify(u) PROVE TypeOK'
  BY <1>1, <1>3 DEF Notify
<1>4. ASSUME Signal PROVE TypeOK'
  BY <1>1, <1>4 DEF Signal
<1>5. ASSUME NEW p \in Procs, NEW s \in Subsystems, PassOver(p, s)
      PROVE  TypeOK'
  <2>1. field' \in [Subsystems -> Configs \cup {None}]
    BY <1>5 DEF PassOver
  <2>2. step' \in [Procs -> Subsystems \cup {"end"}]
    BY <1>2, <1>5 DEF PassOver, Advance
  <2>3. QED
    BY <1>5, <2>1, <2>2 DEF PassOver
<1>6. ASSUME NEW p \in Procs, NEW s \in Subsystems, Close(p, s)
      PROVE  TypeOK'
  <2>1. field[s] \in Configs
    BY <1>6 DEF Close
  <2>2. sock' \in [Configs -> [Subsystems -> {"new", "listening", "closing", "closed", "failed"}]]
    BY <1>6, <2>1 DEF Close
  <2>3. QED
    BY <1>6, <2>2 DEF Close
<1>7. ASSUME NEW c \in Configs, NEW s \in Subsystems,
             Open(c, s) \/ BindFails(c, s) \/ BindHangs(c, s)
      PROVE  TypeOK'
  <2>1. field' \in [Subsystems -> Configs \cup {None}]
    BY <1>7 DEF Open, BindFails, BindHangs, Subsystems
  <2>2. sock' \in [Configs -> [Subsystems -> {"new", "listening", "closing", "closed", "failed"}]]
    BY <1>7 DEF Open, BindFails, BindHangs, Subsystems
  <2>3. step' \in [Procs -> Subsystems \cup {"end"}]
    BY <1>1, <1>2, <1>7 DEF Open, BindFails, BindHangs, Advance
  <2>4. QED
    BY <1>1, <1>7, <2>1, <2>2, <2>3 DEF Open, BindFails, BindHangs
<1>8. ASSUME NEW p \in Procs, Turn(p) PROVE TypeOK'
  BY <1>2, <1>8 DEF Turn
<1>9. ASSUME NEW c \in Configs, NEW s \in Subsystems, Drained(c, s)
      PROVE  TypeOK'
  <2>1. field' \in [Subsystems -> Configs \cup {None}]
    BY <1>9 DEF Drained
  <2>2. sock' \in [Configs -> [Subsystems -> {"new", "listening", "closing", "closed", "failed"}]]
    BY <1>9 DEF Drained
  <2>3. step' \in [Procs -> Subsystems \cup {"end"}]
    BY <1>2, <1>9 DEF Drained
  <2>4. waiting' \in [Procs -> BOOLEAN]
    BY <1>9 DEF Drained
  <2>5. QED
    BY <1>9, <2>1, <2>2, <2>3, <2>4 DEF Drained
<1>10. ASSUME ControlPlaneClosed \/ ForceExit PROVE TypeOK'
  BY <1>1, <1>10 DEF ControlPlaneClosed, ForceExit
<1>11. ASSUME UNCHANGED vars PROVE TypeOK'
  BY <1>11 DEF vars
<1>12. QED
  BY <1>3, <1>4, <1>5, <1>6, <1>7, <1>8, <1>9, <1>10, <1>11 DEF Next, Work

LEMMA PlacedStep == BaseInv /\ [Next]_vars => Placed'
<1> SUFFICES ASSUME BaseInv, [Next]_vars PROVE Placed'
  OBVIOUS
<1>1. TypeOK /\ Placed
  BY DEF BaseInv
<1>2. ASSUME NEW u \in Reloads, Notify(u) PROVE Placed'
  BY <1>1, <1>2, Calls DEF TypeOK, Placed, Notify
<1>3. ASSUME Signal PROVE Placed'
  BY <1>1, <1>3, Calls DEF TypeOK, Placed, Signal
<1>4. ASSUME NEW p \in Procs, NEW s \in Subsystems, PassOver(p, s) PROVE Placed'
  BY <1>1, <1>4 DEF TypeOK, Placed, PassOver, Advance
<1>5. ASSUME NEW p \in Procs, NEW s \in Subsystems, Close(p, s) PROVE Placed'
  BY <1>1, <1>5 DEF TypeOK, Placed, Close
<1>6. ASSUME NEW c \in Configs, NEW s \in Subsystems, Open(c, s) PROVE Placed'
  BY <1>1, <1>6, Calls DEF TypeOK, Placed, Open, Advance
<1>7. ASSUME NEW c \in Configs, NEW s \in Subsystems, BindFails(c, s) \/ BindHangs(c, s) PROVE Placed'
  BY <1>1, <1>7, Calls DEF TypeOK, Placed, BindFails, BindHangs
<1>8. ASSUME NEW p \in Procs, Turn(p) PROVE Placed'
  BY <1>1, <1>8, Sequence DEF TypeOK, Placed, Turn
<1>9. ASSUME NEW c \in Configs, NEW s \in Subsystems, Drained(c, s) PROVE Placed'
  BY <1>1, <1>9 DEF TypeOK, Placed, Drained
<1>10. ASSUME ControlPlaneClosed \/ ForceExit \/ UNCHANGED vars PROVE Placed'
  BY <1>1, <1>10, Calls DEF TypeOK, Placed, ControlPlaneClosed, ForceExit, vars
<1>11. QED
  BY <1>2, <1>3, <1>4, <1>5, <1>6, <1>7, <1>8, <1>9, <1>10 DEF Next, Work

\* Only Notify takes a call of start() or stop() out of rest.
LEMMA RestStays ==
    ASSUME TypeOK,
           \/ Signal \/ ControlPlaneClosed \/ ForceExit \/ UNCHANGED vars
           \/ \E p \in Procs : Work(p)
           \/ \E c \in Configs, s \in Subsystems : Drained(c, s)
    PROVE  \A c \in Configs : phase'[c] = "idle" <=> phase[c] = "idle"
<1>1. ASSUME Signal \/ ControlPlaneClosed
      PROVE  \A c \in Configs : phase'[c] = phase[c]
  BY <1>1, Calls DEF TypeOK, Signal, ControlPlaneClosed
<1>2. ASSUME NEW p \in Procs, NEW s \in Subsystems, PassOver(p, s) \/ Close(p, s) \/ Open(p, s)
      PROVE  phase' = phase
  BY <1>2 DEF PassOver, Close, Open
<1>3. ASSUME NEW c \in Configs, NEW s \in Subsystems, BindFails(c, s) \/ BindHangs(c, s)
      PROVE  \A d \in Configs : phase'[d] = "idle" <=> phase[d] = "idle"
  BY <1>3, Calls DEF TypeOK, BindFails, BindHangs
<1>4. ASSUME NEW p \in Procs, Turn(p)
      PROVE  \A d \in Configs : phase'[d] = "idle" <=> phase[d] = "idle"
  BY <1>4, Calls DEF TypeOK, Turn
<1>5. ASSUME NEW c \in Configs, NEW s \in Subsystems, Drained(c, s) PROVE phase' = phase
  BY <1>5 DEF Drained
<1>6. ASSUME ForceExit \/ UNCHANGED vars PROVE phase' = phase
  BY <1>6 DEF ForceExit, vars
<1>7. QED
  BY <1>1, <1>2, <1>3, <1>4, <1>5, <1>6, Calls DEF Work

\* And it does so with the next update.
LEMMA NextAccepted ==
    ASSUME TypeOK, NEW n \in Configs, \A c \in Configs : phase[c] # "idle" <=> c <= n,
           NEW u \in Reloads, Notify(u)
    PROVE  n = u - 1 /\ \A c \in Configs : phase'[c] # "idle" <=> c <= u
<1>1. u \in Configs /\ u - 1 \in Configs /\ u \in Nat /\ n \in Nat /\ 0 \in Configs
  BY Calls
<1>2. ~(u <= n) /\ phase[0] # "idle"
  BY <1>1 DEF Notify
<1>3. \A v \in Configs : v < u => phase[v] # "idle"
  BY <1>2 DEF Notify, Reloads, Configs
<1>4. u - 1 <= n
  BY <1>1, <1>3
<1>5. n = u - 1
  BY <1>1, <1>2, <1>4
<1>6. \A c \in Configs : c \in Nat /\ c \in Procs
  BY Calls
<1>7. phase' = [phase EXCEPT ![u] = "stop"]
  BY DEF Notify
<1>8. QED
  BY <1>1, <1>5, <1>6, <1>7 DEF TypeOK

LEMMA AcceptedStep == BaseInv /\ [Next]_vars => Accepted'
<1> SUFFICES ASSUME BaseInv, [Next]_vars PROVE Accepted'
  OBVIOUS
<1>1. TypeOK /\ \E n \in Configs : \A c \in Configs : phase[c] # "idle" <=> c <= n
  BY DEF BaseInv, Accepted
<1>2. ASSUME NEW u \in Reloads, Notify(u) PROVE Accepted'
  BY <1>1, <1>2, NextAccepted, Calls DEF Accepted
<1>3. CASE \A c \in Configs : phase'[c] = "idle" <=> phase[c] = "idle"
  BY <1>1, <1>3 DEF Accepted
<1>4. QED
  BY <1>1, <1>2, <1>3, RestStays DEF Next

LEMMA BaseStep == BaseInv /\ [Next]_vars => BaseInv'
BY TypesStep, PlacedStep, AcceptedStep DEF BaseInv

LEMMA BaseHolds == Init => BaseInv
<1> SUFFICES ASSUME Init PROVE BaseInv
  OBVIOUS
<1>1. First \in Subsystems /\ TypeOK
  BY Calls DEF Init, TypeOK, First, Subsystems
<1>2. Placed
  BY Calls DEF Init, Placed
<1>3. \A c \in Configs : phase[c] # "idle" <=> c <= 0
  BY Calls DEF Init
<1>4. QED
  BY <1>1, <1>2, <1>3, Calls DEF BaseInv, Accepted

\* What every call keeps, however calls overlap.
THEOREM BaseInvariant == Init /\ [][Next]_vars => []BaseInv
BY BaseHolds, BaseStep, PTL

-----------------------------------------------------------------------------
(* One reload at a time.                                                    *)

LEMMA OneUnsettled ==
    ASSUME InTurn, NEW c \in Configs, NEW d \in Configs, c # d
    PROVE  Settled(c) \/ Settled(d)
BY Calls DEF InTurn, Settled

LEMMA CalmHolds == Init => Calm
<1> SUFFICES ASSUME Init PROVE Calm
  OBVIOUS
<1>1. \A c \in Configs : c \in Procs /\ c \in Nat
  BY Calls
<1>2. InTurn
  BY <1>1 DEF Init, InTurn
<1>3. Held /\ Cleared
  BY <1>1 DEF Init, Held, Cleared, Emptied
<1>4. Kept
  BY <1>1, Sequence DEF Init, Kept, Filled
<1>5. QED
  BY <1>2, <1>3, <1>4 DEF Calm

LEMMA NotifyCalm ==
    ASSUME BaseInv, Calm, NEW u \in Reloads, Notify(u), \A v \in Configs : Settled(v)
    PROVE  Calm'
<1>1. TypeOK /\ Placed /\ InTurn /\ u \in Configs
  BY Calls DEF BaseInv, Calm
<1>2. phase' = [phase EXCEPT ![u] = "stop"] /\ phase[u] = "idle"
      /\ UNCHANGED <<field, sock, step, waiting, exit>>
  BY DEF Notify
<1>3. \A c \in Configs : c # u => phase'[c] = phase[c] /\ phase[c] \in {"idle", "done"}
  BY <1>1, <1>2, Calls DEF TypeOK, Settled
<1>4. phase'[u] = "stop" /\ step[u] = First
  BY <1>1, <1>2, Calls DEF TypeOK, Placed
<1>5. \A c \in Configs : c < u => phase[c] = "done"
  <2>1. \A c \in Configs : c < u => phase[c] # "idle"
    BY DEF Notify, Reloads, Configs
  <2>2. QED
    BY <1>3, <2>1, Calls
<1>6. InTurn'
  <2> SUFFICES ASSUME NEW c \in Configs, NEW d \in Configs, c < d, phase'[d] # "idle"
               PROVE  phase'[c] = "done"
    BY DEF InTurn
  <2>1. c \in Nat /\ d \in Nat
    BY Calls
  <2>2. CASE d = u
    BY <1>3, <1>5, <2>1, <2>2
  <2>3. CASE d # u
    <3>1. phase[d] # "idle" /\ phase[c] = "done"
      BY <1>1, <1>3, <2>3 DEF InTurn
    <3>2. QED
      BY <1>2, <1>3, <3>1
  <2>4. QED
    BY <2>2, <2>3
<1>7. Held' /\ Cleared'
  BY <1>2, <1>3, <1>4, Sequence DEF Calm, Held, Cleared, Emptied
<1>8. Kept'
  <2> SUFFICES ASSUME NEW c \in Configs, NEW s \in Subsystems, Filled(c, s)', Running', phase'[Shutdown] = "idle"
               PROVE  field'[s] = c /\ sock'[c][s] = "listening"
    BY DEF Kept
  <2>1. c # u /\ phase[c] = "done" /\ IsLatest(c)'
    BY <1>3, <1>4 DEF Filled
  <2>2. ~(c < u)
    BY <1>1, <1>4, <2>1 DEF IsLatest
  <2>3. u < c
    BY <2>1, <2>2, <1>1, Calls
  <2>4. phase[u] = "done"
    BY <1>1, <2>1, <2>3 DEF InTurn
  <2>5. QED
    BY <1>2, <2>4
<1>9. QED
  BY <1>6, <1>7, <1>8 DEF Calm

\* A step that leaves every call of start() and stop() where it is.
LEMMA RestCalm ==
    ASSUME Calm, UNCHANGED <<field, sock, step>>, \A c \in Configs : phase'[c] = phase[c],
           Running' /\ phase'[Shutdown] = "idle" => Running /\ phase[Shutdown] = "idle"
    PROVE  Calm'
<1>1. InTurn' /\ Held' /\ Cleared'
  BY DEF Calm, InTurn, Held, Cleared, Emptied
<1>2. \A c \in Configs, s \in Subsystems : Filled(c, s)' => Filled(c, s)
  BY DEF Filled, IsLatest
<1>3. Kept'
  BY <1>2 DEF Calm, Kept
<1>4. QED
  BY <1>1, <1>3 DEF Calm

\* Before the shutdown, a call that stops something has no other beside it, and
\* nothing is kept.
LEMMA StopsAlone ==
    ASSUME BaseInv, Calm, NEW p \in Procs, phase[p] \in {"stop", "abort"},
           phase[Shutdown] = "idle", NEW c \in Configs, NEW s \in Subsystems
    PROVE  ~Filled(c, s)
<1>1. p \in Configs /\ InTurn
  BY Calls DEF Calm
<1>2. CASE phase[c] = "start"
  BY <1>1, <1>2, OneUnsettled DEF Settled
<1>3. CASE phase[c] = "done" /\ IsLatest(c)
  <2>1. ~(c < p) /\ c # p
    BY <1>1, <1>3 DEF IsLatest
  <2>2. p < c
    BY <1>1, <2>1, Calls
  <2>3. QED
    BY <1>1, <1>3, <2>2 DEF InTurn
<1>4. QED
  BY <1>2, <1>3 DEF Filled

LEMMA PassOverCalm ==
    ASSUME BaseInv, Calm, NEW p \in Procs, NEW s \in Subsystems, PassOver(p, s)
    PROVE  Calm'
<1>1. TypeOK /\ InTurn /\ Held /\ Cleared
  BY DEF BaseInv, Calm
<1>2. /\ phase[p] \in {"stop", "abort"} /\ step[p] = s
      /\ step' = [step EXCEPT ![p] = After(s)]
      /\ UNCHANGED <<sock, phase, waiting, exit>>
  BY DEF PassOver, Advance
<1>3. /\ field'[s] = None
      /\ \A r \in Subsystems : r # s => field'[r] = field[r]
      /\ \A c \in Configs : field[s] = c => sock[c][s] = "failed"
  BY <1>1, Calls DEF TypeOK, PassOver
<1>4. InTurn'
  BY <1>1, <1>2 DEF InTurn
<1>5. Held'
  BY <1>1, <1>2, <1>3 DEF Held
<1>6. Cleared'
  <2> SUFFICES ASSUME NEW c \in Configs, NEW r \in Subsystems, Emptied(c, r)'
               PROVE  field'[r] = None
    BY DEF Cleared
  <2>1. CASE r = s
    BY <1>3, <2>1
  <2>2. CASE r # s /\ c # p
    BY <1>1, <1>2, <1>3, <2>2 DEF Cleared, Emptied
  <2>3. CASE r # s /\ c = p
    BY <1>1, <1>2, <1>3, <2>3, Sequence, Calls DEF Cleared, Emptied, TypeOK
  <2>4. QED
    BY <2>1, <2>2, <2>3
<1>7. Kept'
  <2> SUFFICES ASSUME phase[Shutdown] = "idle", NEW c \in Configs, NEW r \in Subsystems, Filled(c, r)'
               PROVE  FALSE
    BY <1>2 DEF Kept
  <2>1. c # p
    BY <1>2 DEF Filled
  <2>2. Filled(c, r)
    BY <1>2, <2>1 DEF Filled, IsLatest
  <2>3. QED
    BY <1>2, <2>2, StopsAlone
<1>8. QED
  BY <1>4, <1>5, <1>6, <1>7 DEF Calm

LEMMA CloseCalm ==
    ASSUME BaseInv, Calm, NEW p \in Procs, NEW s \in Subsystems, Close(p, s)
    PROVE  Calm'
<1>1. TypeOK /\ InTurn /\ Held /\ Cleared
  BY DEF BaseInv, Calm
<1>2. /\ phase[p] \in {"stop", "abort"}
      /\ UNCHANGED <<field, phase, step, exit>>
      /\ field[s] \in Configs
      /\ sock' = [sock EXCEPT ![field[s]][s] = "closing"]
      /\ sock[field[s]][s] \in {"listening", "closing"}
  BY <1>1 DEF Close, TypeOK
<1>3. InTurn' /\ Cleared'
  BY <1>1, <1>2 DEF InTurn, Cleared, Emptied
<1>4. Held'
  BY <1>1, <1>2 DEF Held, TypeOK
<1>5. Kept'
  <2> SUFFICES ASSUME phase[Shutdown] = "idle", NEW c \in Configs, NEW r \in Subsystems, Filled(c, r)'
               PROVE  FALSE
    BY <1>2 DEF Kept
  <2>1. Filled(c, r)
    BY <1>2 DEF Filled, IsLatest
  <2>2. QED
    BY <1>2, <2>1, StopsAlone
<1>6. QED
  BY <1>3, <1>4, <1>5 DEF Calm

LEMMA OpenCalm ==
    ASSUME BaseInv, Calm, NEW c \in Configs, NEW s \in Subsystems, Open(c, s)
    PROVE  Calm'
<1>1. TypeOK /\ InTurn /\ Held /\ Cleared /\ Kept /\ c \in Procs
  BY Calls DEF BaseInv, Calm
<1>2. /\ phase[c] = "start" /\ step[c] = s /\ Running
      /\ field' = [field EXCEPT ![s] = c]
      /\ sock' = [sock EXCEPT ![c][s] = "listening"]
      /\ step' = [step EXCEPT ![c] = After(s)]
      /\ UNCHANGED <<phase, waiting, exit>>
  BY DEF Open, Advance
<1>3. field[s] = None
  BY <1>1, <1>2, Sequence DEF Cleared, Emptied
<1>4. \A d \in Configs : sock[d][s] \notin {"listening", "closing"}
  BY <1>1, <1>3, Calls DEF Held
<1>5. \A d \in Configs : d # c => Settled(d)
  BY <1>1, <1>2, OneUnsettled DEF Settled
<1>6. InTurn'
  BY <1>1, <1>2 DEF InTurn
<1>7. Held'
  BY <1>1, <1>2, <1>4 DEF Held, TypeOK
<1>8. Cleared'
  <2> SUFFICES ASSUME NEW d \in Configs, NEW r \in Subsystems, Emptied(d, r)'
               PROVE  field'[r] = None
    BY DEF Cleared
  <2>1. d = c
    BY <1>2, <1>5 DEF Emptied, Settled
  <2>2. ~Before(r, After(s))
    BY <1>1, <1>2, <2>1 DEF Emptied, TypeOK
  <2>3. r # s /\ ~Before(r, s)
    BY <2>2, Sequence
  <2>4. QED
    BY <1>1, <1>2, <2>3 DEF Cleared, Emptied, TypeOK
<1>9. Kept'
  <2> SUFFICES ASSUME phase[Shutdown] = "idle", NEW d \in Configs, NEW r \in Subsystems, Filled(d, r)'
               PROVE  field'[r] = d /\ sock'[d][r] = "listening"
    BY <1>2 DEF Kept
  <2>1. d = c
    <3> SUFFICES ASSUME d # c PROVE FALSE
      OBVIOUS
    <3>1. phase[d] = "done" /\ IsLatest(d)
      BY <1>2, <1>5 DEF Filled, Settled, IsLatest
    <3>2. ~(d < c)
      BY <1>2, <3>1 DEF IsLatest
    <3>3. QED
      BY <1>1, <1>2, <3>1, <3>2, Calls DEF InTurn
  <2>2. CASE r = s
    BY <1>1, <1>2, <2>1, <2>2 DEF TypeOK
  <2>3. CASE r # s
    <3>1. Before(r, s)
      BY <1>1, <1>2, <2>1, <2>3, Sequence DEF Filled, TypeOK
    <3>2. field[r] = c /\ sock[c][r] = "listening"
      BY <1>1, <1>2, <3>1 DEF Kept, Filled
    <3>3. QED
      BY <1>1, <1>2, <2>1, <2>3, <3>2 DEF TypeOK
  <2>4. QED
    BY <2>2, <2>3
<1>10. QED
  BY <1>6, <1>7, <1>8, <1>9 DEF Calm

\* A bind that fails or hangs leaves the fields to stop(), and nothing kept.
LEMMA BindFailsCalm ==
    ASSUME BaseInv, Calm, NEW c \in Configs, NEW s \in Subsystems, BindFails(c, s) \/ BindHangs(c, s)
    PROVE  Calm'
<1>1. TypeOK /\ InTurn /\ Held /\ Cleared /\ c \in Procs /\ c # Shutdown
  BY Calls DEF BaseInv, Calm
<1>2. /\ phase[c] = "start" /\ step[c] = s
      /\ field' = [field EXCEPT ![s] = c]
      /\ sock' = [sock EXCEPT ![c][s] = "failed"]
      /\ phase' \in {[phase EXCEPT ![c] = "abort"], [phase EXCEPT ![c] = "hung"]}
      /\ UNCHANGED exit
      /\ \A d \in Configs : d # c => step'[d] = step[d]
  BY <1>1, Calls DEF BindFails, BindHangs, TypeOK
<1>3. field[s] = None
  BY <1>1, <1>2, Sequence DEF Cleared, Emptied
<1>4. \A d \in Configs : d # c => Settled(d) /\ phase'[d] = phase[d]
  BY <1>1, <1>2, OneUnsettled, Calls DEF Settled, TypeOK
<1>5. phase'[c] \in {"abort", "hung"}
  BY <1>1, <1>2 DEF TypeOK
<1>6. \A d \in Configs : d < c => phase[d] = "done"
  BY <1>1, <1>2 DEF InTurn
<1>7. \A d \in Configs : c < d => phase[d] = "idle"
  BY <1>1, <1>2 DEF InTurn
<1>8. InTurn'
  BY <1>1, <1>4, <1>5, <1>6, <1>7, Calls DEF InTurn
<1>9. Held'
  BY <1>1, <1>2, <1>3, Calls DEF Held, TypeOK
<1>10. Cleared'
  BY <1>4, <1>5 DEF Cleared, Emptied, Settled
<1>11. Kept'
  <2> SUFFICES ASSUME NEW d \in Configs, NEW r \in Subsystems, Filled(d, r)'
               PROVE  FALSE
    BY DEF Kept
  <2>1. d # c /\ phase[d] = "done" /\ IsLatest(d)'
    BY <1>4, <1>5 DEF Filled, Settled
  <2>2. ~(d < c)
    BY <1>5, <2>1 DEF IsLatest
  <2>3. QED
    BY <1>7, <2>1, <2>2, Calls
<1>12. QED
  BY <1>8, <1>9, <1>10, <1>11 DEF Calm

LEMMA TurnCalm ==
    ASSUME BaseInv, Calm, NEW p \in Procs, Turn(p)
    PROVE  Calm'
<1>1. TypeOK /\ InTurn /\ Held /\ Cleared /\ Kept /\ step[p] = "end" /\ UNCHANGED <<field, sock, waiting>>
  BY DEF BaseInv, Calm, Turn
<1>2. CASE phase[p] = "abort" \/ p = Shutdown
  <2>1. /\ UNCHANGED step /\ \A c \in Configs : phase'[c] = phase[c]
        /\ ~Running' \/ phase'[Shutdown] # "idle"
    BY <1>1, <1>2, Calls DEF Turn, TypeOK, Running
  <2>2. QED
    BY <1>1, <2>1, RestCalm
<1>3. ASSUME p \in Configs, phase[p] = "stop" PROVE Calm'
  <2>1. /\ phase' = [phase EXCEPT ![p] = "start"] /\ step' = [step EXCEPT ![p] = First]
        /\ UNCHANGED exit /\ p # Shutdown /\ phase'[Shutdown] = phase[Shutdown]
    BY <1>1, <1>3, Calls DEF Turn, TypeOK
  <2>2. \A c \in Configs : c # p => Settled(c) /\ phase'[c] = phase[c] /\ step'[c] = step[c]
    BY <1>1, <1>3, <2>1, OneUnsettled, Calls DEF Settled, TypeOK
  <2>3. phase'[p] = "start" /\ step'[p] = First
    BY <1>1, <2>1 DEF TypeOK
  <2>4. InTurn' /\ Held'
    BY <1>1, <1>3, <2>2, <2>3 DEF InTurn, Held
  <2>5. \A s \in Subsystems : field[s] = None
    BY <1>1, <1>3 DEF Cleared, Emptied, Before
  <2>6. Cleared'
    BY <1>1, <2>5 DEF Cleared
  <2>7. Kept'
    <3> SUFFICES ASSUME Running, phase[Shutdown] = "idle", NEW c \in Configs, NEW s \in Subsystems, Filled(c, s)'
                 PROVE  FALSE
      BY <2>1 DEF Kept, Running
    <3>1. c # p
      BY <2>3, Sequence DEF Filled
    <3>2. phase[c] = "done" /\ IsLatest(c)
      BY <1>3, <2>2, <2>3, <3>1 DEF Filled, Settled, IsLatest
    <3>3. QED
      BY <1>3, <3>2, StopsAlone DEF Filled
  <2>8. QED
    BY <2>4, <2>6, <2>7 DEF Calm
<1>4. ASSUME p \in Configs, phase[p] = "start" PROVE Calm'
  <2>1. /\ phase' = [phase EXCEPT ![p] = "done"] /\ UNCHANGED <<exit, step>> /\ p # Shutdown
        /\ phase'[Shutdown] = phase[Shutdown]
    BY <1>1, <1>4, Calls DEF Turn, TypeOK
  <2>2. \A c \in Configs : c # p => Settled(c) /\ phase'[c] = phase[c]
    BY <1>1, <1>4, <2>1, OneUnsettled, Calls DEF Settled, TypeOK
  <2>3. phase'[p] = "done"
    BY <1>1, <2>1 DEF TypeOK
  <2>4. InTurn' /\ Held'
    BY <1>1, <1>4, <2>2, <2>3 DEF InTurn, Held
  <2>5. Cleared'
    BY <1>1, <2>1, <2>2, <2>3 DEF Cleared, Emptied
  <2>6. Kept'
    <3> SUFFICES ASSUME Running, phase[Shutdown] = "idle", NEW c \in Configs, NEW s \in Subsystems, Filled(c, s)'
                 PROVE  field[s] = c /\ sock[c][s] = "listening"
      BY <1>1, <2>1 DEF Kept, Running
    <3>1. CASE c = p
      <4>1. Filled(p, s)
        BY <1>1, <1>4 DEF Filled, Before
      <4>2. QED
        BY <1>1, <3>1, <4>1 DEF Kept
    <3>2. CASE c # p
      <4>1. phase[c] = "done" /\ IsLatest(c)
        BY <1>4, <2>2, <2>3, <3>2 DEF Filled, Settled, IsLatest
      <4>2. QED
        BY <1>1, <4>1 DEF Kept, Filled
    <3>3. QED
      BY <3>1, <3>2
  <2>7. QED
    BY <2>4, <2>5, <2>6 DEF Calm
<1>5. QED
  BY <1>2, <1>3, <1>4, Calls DEF Turn

LEMMA DrainedCalm ==
    ASSUME BaseInv, Calm, NEW c \in Configs, NEW s \in Subsystems, Drained(c, s)
    PROVE  Calm'
<1>1. TypeOK /\ Placed /\ InTurn /\ Held /\ Cleared /\ Kept
  BY DEF BaseInv, Calm
<1>2. /\ sock[c][s] = "closing" /\ sock' = [sock EXCEPT ![c][s] = "closed"]
      /\ UNCHANGED <<phase, exit>>
      /\ \A r \in Subsystems : r # s => field'[r] = field[r]
      /\ field'[s] \in {field[s], None}
  BY <1>1 DEF Drained, TypeOK
<1>3. /\ \A p \in Procs : waiting[p] /\ step[p] = s => step'[p] = After(s) /\ field'[s] = None
      /\ \A p \in Procs : ~(waiting[p] /\ step[p] = s) => step'[p] = step[p]
  BY <1>1 DEF Drained, TypeOK
<1>4. field[s] = c
  BY <1>1, <1>2 DEF Held
<1>5. InTurn'
  BY <1>1, <1>2 DEF InTurn
<1>6. Held'
  BY <1>1, <1>2, <1>4 DEF Held, TypeOK
<1>7. Cleared'
  <2> SUFFICES ASSUME NEW d \in Configs, NEW r \in Subsystems, Emptied(d, r)'
               PROVE  field'[r] = None
    BY DEF Cleared
  <2>1. CASE waiting[d] /\ step[d] = s
    <3>1. phase[d] = "stop" /\ Before(r, After(s))
      BY <1>1, <1>2, <1>3, <2>1, Calls DEF Emptied, Placed
    <3>2. Before(r, s) \/ r = s
      BY <3>1, Sequence
    <3>3. QED
      BY <1>1, <1>2, <1>3, <2>1, <3>1, <3>2, Calls DEF Cleared, Emptied
  <2>2. CASE ~(waiting[d] /\ step[d] = s)
    BY <1>1, <1>2, <1>3, <2>2, Calls DEF Cleared, Emptied
  <2>3. QED
    BY <2>1, <2>2
<1>8. Kept'
  <2> SUFFICES ASSUME Running, phase[Shutdown] = "idle", NEW d \in Configs, NEW r \in Subsystems, Filled(d, r)'
               PROVE  field'[r] = d /\ sock'[d][r] = "listening"
    BY <1>2 DEF Kept, Running
  <2>1. ~waiting[d]
    BY <1>1, <1>2, Calls DEF Filled, Placed
  <2>2. Filled(d, r)
    BY <1>2, <1>3, <2>1, Calls DEF Filled, IsLatest
  <2>3. field[r] = d /\ sock[d][r] = "listening"
    BY <1>1, <2>2 DEF Kept
  <2>4. r # s
    BY <1>2, <1>4, <2>3
  <2>5. QED
    BY <1>1, <1>2, <2>3, <2>4 DEF TypeOK
<1>9. QED
  BY <1>5, <1>6, <1>7, <1>8 DEF Calm

LEMMA CalmStep ==
    ASSUME BaseInv, Calm, [Next]_vars,
           (\E u \in Reloads : Notify(u)) => \A c \in Configs : Settled(c)
    PROVE  Calm'
<1>1. TypeOK
  BY DEF BaseInv
<1>2. ASSUME Signal \/ ControlPlaneClosed \/ ForceExit \/ UNCHANGED vars PROVE Calm'
  BY <1>1, <1>2, Calls, RestCalm DEF Signal, ControlPlaneClosed, ForceExit, vars, TypeOK, Running
<1>3. ASSUME NEW p \in Procs, Work(p) PROVE Calm'
  BY <1>3, PassOverCalm, CloseCalm, OpenCalm, BindFailsCalm, TurnCalm DEF Work
<1>4. QED
  BY <1>2, <1>3, NotifyCalm, DrainedCalm DEF Next

LEMMA LatestIsLast ==
    ASSUME NEW n \in Configs, \A c \in Configs : phase[c] # "idle" <=> c <= n
    PROVE  Latest = n
<1>1. \A c \in Configs : c \in Nat
  BY Calls
<1>2. /\ phase[n] # "idle" /\ \A d \in Configs : phase[d] # "idle" => d <= n
      /\ \A c \in Configs : (phase[c] # "idle" /\ \A d \in Configs : phase[d] # "idle" => d <= c) => c = n
  BY <1>1
<1>3. QED
  BY <1>2 DEF Latest

\* At rest, what was accepted last is served.
LEMMA CalmServes ==
    ASSUME BaseInv, Calm, Quiescent, NEW s \in Subsystems
    PROVE  field[s] = Latest /\ sock[Latest][s] = "listening"
<1>1. PICK n \in Configs : \A c \in Configs : phase[c] # "idle" <=> c <= n
  BY DEF BaseInv, Accepted
<1>2. Latest = n
  BY <1>1, LatestIsLast
<1>3. \A c \in Configs : c \in Nat
  BY Calls
<1>4. phase[n] = "done" /\ IsLatest(n)
  BY <1>1, <1>3 DEF Quiescent, Settled, IsLatest
<1>5. QED
  BY <1>2, <1>4 DEF Quiescent, Calm, Kept, Filled

\* Updates far enough apart keep the daemon calm.
LEMMA SerialStep == BaseInv /\ Calm /\ [Next /\ FarApart]_vars => BaseInv' /\ Calm'
<1> SUFFICES ASSUME BaseInv, Calm, [Next /\ FarApart]_vars PROVE BaseInv' /\ Calm'
  OBVIOUS
<1>1. ASSUME NEW u \in Reloads, Notify(u), FarApart PROVE \A c \in Configs : Settled(c)
  <2>1. phase[u] = "idle" /\ phase'[u] # "idle" /\ phase[0] = "done"
    BY <1>1, Calls DEF Notify, BaseInv, TypeOK
  <2>2. \A c \in Configs : c = 0 \/ c \in Reloads
    BY DEF Configs, Reloads
  <2>3. QED
    BY <1>1, <2>1, <2>2 DEF FarApart, Settled
<1>2. CASE UNCHANGED vars
  BY <1>2, BaseStep, Calls, RestCalm DEF vars, Running
<1>3. QED
  BY <1>1, <1>2, BaseStep, CalmStep

\* The inductive invariant of reloads that come one at a time.
THEOREM CalmInvariant == SerialSpec => [](BaseInv /\ Calm)
<1>1. Init => BaseInv /\ Calm
  BY BaseHolds, CalmHolds
<1>2. QED
  BY <1>1, SerialStep, PTL DEF SerialSpec

\* No reload loses the handle of a listener that is still up, whatever ports
\* the configurations give and whatever binds fail.
THEOREM ListenersAreKept == SerialSpec => []NoLostListener
<1>1. Calm => NoLostListener
  BY DEF Calm, Held, NoLostListener
<1>2. QED
  BY <1>1, CalmInvariant, PTL

\* Once nothing is going on, the configuration accepted last is served.
THEOREM LatestIsServed == SerialSpec => []QuietDaemonServesLatest
<1>1. BaseInv /\ Calm => QuietDaemonServesLatest
  BY CalmServes DEF QuietDaemonServesLatest
<1>2. QED
  BY <1>1, CalmInvariant, PTL

-----------------------------------------------------------------------------
(* Reloads that overlap.                                                    *)

DnsPortIsFixed == \A c, d \in Configs : PortOf(c, "dns") = PortOf(d, "dns")

\* A reload that is to bind the DNS port, and one that stopped its DNS listener.
Stopping(c) == phase[c] = "stop" \/ (phase[c] = "start" /\ step[c] = "dns")
Past(c) == Stopping(c) /\ (phase[c] = "stop" => step[c] # "dns" \/ waiting[c])

\* A bind failed or hangs, or will: two reloads are to bind the DNS port, or one
\* that stops no DNS listener any more while there is one.
Stuck(c) == phase[c] \in {"abort", "hung"}

Doomed ==
    \/ \E c \in Configs : Stuck(c)
    \/ \E c, d \in Configs : c # d /\ Stopping(c) /\ Stopping(d)
    \/ \E c, d \in Configs : Past(c) /\ sock[d]["dns"] = "listening"

\* While a reload has yet to look for its DNS listener, no other call goes on.
Blocked(p) == phase[p] \in {"idle", "closing", "done", "hung"} \/ waiting[p]
Newcomer(d) == phase[d] = "stop" /\ step[d] = "dns" /\ ~waiting[d]
NewcomersAlone == \A d \in Configs : Newcomer(d) => \A p \in Procs : p # d => Blocked(p)

Up == Running /\ phase[Shutdown] = "idle"

OverlapInv == BaseInv /\ (Up => NewcomersAlone /\ (Doomed \/ Calm))

LEMMA UpWas == BaseInv /\ [Next]_vars /\ Up' => Up
<1> SUFFICES ASSUME BaseInv, [Next]_vars, Up' PROVE Up
  OBVIOUS
<1>1. TypeOK
  BY DEF BaseInv
<1>2. Next => Running
  BY DEF Next, Work, Notify, Signal, PassOver, Close, Open, BindFails, BindHangs, Turn, Drained, ControlPlaneClosed, ForceExit
<1>3. Running
  BY <1>2 DEF vars, Up, Running
<1>4. ASSUME Signal \/ ControlPlaneClosed PROVE FALSE
  BY <1>1, <1>4, Calls DEF Signal, ControlPlaneClosed, Up, TypeOK
<1>5. ASSUME NEW u \in Reloads, Notify(u) PROVE phase[Shutdown] = "idle"
  BY <1>1, <1>5, Calls DEF Notify, Up, TypeOK
<1>6. ASSUME NEW p \in Procs, Work(p) PROVE phase[Shutdown] = "idle"
  <2>1. CASE \E s \in Subsystems : PassOver(p, s) \/ Close(p, s) \/ Open(p, s)
    BY <2>1 DEF PassOver, Close, Open, Up
  <2>2. CASE p \in Configs /\ \E s \in Subsystems : BindFails(p, s) \/ BindHangs(p, s)
    BY <1>1, <2>2, Calls DEF BindFails, BindHangs, Up, TypeOK
  <2>3. CASE Turn(p)
    BY <1>1, <2>3, Calls DEF Turn, Up, TypeOK
  <2>4. QED
    BY <1>6, <2>1, <2>2, <2>3 DEF Work
<1>7. ASSUME (\E c \in Configs, s \in Subsystems : Drained(c, s)) \/ ForceExit \/ UNCHANGED vars
      PROVE  phase[Shutdown] = "idle"
  BY <1>7 DEF Drained, ForceExit, vars, Up
<1>8. QED
  BY <1>3, <1>4, <1>5, <1>6, <1>7 DEF Next, Up

\* What a call that is not blocked can do, while the daemon is up.
LEMMA StepKinds ==
    ASSUME BaseInv, [Next]_vars, Up, Up'
    PROVE  \/ AllBlocked /\ \E u \in Reloads : Notify(u)
           \/ AllBlocked /\ \E c \in Configs, s \in Subsystems : Drained(c, s)
           \/ \E c \in Configs : ~Blocked(c) /\ Work(c)
           \/ UNCHANGED vars
<1>1. TypeOK /\ Placed
  BY DEF BaseInv
<1>2. ASSUME Signal \/ ControlPlaneClosed \/ ForceExit PROVE FALSE
  BY <1>1, <1>2, Calls DEF Signal, ControlPlaneClosed, ForceExit, Up, Running, TypeOK
<1>3. ASSUME NEW p \in Procs, Work(p) PROVE p \in Configs /\ ~Blocked(p)
  <2>1. ~Blocked(p)
    <3>1. CASE \E s \in Subsystems : PassOver(p, s) \/ Close(p, s)
      BY <3>1 DEF PassOver, Close, Blocked
    <3>2. CASE \E s \in Subsystems : Open(p, s) \/ BindFails(p, s) \/ BindHangs(p, s)
      BY <1>1, <3>2 DEF Open, BindFails, BindHangs, Blocked, Placed
    <3>3. CASE Turn(p)
      BY <1>1, <3>3, Sequence DEF Turn, Blocked, Placed
    <3>4. QED
      BY <1>3, <3>1, <3>2, <3>3 DEF Work
  <2>2. p # Shutdown
    BY <2>1 DEF Up, Blocked
  <2>3. QED
    BY <2>1, <2>2, Calls
<1>4. QED
  BY <1>2, <1>3 DEF Next, Notify, Drained

LEMMA NewcomersStep ==
    ASSUME BaseInv, NewcomersAlone, [Next]_vars, Up, Up'
    PROVE  NewcomersAlone'
<1>1. TypeOK /\ Placed
  BY DEF BaseInv
<1>2. CASE AllBlocked /\ \E u \in Reloads : Notify(u)
  <2>1. PICK u \in Reloads : Notify(u)
    BY <1>2
  <2>2. phase' = [phase EXCEPT ![u] = "stop"] /\ UNCHANGED <<step, waiting>>
    BY <2>1 DEF Notify
  <2>3. \A p \in Procs : p # u => phase'[p] = phase[p] /\ Blocked(p)'
    BY <1>1, <1>2, <2>2 DEF AllBlocked, Blocked, TypeOK
  <2>4. QED
    BY <2>3, Calls DEF NewcomersAlone, Newcomer, Blocked
<1>3. CASE AllBlocked /\ \E c \in Configs, s \in Subsystems : Drained(c, s)
  <2>1. PICK s \in Subsystems : \E c \in Configs : Drained(c, s)
    BY <1>3
  <2>2. \A p \in Procs : IF waiting[p] /\ step[p] = s THEN step'[p] = After(s)
                        ELSE step'[p] = step[p] /\ waiting'[p] = waiting[p]
    BY <1>1, <2>1 DEF Drained, TypeOK
  <2>3. phase' = phase
    BY <2>1 DEF Drained
  <2>4. \A d \in Configs : ~Newcomer(d)'
    BY <1>3, <2>2, <2>3, Calls, Sequence DEF AllBlocked, Newcomer, First
  <2>5. QED
    BY <2>4 DEF NewcomersAlone
<1>4. ASSUME NEW c \in Configs, ~Blocked(c), Work(c) PROVE NewcomersAlone'
  <2>1. \A d \in Configs : d # c => ~Newcomer(d)
    BY <1>4, Calls DEF NewcomersAlone
  <2>2. /\ \A p \in Procs : p # c => phase'[p] = phase[p] /\ step'[p] = step[p] /\ waiting'[p] = waiting[p]
        /\ ~Newcomer(c)'
    <3>1. CASE \E s \in Subsystems : PassOver(c, s)
      BY <1>1, <3>1, Calls, Sequence DEF PassOver, Advance, Newcomer, TypeOK, First
    <3>2. CASE \E s \in Subsystems : Close(c, s)
      BY <1>1, <3>2, Calls DEF Close, Newcomer, TypeOK
    <3>3. CASE \E s \in Subsystems : Open(c, s)
      BY <1>1, <3>3, Calls DEF Open, Advance, Newcomer, TypeOK
    <3>4. CASE \E s \in Subsystems : BindFails(c, s) \/ BindHangs(c, s)
      BY <1>1, <3>4, Calls DEF BindFails, BindHangs, Newcomer, TypeOK
    <3>5. CASE Turn(c)
      BY <1>1, <3>5, Calls DEF Turn, Newcomer, TypeOK, First
    <3>6. QED
      BY <1>4, <3>1, <3>2, <3>3, <3>4, <3>5 DEF Work
  <2>3. \A d \in Configs : ~Newcomer(d)'
    BY <2>1, <2>2, Calls DEF Newcomer
  <2>4. QED
    BY <2>3 DEF NewcomersAlone
<1>5. CASE UNCHANGED vars
  BY <1>5 DEF vars, NewcomersAlone, Newcomer, Blocked
<1>6. QED
  BY <1>2, <1>3, <1>4, <1>5, StepKinds

\* What one call does leaves the others where they are.
LEMMA WorkIsOwn ==
    ASSUME BaseInv, NEW c \in Configs, Work(c)
    PROVE  \A d \in Configs : d # c => /\ phase'[d] = phase[d] /\ step'[d] = step[d]
                                       /\ waiting'[d] = waiting[d]
<1>1. TypeOK
  BY DEF BaseInv
<1>2. CASE \E s \in Subsystems : PassOver(c, s)
  BY <1>1, <1>2, Calls DEF PassOver, Advance, TypeOK
<1>3. CASE \E s \in Subsystems : Close(c, s)
  BY <1>1, <1>3, Calls DEF Close, TypeOK
<1>4. CASE \E s \in Subsystems : Open(c, s)
  BY <1>1, <1>4, Calls DEF Open, Advance, TypeOK
<1>5. CASE \E s \in Subsystems : BindFails(c, s) \/ BindHangs(c, s)
  BY <1>1, <1>5, Calls DEF BindFails, BindHangs, TypeOK
<1>6. CASE Turn(c)
  BY <1>1, <1>6, Calls DEF Turn, TypeOK
<1>7. QED
  BY <1>2, <1>3, <1>4, <1>5, <1>6 DEF Work

\* A reload that is to bind the DNS port is until it opens its listener there,
\* and one that is past its DNS listener as well.
LEMMA StoppingStays ==
    ASSUME BaseInv, NEW c \in Configs, Work(c), Up', Stopping(c), ~Stuck(c)',
           ~Open(c, "dns")
    PROVE  Stopping(c)' /\ (Past(c) => Past(c)')
<1>1. TypeOK /\ Placed /\ c \in Procs /\ c # Shutdown
  BY Calls DEF BaseInv
<1>2. CASE \E s \in Subsystems : PassOver(c, s)
  BY <1>1, <1>2, Sequence DEF PassOver, Advance, TypeOK, Stopping, Past, First
<1>3. CASE \E s \in Subsystems : Close(c, s)
  BY <1>1, <1>3 DEF Close, TypeOK, Stopping, Past
<1>4. CASE \E s \in Subsystems : Open(c, s)
  BY <1>4 DEF Open, Stopping
<1>5. CASE \E s \in Subsystems : BindFails(c, s) \/ BindHangs(c, s)
  BY <1>1, <1>5 DEF BindFails, BindHangs, Stuck, TypeOK
<1>6. CASE Turn(c)
  BY <1>1, <1>6 DEF Turn, TypeOK, Stopping, Past, First
<1>7. QED
  BY <1>2, <1>3, <1>4, <1>5, <1>6 DEF Work

LEMMA DoomedByWork ==
    ASSUME BaseInv, NewcomersAlone, Doomed, DnsPortIsFixed, Up, Up',
           NEW c \in Configs, Work(c), ~Blocked(c)
    PROVE  Doomed'
<1> SUFFICES ASSUME \A d \in Configs : ~Stuck(d)' PROVE Doomed'
  BY DEF Doomed
<1>1. TypeOK /\ Placed /\ c \in Procs
  BY Calls DEF BaseInv
<1>2. \A d \in Configs : d # c => (Stopping(d)' <=> Stopping(d)) /\ (Past(d)' <=> Past(d))
  BY WorkIsOwn DEF Stopping, Past
<1>3. \A d \in Configs : d # c /\ Stopping(d) => Past(d)
  BY <1>1 DEF NewcomersAlone, Newcomer, Stopping, Past
<1>4. \A d \in Configs : ~Stuck(d)
  <2>1. ASSUME phase[c] = "abort" PROVE FALSE
    <3>1. CASE \E s \in Subsystems : PassOver(c, s) \/ Close(c, s) \/ Open(c, s) \/ BindFails(c, s) \/ BindHangs(c, s)
      BY <1>1, <2>1, <3>1 DEF PassOver, Close, Open, BindFails, BindHangs, Stuck
    <3>2. CASE Turn(c)
      BY <2>1, <3>2 DEF Turn, Up, Running
    <3>3. QED
      BY <3>1, <3>2 DEF Work
  <2>2. phase[c] # "hung"
    BY DEF Blocked
  <2>3. QED
    BY <2>1, <2>2, WorkIsOwn DEF Stuck
<1>5. CASE Open(c, "dns")
  <2>1. "dns" \in Subsystems /\ sock' = [sock EXCEPT ![c]["dns"] = "listening"] /\ PortFree(c, "dns")
        /\ phase[c] = "start" /\ step[c] = "dns"
    BY <1>5 DEF Open, Subsystems
  <2>2. sock'[c]["dns"] = "listening"
    BY <1>1, <2>1 DEF TypeOK
  <2>3. \A d \in Configs : sock[d]["dns"] # "listening"
    BY <2>1 DEF PortFree, DnsPortIsFixed
  <2>4. \E d \in Configs : d # c /\ Stopping(d)
    BY <1>4, <2>3 DEF Doomed
  <2>5. QED
    BY <1>2, <1>3, <2>2, <2>4 DEF Doomed
<1>6. CASE ~Open(c, "dns")
  <2>1. Stopping(c) => Stopping(c)' /\ (Past(c) => Past(c)')
    BY <1>6, StoppingStays
  <2>2. \A d \in Configs : (Stopping(d) => Stopping(d)') /\ (Past(d) => Past(d)')
    BY <1>2, <2>1 DEF Past
  <2>3. CASE \E d, e \in Configs : d # e /\ Stopping(d) /\ Stopping(e)
    BY <2>2, <2>3 DEF Doomed
  <2>4. ASSUME NEW d \in Configs, NEW e \in Configs, Past(d), sock[e]["dns"] = "listening"
        PROVE  Doomed'
    <3>1. CASE sock'[e]["dns"] = "listening"
      BY <2>2, <2>4, <3>1 DEF Doomed
    <3>2. CASE sock'[e]["dns"] # "listening"
      <4>1. CASE Close(c, "dns")
        <5>1. c # d /\ Stopping(c) /\ Stopping(d)
          BY <1>4, <2>4, <4>1 DEF Close, Past, Stopping, Stuck
        <5>2. QED
          BY <2>2, <5>1 DEF Doomed
      <4>2. ASSUME NEW s \in Subsystems, Close(c, s), s # "dns" PROVE FALSE
        BY <1>1, <2>4, <3>2, <4>2 DEF Close, TypeOK, Subsystems
      <4>3. ASSUME NEW s \in Subsystems, Open(c, s) PROVE FALSE
        BY <1>1, <2>4, <3>2, <4>3 DEF Open, TypeOK, Subsystems
      <4>4. ASSUME NEW s \in Subsystems, BindFails(c, s) \/ BindHangs(c, s) PROVE FALSE
        BY <1>1, <4>4 DEF BindFails, BindHangs, Stuck, TypeOK
      <4>5. CASE Turn(c) \/ \E s \in Subsystems : PassOver(c, s)
        BY <2>4, <3>2, <4>5 DEF Turn, PassOver
      <4>6. QED
        BY <4>1, <4>2, <4>3, <4>4, <4>5 DEF Work
    <3>3. QED
      BY <3>1, <3>2
  <2>5. QED
    BY <1>4, <2>3, <2>4 DEF Doomed
<1>7. QED
  BY <1>5, <1>6

LEMMA DoomedStep ==
    ASSUME BaseInv, NewcomersAlone, Doomed, DnsPortIsFixed, [Next]_vars, Up, Up'
    PROVE  Doomed'
<1>1. TypeOK /\ Placed
  BY DEF BaseInv
<1>2. ASSUME NEW u \in Reloads, Notify(u) PROVE Doomed'
  <2>1. /\ phase' = [phase EXCEPT ![u] = "stop"] /\ phase[u] = "idle"
        /\ UNCHANGED <<sock, step, waiting>>
    BY <1>2 DEF Notify
  <2>2. ~Stopping(u) /\ \A d \in Configs : d # u => phase'[d] = phase[d]
    BY <1>1, <2>1, Calls DEF TypeOK, Stopping
  <2>3. \A d \in Configs : /\ Stuck(d) => Stuck(d)'
                           /\ Stopping(d) => Stopping(d)'
                           /\ Past(d) => Past(d)'
    BY <2>1, <2>2 DEF Stopping, Past, Stuck
  <2>4. CASE \E c \in Configs : Stuck(c)
    BY <2>3, <2>4 DEF Doomed
  <2>5. CASE \E c, d \in Configs : c # d /\ Stopping(c) /\ Stopping(d)
    BY <2>3, <2>5 DEF Doomed
  <2>6. CASE \E c, d \in Configs : Past(c) /\ sock[d]["dns"] = "listening"
    BY <2>1, <2>3, <2>6 DEF Doomed
  <2>7. QED
    BY <2>4, <2>5, <2>6 DEF Doomed
<1>3. ASSUME AllBlocked, NEW c \in Configs, NEW s \in Subsystems, Drained(c, s) PROVE Doomed'
  <2>1. /\ \A p \in Procs : IF waiting[p] /\ step[p] = s THEN step'[p] = After(s)
                           ELSE step'[p] = step[p] /\ waiting'[p] = waiting[p]
        /\ sock[c][s] = "closing" /\ sock' = [sock EXCEPT ![c][s] = "closed"] /\ phase' = phase
    BY <1>1, <1>3 DEF Drained, TypeOK
  <2>2. \A d \in Configs : sock[d]["dns"] = "listening" => sock'[d]["dns"] = "listening"
    BY <1>1, <2>1 DEF TypeOK, Subsystems
  <2>3. \A d \in Configs : phase[d] # "start"
    BY <1>1, <1>3, Calls DEF AllBlocked, Placed
  <2>4. \A d \in Configs : (Stopping(d) => Stopping(d)') /\ (Past(d) => Past(d)')
    BY <2>1, <2>3, Calls, Sequence DEF Stopping, Past, First
  <2>5. QED
    BY <2>1, <2>2, <2>4 DEF Doomed, Stuck
<1>4. CASE UNCHANGED vars
  BY <1>4 DEF vars, Doomed, Stuck, Stopping, Past
<1>5. QED
  BY <1>2, <1>3, <1>4, StepKinds, DoomedByWork

\* A reload that begins beside another has doomed the daemon.
LEMMA OverlapDooms ==
    ASSUME BaseInv, Up, NEW u \in Reloads, Notify(u), NEW c \in Configs, ~Settled(c)
    PROVE  Doomed'
<1>1. TypeOK /\ Placed /\ u \in Configs
  BY Calls DEF BaseInv
<1>2. phase' = [phase EXCEPT ![u] = "stop"] /\ phase[u] = "idle" /\ AllBlocked
  BY DEF Notify
<1>3. c # u /\ phase[c] \in {"stop", "abort", "hung"}
  BY <1>1, <1>2, Calls DEF Settled, AllBlocked, Placed, TypeOK
<1>4. phase'[u] = "stop" /\ phase'[c] = phase[c]
  BY <1>1, <1>2, <1>3, Calls DEF TypeOK
<1>5. QED
  BY <1>1, <1>3, <1>4 DEF Doomed, Stuck, Stopping

LEMMA OverlapStep == DnsPortIsFixed /\ OverlapInv /\ [Next]_vars => OverlapInv'
<1> SUFFICES ASSUME DnsPortIsFixed, OverlapInv, [Next]_vars PROVE OverlapInv'
  OBVIOUS
<1>1. BaseInv /\ BaseInv'
  BY BaseStep DEF OverlapInv
<1>2. SUFFICES ASSUME Up' PROVE NewcomersAlone' /\ (Doomed \/ Calm)'
  BY <1>1 DEF OverlapInv
<1>3. Up /\ NewcomersAlone /\ (Doomed \/ Calm)
  BY <1>1, <1>2, UpWas DEF OverlapInv
<1>4. NewcomersAlone'
  BY <1>1, <1>2, <1>3, NewcomersStep
<1>5. CASE Doomed
  BY <1>1, <1>2, <1>3, <1>4, <1>5, DoomedStep
<1>6. CASE Calm
  <2>1. CASE (\E u \in Reloads : Notify(u)) => \A c \in Configs : Settled(c)
    BY <1>1, <1>4, <1>6, <2>1, CalmStep
  <2>2. CASE ~((\E u \in Reloads : Notify(u)) => \A c \in Configs : Settled(c))
    BY <1>1, <1>3, <1>4, <2>2, OverlapDooms
  <2>3. QED
    BY <2>1, <2>2
<1>7. QED
  BY <1>3, <1>5, <1>6

\* A daemon at rest is not doomed.
LEMMA RestIsCalm == ASSUME OverlapInv, Quiescent PROVE Calm
BY DEF OverlapInv, Quiescent, Up, Doomed, Stuck, Past, Stopping, Settled

LEMMA OverlapHolds == Init => OverlapInv
<1>1. Init => NewcomersAlone
  BY Calls DEF Init, NewcomersAlone, Newcomer
<1>2. QED
  BY <1>1, BaseHolds, CalmHolds DEF OverlapInv

\* The inductive invariant of reloads that run through each other, if none moves
\* the DNS port: they are as one at a time, or a bind is bound to fail.
THEOREM OverlapInvariant ==
    DnsPortIsFixed => (Init /\ [][Next]_vars => []OverlapInv)
<1> SUFFICES ASSUME DnsPortIsFixed PROVE Init /\ [][Next]_vars => []OverlapInv
  OBVIOUS
<1>1. Init => OverlapInv
  BY OverlapHolds
<1>2. OverlapInv /\ [Next]_vars => OverlapInv'
  BY OverlapStep
<1>3. QED
  BY <1>1, <1>2, PTL

\* Updates that come while reloads are under way: nobody waits for a reload, so
\* the reloads of two updates may run through each other, and yet, where the
\* DNS port stays the same, either a bind fails and ends the process or all
\* three listeners end up with the configuration that was accepted last.
THEOREM OverlapServesLatest ==
    DnsPortIsFixed => (Spec => []QuietDaemonServesLatest)
<1> SUFFICES ASSUME DnsPortIsFixed PROVE Spec => []QuietDaemonServesLatest
  OBVIOUS
<1>1. OverlapInv => QuietDaemonServesLatest
  BY RestIsCalm, CalmServes DEF QuietDaemonServesLatest, OverlapInv
<1>2. Init /\ [][Next]_vars => []OverlapInv
  BY OverlapInvariant
<1>3. QED
  BY <1>1, <1>2, PTL DEF Spec
=============================================================================
