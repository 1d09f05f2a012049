--------------------------- MODULE ConfigRegister ---------------------------
(***************************************************************************)
(* What the control plane promises about the server configuration, with no *)
(* lock, no temporary file and no system call: a register with a durable   *)
(* value (the configuration file) and a live value (what GET answers and   *)
(* what the listeners are given).  Updates take effect one at a time; an   *)
(* acknowledged update was durable at the moment it became live; a refused *)
(* update changed nothing; a crash loses only updates nobody acknowledged. *)
(***************************************************************************)
CONSTANTS
    Requests,      \* the updates submitted
    Value(_),      \* the configuration an update stores
    Storable(_),   \* the updates the schema accepts
    Loaded(_),     \* what a start makes live of a durable value
    Down           \* the live value while no process runs

VARIABLES
    durable,       \* the configuration a start would read
    live,          \* the configuration in force, or Down
    status         \* the progress of each update

vars == <<durable, live, status>>

Statuses == {"new", "pending", "applied", "ok", "rejected", "lost"}
InFlight == {"pending", "applied"}

Init ==
    /\ live = Loaded(durable)
    /\ status = [r \in Requests |-> "new"]

Submit(r) ==
    /\ live # Down
    /\ status[r] = "new"
    /\ status' = [status EXCEPT ![r] = "pending"]
    /\ UNCHANGED <<durable, live>>

Reject(r) ==
    /\ status[r] = "pending"
    /\ status' = [status EXCEPT ![r] = "rejected"]
    /\ UNCHANGED <<durable, live>>

\* One update is between its durable effect and its acknowledgement at most.
Apply(r) ==
    /\ status[r] = "pending"
    /\ Storable(r)
    /\ \A s \in Requests : status[s] # "applied"
    /\ durable' = Value(r)
    /\ status' = [status EXCEPT ![r] = "applied"]
    /\ UNCHANGED live

Acknowledge(r) ==
    /\ status[r] = "applied"
    /\ durable = Value(r)
    /\ live' = durable
    /\ status' = [status EXCEPT ![r] = "ok"]
    /\ UNCHANGED durable

Crash ==
    /\ live # Down
    /\ live' = Down
    /\ status' = [r \in Requests |->
                    IF status[r] \in InFlight THEN "lost" ELSE status[r]]
    /\ UNCHANGED durable

Restart ==
    /\ live = Down
    /\ live' = Loaded(durable)
    /\ UNCHANGED <<durable, status>>

Next ==
    \/ \E r \in Requests : Submit(r) \/ Reject(r) \/ Apply(r) \/ Acknowledge(r)
    \/ Crash
    \/ Restart

Spec == Init /\ [][Next]_vars
=============================================================================
