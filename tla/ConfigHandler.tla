---------------------------- MODULE ConfigHandler ----------------------------
(***************************************************************************)
(* ConfigHandler of the control plane: how a request to the API comes in,  *)
(* is authenticated, and, if it is to change the configuration, has to     *)
(* carry a proof of work for the current window of five minutes.           *)
(***************************************************************************)
EXTENDS Integers

CONSTANTS
    Calls,         \* the requests to the API
    Sent(_),       \* what each carries: [path, method, authentic, json, work],
                   \* authentic covering all headers, and json the body; work
                   \* is a nonce, the body and device it was mined for, and the
                   \* window and the salt of the challenge
    MaxWindow,     \* bound on the clock, for TLC
    MaxSalts       \* bound on the restarts, for TLC

VARIABLES
    at,            \* how far each request has come, in the end its status code
    seenNonces,    \* the nonces used in currentPoWWindow
    currentPoWWindow,
    window,        \* the window of the clock
    salt,          \* which blindIndexSalt this process drew
    admitted       \* history: the requests whose proof of work was accepted

handlerVars == <<at, seenNonces, currentPoWWindow, window, salt, admitted>>

Codes == {"200", "400", "401", "403", "404", "405", "500"}
Open == {"reading", "updating"}

Mutation(c) == Sent(c).method \in {"PUT", "POST"}

-----------------------------------------------------------------------------

Init ==
    /\ at = [c \in Calls |-> "new"]
    /\ seenNonces = {} /\ currentPoWWindow = 0
    /\ window = 1
    /\ salt = 0
    /\ admitted = {}

Move(c, s) == at' = [at EXCEPT ![c] = s]

\* handleRequest up to its first await, or to its end.
Arrive(c) ==
    /\ at[c] = "new"
    /\ Move(c, CASE Sent(c).path = "malformed" -> "500"
                 [] Sent(c).path = "other" -> "404"
                 [] Sent(c).path = "metrics" -> IF Sent(c).method = "GET" THEN "200" ELSE "405"
                 [] OTHER -> IF Mutation(c) THEN "reading"
                             ELSE IF ~Sent(c).authentic THEN "401"
                             ELSE IF Sent(c).method = "GET" THEN "200" ELSE "405")
    /\ UNCHANGED <<seenNonces, currentPoWWindow, window, salt, admitted>>

\* readBodyStrict rejects: the connection breaks, or the body is too long and
\* the connection is destroyed, so that the 413 goes nowhere.
BodyFails(c) ==
    /\ at[c] = "reading"
    /\ Move(c, "400")
    /\ UNCHANGED <<seenNonces, currentPoWWindow, window, salt, admitted>>

\* The nonces of another window are forgotten.
Seen == IF currentPoWWindow = window THEN seenNonces ELSE {}

\* The hash of the challenge and the nonce begins with zeros: it was mined for
\* this window, under this salt.
SolvesInAnyWindow(c) == Sent(c).work.salt = salt
Solves(c) == Sent(c).work.salt = salt /\ Sent(c).work.window = window

\* The body is there: extractContext, verifyProofOfWork and, for a PUT whose
\* body parses, the call of updateConfig.
Deny(c) ==
    /\ at[c] = "reading" /\ ~Sent(c).authentic
    /\ Move(c, "401")
    /\ UNCHANGED <<seenNonces, currentPoWWindow, window, salt, admitted>>

Refuse(c) ==
    /\ at[c] = "reading" /\ Sent(c).authentic
    /\ Sent(c).work.nonce \in Seen \/ ~Solves(c)
    /\ Move(c, "403")
    /\ currentPoWWindow' = window /\ seenNonces' = Seen
    /\ UNCHANGED <<window, salt, admitted>>

Admit(c) ==
    /\ at[c] = "reading" /\ Sent(c).authentic
    /\ Sent(c).work.nonce \notin Seen /\ Solves(c)
    /\ Move(c, IF Sent(c).method = "POST" THEN "405"
               ELSE IF Sent(c).json THEN "updating" ELSE "400")
    /\ currentPoWWindow' = window /\ seenNonces' = Seen \cup {Sent(c).work.nonce}
    /\ admitted' = admitted \cup {c}
    /\ UNCHANGED <<window, salt>>

\* updateConfig has settled.
Settle(c, code) ==
    /\ at[c] = "updating"
    /\ Move(c, code)
    /\ UNCHANGED <<seenNonces, currentPoWWindow, window, salt, admitted>>

\* The process dies, and another takes its place with a salt of its own.
Die ==
    /\ salt < MaxSalts
    /\ salt' = salt + 1
    /\ at' = [c \in Calls |-> IF at[c] \in Open THEN "lost" ELSE at[c]]
    /\ seenNonces' = {} /\ currentPoWWindow' = 0
    /\ UNCHANGED <<window, admitted>>

\* The clock enters the next window, and is not set back.
NextWindow ==
    /\ window < MaxWindow
    /\ window' = window + 1
    /\ UNCHANGED <<at, seenNonces, currentPoWWindow, salt, admitted>>

Next ==
    \/ \E c \in Calls :
        \/ Arrive(c) \/ BodyFails(c) \/ Deny(c) \/ Refuse(c) \/ Admit(c)
        \/ Settle(c, "200") \/ Settle(c, "400")
    \/ Die \/ NextWindow

Spec == Init /\ [][Next]_handlerVars

-----------------------------------------------------------------------------

TypeOK ==
    /\ at \in [Calls -> {"new", "lost"} \cup Open \cup Codes]
    /\ currentPoWWindow \in Nat /\ window \in Nat /\ salt \in Nat
    /\ admitted \subseteq Calls

\* One proof of work admits one request, whoever repeats it and whenever, in
\* the window it was mined for, after the nonces of that window are forgotten,
\* or at another process.
NonceAdmitsOnce ==
    \A c, d \in admitted : Sent(c).work = Sent(d).work => c = d
=============================================================================
