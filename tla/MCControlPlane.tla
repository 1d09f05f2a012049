---------------------------- MODULE MCControlPlane ----------------------------
(* A small instance of ControlPlane: an update, the same request once more,  *)
(* another update that was mined in the next window and found the same       *)
(* nonce, and a request that is not authentic.                               *)
EXTENDS ControlPlane

CONSTANTS r1, r2, r3, r4

MCRequests == {r1, r2, r3, r4}
MCBody == [r \in MCRequests |-> [body |-> r, valid |-> TRUE, secret |-> "none", ports |-> "own"]]
Mined(w) == [nonce |-> 1, content |-> w, window |-> w, salt |-> 0]
MCSent(r) ==
    [path |-> "config", method |-> "PUT", authentic |-> r # r4, json |-> TRUE,
     work |-> IF r = r3 THEN Mined(2) ELSE Mined(1)]
MCPortOf(c, s) == s
=============================================================================
