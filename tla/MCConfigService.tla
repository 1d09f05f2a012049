--------------------------- MODULE MCConfigService ---------------------------
(* Small instances of ConfigService: an update without secrets, one with a   *)
(* secret in the clear, one with a secret that is too long once it is sealed *)
(* and one refused by the schema; the ports come from the command line.      *)
EXTENDS ConfigService

CONSTANTS r1, r2, r3, r4

MCRequests == {r1, r2, r3, r4}

MCBody ==
    [r \in MCRequests |->
        [body   |-> r,
         valid  |-> r # r4,
         secret |-> IF r = r2 THEN "plain" ELSE IF r = r3 THEN "long" ELSE "none",
         ports  |-> "own"]]
=============================================================================
