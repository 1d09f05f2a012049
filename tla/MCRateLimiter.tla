---------------------------- MODULE MCRateLimiter ----------------------------
(* A small instance of RateLimiter, with fewer buckets than addresses.       *)
EXTENDS RateLimiter, TLC

CONSTANTS a, b, c

ThreeIps == {a, b, c}
Renamings == Permutations(ThreeIps)
=============================================================================
