--------------------------- MODULE MCTokenBucket ---------------------------
(***************************************************************************)
(* 4 tokens in 3 ms, so a millisecond refills one token and a third.  The  *)
(* key lives for two windows, so within the horizon the bucket fills, its  *)
(* origin moves and the key expires, also during a call of get_usage.      *)
(* Costs that fit, that fit only a full bucket, and that never do.         *)
(***************************************************************************)
EXTENDS TokenBucketUsage

MCCosts == {1, 4, 5}
=============================================================================
