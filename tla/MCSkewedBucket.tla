--------------------------- MODULE MCSkewedBucket ---------------------------
(***************************************************************************)
(* 3 tokens in 4 ms under a clock that is set back.  The key lives for two *)
(* windows, so it expires within the horizon.                              *)
(***************************************************************************)
EXTENDS TokenBucket

MCCosts == {1, 3, 4}
=============================================================================
