-------------------------- MODULE MCSlidingWindow --------------------------
(***************************************************************************)
(* A limit of 3 per 3-second window in the code's scaled units, so that    *)
(* the weights 333, 666 and 1000 permille round as they do in the code;    *)
(* three windows of 6 half-second steps.                                   *)
(***************************************************************************)
EXTENDS SlidingWindowUsage

MCCosts == {1000, 2000, 3000, 4000}
=============================================================================
