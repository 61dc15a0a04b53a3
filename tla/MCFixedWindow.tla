--------------------------- MODULE MCFixedWindow ---------------------------
(***************************************************************************)
(* A limit of 3 per 2-second window, a second of 2 milliseconds: three     *)
(* windows, every phase of each, costs that fit once, twice, three times   *)
(* and never.                                                              *)
(***************************************************************************)
EXTENDS FixedWindowUsage

MCCosts == {1, 2, 3, 4}
=============================================================================
