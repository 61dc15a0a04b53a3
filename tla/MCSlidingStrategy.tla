------------------------- MODULE MCSlidingStrategy -------------------------
(***************************************************************************)
(* The strategy's list of window lengths is 0, 2 and 4 seconds; the        *)
(* windows are one second long, and of the list, as in the code, only the  *)
(* 0 meets them.                                                           *)
(***************************************************************************)
EXTENDS SlidingStrategy

MCOffsets == <<0, 2, 4>>
MCCosts == {1000, 2000, 4000}
=============================================================================
