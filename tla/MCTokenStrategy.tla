-------------------------- MODULE MCTokenStrategy --------------------------
(***************************************************************************)
(* 4 tokens in 3 ms.                                                       *)
(***************************************************************************)
EXTENDS TokenStrategy

MCCosts == {1, 4}
=============================================================================
