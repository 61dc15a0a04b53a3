---------------------------- MODULE MCAdmission -----------------------------
(***************************************************************************)
(* Three checks.  Of cost 2 in a quota of 5, two fill it but for 1 and the *)
(* third is denied; cost 6 never fits.  Two checks for the ends, with a    *)
(* quota of 2: cost 1 fills it twice, 2 needs it all and 3 never fits.     *)
(***************************************************************************)
EXTENDS Admission, TLC

AnyOrder == Permutations(Checks)
=============================================================================
