---------------------------- MODULE BinarySearch ----------------------------
(***************************************************************************)
(* The loop both scripts use to find a deadline: halve low..high until one *)
(* candidate is left, keeping the lower half whenever its last one is good *)
(* enough.                                                                 *)
(***************************************************************************)
EXTENDS Integers

FirstIn(good, low, high) ==
    LET search[range \in (low..high) \X (low..high)] ==
            LET middle == (range[1] + range[2]) \div 2
            IN  IF range[1] >= range[2]
                THEN range[1]
                ELSE IF middle \in good
                     THEN search[<<range[1], middle>>]
                     ELSE search[<<middle + 1, range[2]>>]
    IN  search[<<low, high>>]
=============================================================================
