---------------------------- MODULE MCConnection ----------------------------
(***************************************************************************)
(* Three tasks: one can hold the lock while another waits for it and a     *)
(* third runs scripts.  Three clients: one to open while two tasks still   *)
(* wait for commands on clients closed before.                             *)
(***************************************************************************)
EXTENDS Connection
=============================================================================
