------------------------------ MODULE MCExecute ------------------------------
(* Execute for TLC. *)
EXTENDS Execute
=============================================================================
