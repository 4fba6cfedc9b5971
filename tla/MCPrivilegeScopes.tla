-------------------------- MODULE MCPrivilegeScopes --------------------------
(* PrivilegeScopes for TLC. *)
EXTENDS PrivilegeScopes
=============================================================================
