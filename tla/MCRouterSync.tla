---------------------------- MODULE MCRouterSync -----------------------------
(* Instances of RouterSync for TLC. *)
EXTENDS RouterSync
=============================================================================
