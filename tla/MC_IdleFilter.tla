---------------------------- MODULE MC_IdleFilter ----------------------------
(* Small instances of IdleFilter. *)
EXTENDS IdleFilter
=============================================================================
