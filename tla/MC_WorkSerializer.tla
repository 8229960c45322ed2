-------------------------- MODULE MC_WorkSerializer --------------------------
(* A small instance of WorkSerializer. *)
EXTENDS WorkSerializer
=============================================================================
