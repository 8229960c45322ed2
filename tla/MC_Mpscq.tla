------------------------------ MODULE MC_Mpscq ------------------------------
(* A small instance of Mpscq. *)
EXTENDS Mpscq
=============================================================================
