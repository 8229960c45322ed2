---------------------------- MODULE MC_Subchannel ----------------------------
(* Small instances of Subchannel. *)
EXTENDS Subchannel
=============================================================================
