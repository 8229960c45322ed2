-------------------------- MODULE MC_LockfreeEvent --------------------------
(* Small instances of LockfreeEvent. *)
EXTENDS LockfreeEvent, TLC

ReadWrite == <<"read", "write">>

Symmetry == Permutations(Pollers) \cup Permutations(Closers)
=============================================================================
