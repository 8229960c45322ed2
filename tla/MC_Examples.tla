----------------------------- MODULE MC_Examples -----------------------------
(* A small instance of Examples. *)
EXTENDS Examples

MCNotes == 1..4
MCAt == [n \in MCNotes |-> IF n = 4 THEN "far" ELSE "near"]
=============================================================================
