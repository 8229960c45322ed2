--------------------------- MODULE RouteChatAsync ---------------------------
(***************************************************************************)
(* RouteChat of GRPC_Examples/csharp/RouteGuide/RouteGuideServer/          *)
(* RouteGuideImpl.cs: the lock covers AddNoteForLocation only, which adds  *)
(* the note and returns a copy of the notes that were there.               *)
(***************************************************************************)
EXTENDS Naturals, Sequences, FiniteSets, SequencesExt

CONSTANTS Streams, Notes, Locations, At, None

VARIABLES
  routeNotes,  \* routeNotes[l]: the list of notes for l
  pc,          \* pc[s]: MoveNext, Add, Write, Done
  note,        \* note[s]: requestStream.Current
  prevNotes,   \* prevNotes[s]: what is still to be written of it
  out          \* out[s]: what was written, as <<note answered, note written>>

vars == <<routeNotes, pc, note, prevNotes, out>>

TypeOK ==
  /\ routeNotes \in [Locations -> Seq(Notes)]
  /\ pc \in [Streams -> {"MoveNext", "Add", "Write", "Done"}]
  /\ note \in [Streams -> Notes \cup {None}]
  /\ prevNotes \in [Streams -> Seq(Notes)]
  /\ out \in [Streams -> Seq(Notes \X Notes)]

Init ==
  /\ routeNotes = [l \in Locations |-> << >>]
  /\ pc = [s \in Streams |-> "MoveNext"]
  /\ note = [s \in Streams |-> None]
  /\ prevNotes = [s \in Streams |-> << >>]
  /\ out = [s \in Streams |-> << >>]

-----------------------------------------------------------------------------
\* The client sends a note that nobody has sent before.
Fresh(n) == n \notin Range(routeNotes[At[n]]) /\ \A s \in Streams : note[s] # n

MoveNext(s, n) ==
  /\ pc[s] = "MoveNext" /\ Fresh(n)
  /\ pc' = [pc EXCEPT ![s] = "Add"]
  /\ note' = [note EXCEPT ![s] = n]
  /\ UNCHANGED <<routeNotes, prevNotes, out>>

MoveNextFalse(s) ==
  /\ pc[s] = "MoveNext"
  /\ pc' = [pc EXCEPT ![s] = "Done"]
  /\ UNCHANGED <<routeNotes, note, prevNotes, out>>

\* Mutant: returns the list itself, with the note that was just added.
AddNoteForLocationShared(s) ==
  /\ pc[s] = "Add"
  /\ prevNotes' = [prevNotes EXCEPT ![s] = Append(routeNotes[At[note[s]]], note[s])]
  /\ routeNotes' = [routeNotes EXCEPT ![At[note[s]]] = Append(@, note[s])]
  /\ pc' = [pc EXCEPT ![s] = "Write"]
  /\ UNCHANGED <<note, out>>

AddNoteForLocation(s) ==
  /\ pc[s] = "Add"
  /\ prevNotes' = [prevNotes EXCEPT ![s] = routeNotes[At[note[s]]]]
  /\ routeNotes' = [routeNotes EXCEPT ![At[note[s]]] = Append(@, note[s])]
  /\ pc' = [pc EXCEPT ![s] = "Write"]
  /\ UNCHANGED <<note, out>>

WriteAsync(s) ==
  /\ pc[s] = "Write" /\ prevNotes[s] # << >>
  /\ out' = [out EXCEPT ![s] = Append(@, <<note[s], Head(prevNotes[s])>>)]
  /\ prevNotes' = [prevNotes EXCEPT ![s] = Tail(@)]
  /\ UNCHANGED <<routeNotes, pc, note>>

\* The end of the foreach.
EndWrites(s) ==
  /\ pc[s] = "Write" /\ prevNotes[s] = << >>
  /\ pc' = [pc EXCEPT ![s] = "MoveNext"]
  /\ note' = [note EXCEPT ![s] = None]
  /\ UNCHANGED <<routeNotes, prevNotes, out>>

-----------------------------------------------------------------------------
Next ==
  \E s \in Streams :
    \/ AddNoteForLocation(s) \/ WriteAsync(s) \/ EndWrites(s)
    \/ MoveNextFalse(s)
    \/ \E n \in Notes : MoveNext(s, n)

Spec == Init /\ [][Next]_vars

-----------------------------------------------------------------------------
Abstract == INSTANCE RouteChat WITH
  board <- routeNotes, owed <- prevNotes,
  note <- [s \in Streams |-> IF pc[s] = "Write" THEN note[s] ELSE None]

\* Although the writes are awaited outside the lock, every note is answered
\* with exactly the notes received before it at its location, in order.
ImplementsRouteChat == []TypeOK /\ Abstract!Spec
=============================================================================
