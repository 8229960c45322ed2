---------------------------- MODULE RouteChatSync ----------------------------
(***************************************************************************)
(* RouteChat of GRPC_Examples/cpp/route_guide/route_guide_server.cc: one   *)
(* thread for each stream, and a mutex that is held while the answer to a  *)
(* note is written.                                                        *)
(***************************************************************************)
EXTENDS Naturals, Sequences, FiniteSets, SequencesExt

CONSTANTS Streams, Notes, Locations, At, None

VARIABLES
  received_notes,
  mu,         \* the stream whose thread holds mu_
  pc,         \* pc[s]: Read, Lock, Scan, Done
  note,       \* note[s]: the note that was read
  it,         \* it[s]: the position of the loop in received_notes_
  out         \* out[s]: what was written, as <<note answered, note written>>

vars == <<received_notes, mu, pc, note, it, out>>

TypeOK ==
  /\ received_notes \in Seq(Notes)
  /\ mu \in Streams \cup {None}
  /\ pc \in [Streams -> {"Read", "Lock", "Scan", "Done"}]
  /\ note \in [Streams -> Notes \cup {None}]
  /\ \A s \in Streams : it[s] \in 0..(Len(received_notes) + 1)
  /\ out \in [Streams -> Seq(Notes \X Notes)]

Init ==
  /\ received_notes = << >> /\ mu = None
  /\ pc = [s \in Streams |-> "Read"]
  /\ note = [s \in Streams |-> None]
  /\ it = [s \in Streams |-> 0]
  /\ out = [s \in Streams |-> << >>]

-----------------------------------------------------------------------------
\* The client sends a note that nobody has sent before.
Fresh(n) == n \notin Range(received_notes) /\ \A s \in Streams : note[s] # n

Read(s, n) ==
  /\ pc[s] = "Read" /\ Fresh(n)
  /\ pc' = [pc EXCEPT ![s] = "Lock"]
  /\ note' = [note EXCEPT ![s] = n]
  /\ UNCHANGED <<received_notes, mu, it, out>>

\* The client is done, or its call has failed.
ReadFalse(s) ==
  /\ pc[s] = "Read"
  /\ pc' = [pc EXCEPT ![s] = "Done"]
  /\ UNCHANGED <<received_notes, mu, note, it, out>>

\* Mutant: no mutex.
LockNothing(s) ==
  /\ pc[s] = "Lock"
  /\ mu' = s
  /\ pc' = [pc EXCEPT ![s] = "Scan"]
  /\ it' = [it EXCEPT ![s] = 1]
  /\ UNCHANGED <<received_notes, note, out>>

Lock(s) ==
  /\ pc[s] = "Lock" /\ mu = None
  /\ mu' = s
  /\ pc' = [pc EXCEPT ![s] = "Scan"]
  /\ it' = [it EXCEPT ![s] = 1]
  /\ UNCHANGED <<received_notes, note, out>>

\* One round of the loop, the blocking Write included.
Scan(s) ==
  /\ pc[s] = "Scan" /\ it[s] <= Len(received_notes)
  /\ LET n == received_notes[it[s]]
     IN  out' = [out EXCEPT ![s] = IF At[n] = At[note[s]]
                                   THEN Append(@, <<note[s], n>>) ELSE @]
  /\ it' = [it EXCEPT ![s] = @ + 1]
  /\ UNCHANGED <<received_notes, mu, pc, note>>


\* push_back, and the unlock at the end of the round.
PushBack(s) ==
  /\ pc[s] = "Scan" /\ it[s] > Len(received_notes)
  /\ received_notes' = Append(received_notes, note[s])
  /\ mu' = None
  /\ pc' = [pc EXCEPT ![s] = "Read"]
  /\ note' = [note EXCEPT ![s] = None]
  /\ it' = [it EXCEPT ![s] = 0]
  /\ UNCHANGED out

-----------------------------------------------------------------------------
Step(s) == Lock(s) \/ Scan(s) \/ PushBack(s)

Next ==
  \E s \in Streams :
    Step(s) \/ ReadFalse(s) \/ \E n \in Notes : Read(s, n)

Spec == Init /\ [][Next]_vars

\* Threads go on: every client reads what is written to it.
FairSpec == Spec /\ \A s \in Streams : WF_vars(Step(s))

-----------------------------------------------------------------------------
AtPlace(seq, l) == SelectSeq(seq, LAMBDA n : At[n] = l)

\* A note counts as received when its thread gets the mutex.
Board ==
  [l \in Locations |->
     AtPlace(IF mu = None THEN received_notes
             ELSE Append(received_notes, note[mu]), l)]
Owed ==
  [s \in Streams |->
     IF mu = s
     THEN AtPlace(SubSeq(received_notes, it[s], Len(received_notes)), At[note[s]])
     ELSE << >>]

Abstract == INSTANCE RouteChat WITH
  board <- Board, owed <- Owed,
  note <- [s \in Streams |-> IF mu = s THEN note[s] ELSE None]

\* The mutex makes the answer and the insertion of a note one step, although
\* the answer is written while other streams go on: every note is answered
\* with exactly the notes received before it at its location, in order.
ImplementsRouteChat == []TypeOK /\ Abstract!Spec

=============================================================================
