-------------------------- MODULE RouteChatCallback --------------------------
(***************************************************************************)
(* RouteChat of GRPC_Examples/cpp/route_guide/                             *)
(* route_guide_callback_server.cc: a reactor for each stream, which takes  *)
(* the mutex once to copy the notes to send and once more, after they were *)
(* written, to store the note.  The gRPC library calls OnReadDone and      *)
(* OnWriteDone once for every StartRead and StartWrite.                    *)
(***************************************************************************)
EXTENDS Naturals, Sequences, FiniteSets, SequencesExt

CONSTANTS Streams, Notes, At, None

VARIABLES
  received_notes,
  to_send_notes,   \* to_send_notes[s]
  it,              \* notes_iterator_[s], the position of the next write
  pc,              \* pc[s]: Reading, Writing (an operation is going on),
                   \* Next (inside NextWrite), Done
  note,            \* note[s]: note_
  read,            \* read[s]: every note_ so far (history)
  out              \* out[s]: what was written, as <<note_, note written>>

vars == <<received_notes, to_send_notes, it, pc, note, read, out>>

TypeOK ==
  /\ received_notes \in Seq(Notes)
  /\ to_send_notes \in [Streams -> Seq(Notes)]
  /\ \A s \in Streams : it[s] \in 1..(Len(to_send_notes[s]) + 1)
  /\ pc \in [Streams -> {"Reading", "Writing", "Next", "Done"}]
  /\ note \in [Streams -> Notes \cup {None}]
  /\ read \in [Streams -> Seq(Notes)]
  /\ out \in [Streams -> Seq(Notes \X Notes)]

Init ==
  /\ received_notes = << >>
  /\ to_send_notes = [s \in Streams |-> << >>]
  /\ it = [s \in Streams |-> 1]
  /\ pc = [s \in Streams |-> "Reading"]
  /\ note = [s \in Streams |-> None]
  /\ read = [s \in Streams |-> << >>]
  /\ out = [s \in Streams |-> << >>]

-----------------------------------------------------------------------------
Fresh(n) == n \notin Range(received_notes) /\ \A s \in Streams : note[s] # n

\* OnReadDone(true) up to NextWrite: the copy under the lock.
OnReadDone(s, n) ==
  /\ pc[s] = "Reading" /\ Fresh(n)
  /\ note' = [note EXCEPT ![s] = n]
  /\ read' = [read EXCEPT ![s] = Append(@, n)]
  /\ to_send_notes' = [to_send_notes EXCEPT ![s] =
       @ \o SelectSeq(received_notes, LAMBDA m : At[m] = At[n])]
  /\ it' = [it EXCEPT ![s] = 1]
  /\ pc' = [pc EXCEPT ![s] = "Next"]
  /\ UNCHANGED <<received_notes, out>>

\* OnReadDone(false): Finish.
OnReadDoneFalse(s) ==
  /\ pc[s] = "Reading"
  /\ pc' = [pc EXCEPT ![s] = "Done"]
  /\ UNCHANGED <<received_notes, to_send_notes, it, note, read, out>>

\* NextWrite with something left to write.
StartWrite(s) ==
  /\ pc[s] = "Next" /\ it[s] <= Len(to_send_notes[s])
  /\ out' = [out EXCEPT ![s] = Append(@, <<note[s], to_send_notes[s][it[s]]>>)]
  /\ it' = [it EXCEPT ![s] = @ + 1]
  /\ pc' = [pc EXCEPT ![s] = "Writing"]
  /\ UNCHANGED <<received_notes, to_send_notes, note, read>>

OnWriteDone(s) ==
  /\ pc[s] = "Writing"
  /\ pc' = [pc EXCEPT ![s] = "Next"]
  /\ UNCHANGED <<received_notes, to_send_notes, it, note, read, out>>

\* Mutant: stops before the last note of the list.
StartReadEarly(s) ==
  /\ pc[s] = "Next" /\ it[s] >= Len(to_send_notes[s])
  /\ received_notes' = Append(received_notes, note[s])
  /\ pc' = [pc EXCEPT ![s] = "Reading"]
  /\ UNCHANGED <<to_send_notes, it, note, read, out>>

\* NextWrite at the end: the note is stored under the lock; StartRead.
StartRead(s) ==
  /\ pc[s] = "Next" /\ it[s] > Len(to_send_notes[s])
  /\ received_notes' = Append(received_notes, note[s])
  /\ pc' = [pc EXCEPT ![s] = "Reading"]
  /\ UNCHANGED <<to_send_notes, it, note, read, out>>

-----------------------------------------------------------------------------
Next ==
  \E s \in Streams :
    \/ StartWrite(s) \/ OnWriteDone(s) \/ StartRead(s)
    \/ OnReadDoneFalse(s)
    \/ \E n \in Notes : OnReadDone(s, n)

Spec == Init /\ [][Next]_vars

-----------------------------------------------------------------------------
Stored == Range(received_notes)
Position(n) == CHOOSE i \in 1..Len(received_notes) : received_notes[i] = n
Sent(s, n) == {p[2] : p \in {q \in Range(out[s]) : q[1] = n}}

\* What survives the two separate critical sections: a stream that is reading
\* again has been sent, for each of its notes, all notes that it had itself left
\* at that location before.
OwnNotesReturn ==
  /\ TypeOK
  /\ \A s \in Streams : pc[s] \in {"Reading", "Done"} =>
       \A i, j \in 1..Len(read[s]) :
         i < j /\ At[read[s][i]] = At[read[s][j]]
           => read[s][i] \in Sent(s, read[s][j])

\* RouteGuideImpl.cs:103, "all previous messages": a note was sent every note
\* that was stored before it at its location.
AllPreviousSent ==
  \A s \in Streams : \A n \in Range(read[s]) \cap Stored :
    {m \in Stored : At[m] = At[n] /\ Position(m) < Position(n)} \subseteq Sent(s, n)
=============================================================================
