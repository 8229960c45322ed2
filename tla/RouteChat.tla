------------------------------ MODULE RouteChat ------------------------------
(***************************************************************************)
(* What the RouteChat method of the route_guide examples promises:         *)
(* "responds with a stream of all previous messages at each of those       *)
(* locations" (GRPC_Examples/csharp/RouteGuide/RouteGuideServer/           *)
(* RouteGuideImpl.cs:103).  A note is put on the board of its location in  *)
(* one step, and the notes that were there before are its answer, written  *)
(* one at a time before the stream's next note is received.                *)
(***************************************************************************)
EXTENDS Naturals, Sequences, FiniteSets

CONSTANTS Streams, Notes, Locations, At, None

VARIABLES
  board,      \* board[l]: the notes at l, oldest first
  note,       \* note[s]: the note that s is answering
  owed,       \* owed[s]: what is still to be written for it
  out         \* out[s]: what was written, as <<note answered, note written>>

vars == <<board, note, owed, out>>

Init ==
  /\ board = [l \in Locations |-> << >>]
  /\ note = [s \in Streams |-> None]
  /\ owed = [s \in Streams |-> << >>]
  /\ out = [s \in Streams |-> << >>]

OnBoard(n) == \E i \in 1..Len(board[At[n]]) : board[At[n]][i] = n

Receive(s, n) ==
  /\ note[s] = None /\ ~OnBoard(n)
  /\ note' = [note EXCEPT ![s] = n]
  /\ owed' = [owed EXCEPT ![s] = board[At[n]]]
  /\ board' = [board EXCEPT ![At[n]] = Append(@, n)]
  /\ UNCHANGED out

Write(s) ==
  /\ note[s] # None /\ owed[s] # << >>
  /\ out' = [out EXCEPT ![s] = Append(@, <<note[s], Head(owed[s])>>)]
  /\ owed' = [owed EXCEPT ![s] = Tail(@)]
  /\ UNCHANGED <<board, note>>

Answered(s) ==
  /\ note[s] # None /\ owed[s] = << >>
  /\ note' = [note EXCEPT ![s] = None]
  /\ UNCHANGED <<board, owed, out>>

Next ==
  \E s \in Streams :
    Write(s) \/ Answered(s) \/ \E n \in Notes : Receive(s, n)

Spec == Init /\ [][Next]_vars
=============================================================================
