--------------------------- MODULE MC_CallCombiner ---------------------------
(***************************************************************************)
(* Small instances of the two halves of the class.  Start and Stop share   *)
(* no word with SetNotifyOnCancel and Cancel, so that steps of the one     *)
(* commute with steps of the other: a behaviour explores either half while *)
(* the other is at rest.                                                   *)
(***************************************************************************)
EXTENDS CallCombiner

CONSTANTS CancelThreads, CancelClosures, Errors, MaxRegistrations

VARIABLES half, cancel_state, want, original, registered, scheduled

Cancellation == INSTANCE CallCombinerCancel WITH
  Threads <- CancelThreads, Closures <- CancelClosures

cancelVars == <<cancel_state, want, original, registered, scheduled>>

OfQueue == half = "queue" /\ UNCHANGED <<half, cancelVars>>
OfCancel == half = "cancel" /\ UNCHANGED <<half, vars>>
bothVars == <<half, vars, cancelVars>>

BothInit == half \in {"queue", "cancel"} /\ Init /\ Cancellation!Init
BothNext == (OfQueue /\ Next) \/ (OfCancel /\ Cancellation!Next)

\* The fairness of each half.
BothSpec ==
  /\ BothInit /\ [][BothNext]_bothVars
  /\ \A t \in Threads : WF_bothVars(OfQueue /\ Step(t))
  /\ \A t \in CancelThreads : WF_bothVars(OfCancel /\ Cancellation!Step(t))

-----------------------------------------------------------------------------
\* "Once a closure is registered, it will always be scheduled exactly once"
\* (call_combiner.h:79).
ScheduledOnce == Cancellation!ScheduledOnce

\* All closures that learn of the cancellation get the error of the first one.
OneError == Cancellation!OneError

\* A requested cancellation takes effect and every registration is answered.
CancelledLeavesNone == Cancellation!CancelledLeavesNone
=============================================================================
