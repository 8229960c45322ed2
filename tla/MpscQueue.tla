----------------------------- MODULE MpscQueue ------------------------------
(***************************************************************************)
(* What MultiProducerSingleConsumerQueue (src/core/lib/gprpp/mpscq.h)      *)
(* promises to its users: the WorkSerializer, the CallCombiner and the     *)
(* Combiner use the queue through the three steps of this module, and the  *)
(* module Mpscq shows that the pointer algorithm implements them.          *)
(*                                                                         *)
(* A push is two atomic steps, the exchange of head_ (which fixes the      *)
(* node's place in the queue) and the store that links the previous node   *)
(* to it.  Until the second step has happened the consumer cannot reach    *)
(* the node.  A pop may also fail while any push is half done ("which      *)
(* doesn't indicate that the queue is empty"): Pop is what a successful    *)
(* one does, and a failed one changes nothing.                             *)
(***************************************************************************)
EXTENDS Naturals, Sequences

CONSTANT Nodes

VARIABLES
  queue,      \* the nodes in the order of their exchanges
  unlinked    \* the nodes whose predecessor does not point to them yet

vars == <<queue, unlinked>>

InQueue(n) == \E i \in 1..Len(queue) : queue[i] = n

Init ==
  /\ queue = << >>
  /\ unlinked = {}

\* Push, up to head_.exchange(node).
Exchange(n) ==
  /\ queue' = Append(queue, n)
  /\ unlinked' = unlinked \cup {n}

\* Push, prev->next.store(node).
Link(n) ==
  /\ unlinked' = unlinked \ {n}
  /\ UNCHANGED queue

\* A pop that returns a node returns the oldest, which has been linked.
CanPop == queue # << >> /\ queue[1] \notin unlinked

Pop ==
  /\ CanPop
  /\ queue' = Tail(queue)
  /\ UNCHANGED unlinked

Next ==
  \/ \E n \in Nodes : ~InQueue(n) /\ Exchange(n)
  \/ \E n \in unlinked : Link(n)
  \/ Pop

Spec == Init /\ [][Next]_vars
=============================================================================
