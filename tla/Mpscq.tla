------------------------------- MODULE Mpscq --------------------------------
(***************************************************************************)
(* MultiProducerSingleConsumerQueue and its locked variant,                *)
(* src/core/lib/gprpp/mpscq.cc: Dmitry Vyukov's intrusive queue.  Each     *)
(* action is one access to shared memory with the local computation around *)
(* it.  The mutex of the locked variant lets one pop run at a time, which  *)
(* is all that the unlocked queue asks of its callers, so one consumer     *)
(* with an operation in progress stands for both.                          *)
(***************************************************************************)
EXTENDS Naturals, Sequences, FiniteSets

CONSTANTS Nodes, Producers, Stub, Null

ASSUME NamesAreDistinct == Stub # Null /\ {Stub, Null} \cap Nodes = {}

VARIABLES
  head,       \* head_
  tail,       \* tail_, the consumer's own
  next,       \* Node::next
  pc, node, prev,            \* Push, for every producer
  op,         \* the pop in progress: PopAndCheckEnd (or TryPop), Pop, or idle
  at,         \* the next shared access of that pop
  cur,        \* its local tail
  sprev,      \* prev in its Push(&stub_)
  result      \* what the last PopAndCheckEnd returned, and *empty

vars == <<head, tail, next, pc, node, prev, op, at, cur, sprev, result>>
push == <<pc, node, prev>>
Pointers == Nodes \cup {Stub, Null}

TypeOK ==
  /\ head \in Nodes \cup {Stub}
  /\ tail \in Nodes \cup {Stub}
  /\ next \in [Nodes \cup {Stub} -> Pointers]
  /\ pc \in [Producers -> {"idle", "link"}]
  /\ node \in [Producers -> Pointers]
  /\ prev \in [Producers -> Pointers]
  /\ op \in {"idle", "PopAndCheckEnd", "Pop"}
  /\ at \in {"first", "second", "head", "stub", "linkstub", "last", "done"}
  /\ cur \in Pointers /\ sprev \in Pointers
  /\ result \in [node : Pointers, empty : BOOLEAN]

Init ==
  /\ head = Stub /\ tail = Stub
  /\ next = [n \in Nodes \cup {Stub} |-> Null]
  /\ pc = [p \in Producers |-> "idle"]
  /\ node = [p \in Producers |-> Null]
  /\ prev = [p \in Producers |-> Null]
  /\ op = "idle" /\ at = "done"
  /\ cur = Null /\ sprev = Null
  /\ result = [node |-> Null, empty |-> FALSE]

-----------------------------------------------------------------------------
(* The queue that the pointers hold: the list from tail_, where a node that *)
(* a push has yet to link counts as following the node it will be linked to.*)

Succ(n) ==
  IF next[n] # Null THEN next[n]
  ELSE IF at = "linkstub" /\ sprev = n THEN Stub
  ELSE IF \E p \in Producers : pc[p] = "link" /\ prev[p] = n
       THEN node[CHOOSE p \in Producers : pc[p] = "link" /\ prev[p] = n]
       ELSE Null

Length == Cardinality(Nodes) + 2

Queue ==
  LET list[k \in 1..Length] == IF k = 1 THEN tail
                               ELSE IF list[k - 1] = Null THEN Null
                               ELSE Succ(list[k - 1])
  IN  SelectSeq([k \in 1..Length |-> list[k]], LAMBDA n : n \in Nodes)

Unlinked == {node[p] : p \in {q \in Producers : pc[q] = "link"}}

Queued == {Queue[i] : i \in 1..Len(Queue)}

-----------------------------------------------------------------------------
\* Push, up to and including head_.exchange, of a node that is in no queue.
PushExchange(p, n) ==
  /\ pc[p] = "idle" /\ n \notin Queued
  /\ next' = [next EXCEPT ![n] = Null]
  /\ prev' = [prev EXCEPT ![p] = head]
  /\ head' = n
  /\ node' = [node EXCEPT ![p] = n]
  /\ pc' = [pc EXCEPT ![p] = "link"]
  /\ UNCHANGED <<tail, op, at, cur, sprev, result>>

\* Push, prev->next.store.
PushLink(p) ==
  /\ pc[p] = "link"
  /\ next' = [next EXCEPT ![prev[p]] = node[p]]
  /\ pc' = [pc EXCEPT ![p] = "idle"]
  /\ node' = [node EXCEPT ![p] = Null]
  /\ prev' = [prev EXCEPT ![p] = Null]
  /\ UNCHANGED <<head, tail, op, at, cur, sprev, result>>

-----------------------------------------------------------------------------
StartPop(o) ==
  /\ op = "idle"
  /\ op' = o /\ at' = "first"
  /\ result' = [node |-> Null, empty |-> FALSE]
  /\ UNCHANGED <<head, tail, next, push, cur, sprev>>

\* PopAndCheckEnd returns n; the locked Pop goes round its loop instead when
\* that is nullptr and the queue is not said to be empty.
Return(n, empty) ==
  /\ result' = [node |-> n, empty |-> empty]
  /\ IF op = "Pop" /\ n = Null /\ ~empty
     THEN op' = op /\ at' = "first"
     ELSE op' = "idle" /\ at' = "done"
  /\ cur' = Null /\ sprev' = Null

Stay(l) == at' = l /\ UNCHANGED <<op, sprev, result>>

\* The node at the tail is returned if it has a successor to become the tail.
Take(n, succ) == tail' = succ /\ Return(n, FALSE)


\* tail_->next.load, and tail_ moved past the stub.
LoadFirst ==
  /\ at = "first"
  /\ LET n == next[tail]
     IN  \/ tail = Stub /\ n = Null /\ Return(Null, TRUE) /\ UNCHANGED tail
         \/ tail = Stub /\ n # Null /\ tail' = n
            /\ cur' = n /\ Stay("second")
         \/ tail # Stub /\ n # Null /\ Take(tail, n)
         \/ tail # Stub /\ n = Null /\ UNCHANGED tail
            /\ cur' = tail /\ Stay("head")
  /\ UNCHANGED <<head, next, push>>

\* The load of the new tail's next.
LoadSecond ==
  /\ at = "second"
  /\ \/ next[cur] # Null /\ Take(cur, next[cur])
     \/ next[cur] = Null /\ UNCHANGED <<tail, cur>> /\ Stay("head")
  /\ UNCHANGED <<head, next, push>>

\* Mutant: pushes the stub without looking at head_.
LoadHeadUnchecked ==
  /\ at = "head"
  /\ UNCHANGED cur /\ Stay("stub")
  /\ UNCHANGED <<head, tail, next, push>>

\* Mutant: never moves the stub behind the last node.
LoadHeadGivesUp ==
  /\ at = "head"
  /\ Return(Null, FALSE)
  /\ UNCHANGED <<head, tail, next, push>>

\* head_.load: a node that is not the last one is still being linked.
LoadHead ==
  /\ at = "head"
  /\ \/ head # cur /\ Return(Null, FALSE)
     \/ head = cur /\ UNCHANGED cur /\ Stay("stub")
  /\ UNCHANGED <<head, tail, next, push>>

\* Push(&stub_), the exchange.
PushStub ==
  /\ at = "stub"
  /\ next' = [next EXCEPT ![Stub] = Null]
  /\ sprev' = head
  /\ head' = Stub
  /\ at' = "linkstub"
  /\ UNCHANGED <<tail, push, op, cur, result>>

\* Push(&stub_), the store.
LinkStub ==
  /\ at = "linkstub"
  /\ next' = [next EXCEPT ![sprev] = Stub]
  /\ sprev' = Null
  /\ at' = "last"
  /\ UNCHANGED <<head, tail, push, op, cur, result>>

\* Mutant: does not check the last load.
LoadLastUnchecked ==
  /\ at = "last"
  /\ Take(cur, next[cur])
  /\ UNCHANGED <<head, next, push>>

\* The last load of tail->next.
LoadLast ==
  /\ at = "last"
  /\ \/ next[cur] # Null /\ Take(cur, next[cur])
     \/ next[cur] = Null /\ Return(Null, FALSE) /\ UNCHANGED tail
  /\ UNCHANGED <<head, next, push>>

-----------------------------------------------------------------------------
Produce(p) == PushLink(p) \/ \E n \in Nodes : PushExchange(p, n)

Consume ==
  LoadFirst \/ LoadSecond \/ LoadHead \/ PushStub \/ LinkStub \/ LoadLast

Next ==
  \/ \E o \in {"PopAndCheckEnd", "Pop"} : StartPop(o)
  \/ Consume
  \/ \E p \in Producers : Produce(p)

Spec == Init /\ [][Next]_vars

\* Pushes complete, and a consumer keeps popping.
FairSpec ==
  /\ Spec
  /\ \A p \in Producers : WF_vars(PushLink(p))
  /\ WF_vars(Consume \/ StartPop("Pop"))

-----------------------------------------------------------------------------
Abstract == INSTANCE MpscQueue WITH queue <- Queue, unlinked <- Unlinked

\* The pointer algorithm is the queue its users rely on: nodes leave in the
\* order of their exchanges, none is lost or returned twice, and the consumer
\* never runs past a node that is not linked yet.
ImplementsQueue == Abstract!Spec


\* A node that was pushed is popped, although every failed pop starts over and
\* may have moved the stub meanwhile.
EventuallyPopped == \A n \in Nodes : (n \in Queued) ~> (n \notin Queued)
=============================================================================
