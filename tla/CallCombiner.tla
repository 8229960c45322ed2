---------------------------- MODULE CallCombiner ----------------------------
(***************************************************************************)
(* CallCombiner::Start and Stop, src/core/lib/iomgr/call_combiner.cc: the  *)
(* lock of a call.  A closure that gets the combiner keeps it, across any  *)
(* number of callbacks and threads, until somebody calls Stop on its       *)
(* behalf; closures started meanwhile wait in the queue, and Stop          *)
(* schedules the next one.  The cancellation half of the class is in       *)
(* CallCombinerCancel, which shares no state with this one.                *)
(***************************************************************************)
EXTENDS Naturals, Sequences, FiniteSets

CONSTANTS Threads, Closures, None

ASSUME FiniteThreads == IsFiniteSet(Threads)
ASSUME FiniteClosures == IsFiniteSet(Closures)
ASSUME NoneIsNoClosure == None \notin Closures

VARIABLES
  size,               \* size_
  queue, unlinked,    \* queue_, see MpscQueue
  call,               \* call[t]: where t is in Start or Stop
  arg,                \* arg[t]: the closure t is queueing
  st,                 \* st[c]: new, queued, active (it has the combiner), done
  log                 \* log[t]: the closures t started, in order

vars == <<size, queue, unlinked, call, arg, st, log>>

Q == INSTANCE MpscQueue WITH Nodes <- Closures

TypeOK ==
  /\ size \in Nat
  /\ queue \in Seq(Closures)
  /\ unlinked \subseteq Closures
  /\ call \in [Threads -> {"idle", "push", "link", "pop"}]
  /\ arg \in [Threads -> Closures \cup {None}]
  /\ st \in [Closures -> {"new", "queued", "active", "done"}]
  /\ log \in [Threads -> Seq(Closures)]

Init ==
  /\ size = 0
  /\ Q!Init
  /\ call = [t \in Threads |-> "idle"]
  /\ arg = [t \in Threads |-> None]
  /\ st = [c \in Closures |-> "new"]
  /\ log = [t \in Threads |-> << >>]

-----------------------------------------------------------------------------
\* The fetch_add of Start found nobody: ScheduleClosure.
StartNow(t, c) ==
  /\ call[t] = "idle" /\ st[c] = "new" /\ size = 0
  /\ size' = size + 1
  /\ st' = [st EXCEPT ![c] = "active"]
  /\ log' = [log EXCEPT ![t] = Append(@, c)]
  /\ UNCHANGED <<queue, unlinked, call, arg>>

\* It found the combiner taken: Push.
StartQueued(t, c) ==
  /\ call[t] = "idle" /\ st[c] = "new" /\ size > 0
  /\ size' = size + 1
  /\ st' = [st EXCEPT ![c] = "queued"]
  /\ call' = [call EXCEPT ![t] = "push"]
  /\ arg' = [arg EXCEPT ![t] = c]
  /\ log' = [log EXCEPT ![t] = Append(@, c)]
  /\ UNCHANGED <<queue, unlinked>>

PushExchange(t) ==
  /\ call[t] = "push"
  /\ Q!Exchange(arg[t])
  /\ call' = [call EXCEPT ![t] = "link"]
  /\ UNCHANGED <<size, arg, st, log>>

PushLink(t) ==
  /\ call[t] = "link"
  /\ Q!Link(arg[t])
  /\ call' = [call EXCEPT ![t] = "idle"]
  /\ arg' = [arg EXCEPT ![t] = None]
  /\ UNCHANGED <<size, st, log>>

\* Mutant: off by one in the test of prev_size.
StopAlwaysPops(t, c) ==
  /\ call[t] = "idle" /\ st[c] = "active"
  /\ size' = size - 1
  /\ st' = [st EXCEPT ![c] = "done"]
  /\ call' = [call EXCEPT ![t] = IF size >= 1 THEN "pop" ELSE "idle"]
  /\ UNCHANGED <<queue, unlinked, arg, log>>

\* Mutant: subtracts for the next closure as well.
StopSubtractsTwo(t, c) ==
  /\ call[t] = "idle" /\ st[c] = "active"
  /\ size' = size - 2
  /\ st' = [st EXCEPT ![c] = "done"]
  /\ call' = [call EXCEPT ![t] = IF size > 1 THEN "pop" ELSE "idle"]
  /\ UNCHANGED <<queue, unlinked, arg, log>>

\* Stop, called for the closure c that has the combiner, by whatever thread
\* the last callback of its chain runs on.
Stop(t, c) ==
  /\ call[t] = "idle" /\ st[c] = "active"
  /\ size' = size - 1
  /\ st' = [st EXCEPT ![c] = "done"]
  /\ call' = [call EXCEPT ![t] = IF size > 1 THEN "pop" ELSE "idle"]
  /\ UNCHANGED <<queue, unlinked, arg, log>>

\* Mutant: schedules the closure that was queued last.
StopPopNewest(t) ==
  /\ call[t] = "pop" /\ Q!CanPop /\ queue[Len(queue)] \notin unlinked
  /\ queue' = SubSeq(queue, 1, Len(queue) - 1)
  /\ st' = [st EXCEPT ![queue[Len(queue)]] = "active"]
  /\ call' = [call EXCEPT ![t] = "idle"]
  /\ UNCHANGED <<size, unlinked, arg, log>>

\* The PopAndCheckEnd of Stop's loop that returns a closure.
StopPop(t) ==
  /\ call[t] = "pop"
  /\ Q!Pop
  /\ st' = [st EXCEPT ![Head(queue)] = "active"]
  /\ call' = [call EXCEPT ![t] = "idle"]
  /\ UNCHANGED <<size, arg, log>>

\* Mutant: starts the first closure of the list like the others and leaves
\* Stop to it.
RunClosuresWithoutStop(t, c, d) ==
  /\ call[t] = "idle" /\ st[c] = "active" /\ st[d] = "new"
  /\ size' = size + 1
  /\ st' = [st EXCEPT ![c] = "done", ![d] = "queued"]
  /\ call' = [call EXCEPT ![t] = "push"]
  /\ arg' = [arg EXCEPT ![t] = d]
  /\ log' = [log EXCEPT ![t] = Append(@, d)]
  /\ UNCHANGED <<queue, unlinked>>

\* CallCombinerClosureList::RunClosures, after it has called Start for the
\* other closures of the list: the combiner passes from c to the first one.
RunClosures(t, c, d) ==
  /\ call[t] = "idle" /\ st[c] = "active" /\ st[d] = "new"
  /\ st' = [st EXCEPT ![c] = "done", ![d] = "active"]
  /\ UNCHANGED <<size, queue, unlinked, call, arg, log>>

-----------------------------------------------------------------------------
Step(t) ==
  \/ PushExchange(t) \/ PushLink(t) \/ StopPop(t)
  \/ \E c \in Closures : Stop(t, c)

Next ==
  \E t \in Threads :
    \/ Step(t)
    \/ \E c \in Closures : \/ StartNow(t, c) \/ StartQueued(t, c)
                           \/ \E d \in Closures : RunClosures(t, c, d)

Spec == Init /\ [][Next]_vars

\* A thread inside Start or Stop keeps running, and the chain of callbacks of
\* every active closure ends in Stop.
FairSpec == Spec /\ \A t \in Threads : WF_vars(Step(t))

-----------------------------------------------------------------------------
Active == {c \in Closures : st[c] = "active"}
Queued == {c \in Closures : st[c] = "queued"}
Popping == {t \in Threads : call[t] = "pop"}

\* The combiner is a lock: one closure has it, or one thread is passing it on.
Exclusive ==
  /\ Cardinality(Active) + Cardinality(Popping) <= 1
  /\ Popping # {} => Queued # {}

\* "num closures in queue or currently executing" (call_combiner.h:109); while
\* Stop is popping, the closure it looks for is still in the queue, so its
\* loop ends.
SizeCounts ==
  /\ TypeOK
  /\ size = Cardinality(Active) + Cardinality(Queued)

\* The closures that one thread starts get the combiner in that order.
StartOrder ==
  \A t \in Threads : \A j \in 1..Len(log[t]) : \A i \in 1..(j - 1) :
    st[log[t][j]] \in {"active", "done"} => st[log[t][i]] = "done"

\* Every closure passed to Start is eventually scheduled.
EventuallyScheduled ==
  \A c \in Closures : (st[c] = "queued") ~> (st[c] \in {"active", "done"})
=============================================================================
