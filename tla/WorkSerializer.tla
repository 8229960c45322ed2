--------------------------- MODULE WorkSerializer ---------------------------
(***************************************************************************)
(* WorkSerializer::WorkSerializerImpl, src/core/lib/gprpp/                 *)
(* work_serializer.cc.  Threads hand callbacks to the serializer; the      *)
(* thread that finds no owner becomes the owner, runs its callback inline  *)
(* and then drains the queue.  The only synchronisation is the atomic word *)
(* refs_, whose halves are the variables owners and size: every action     *)
(* below reads and writes them in one step, as one atomic instruction      *)
(* does.  16 bits of owners and 48 of size do not overflow as long as      *)
(* there are fewer than 2^16 threads, so the halves are plain naturals.    *)
(***************************************************************************)
EXTENDS Integers, Sequences, FiniteSets

CONSTANTS
  Threads,
  Callbacks,          \* each is handed over at most once; DrainQueue's no-op
                      \* wrappers are callbacks as well
  CallbacksHoldRef    \* TRUE: a pending callback keeps the WorkSerializer
                      \* alive (it captured a ref to the object that owns it)
CONSTANT None

ASSUME FiniteThreads == IsFiniteSet(Threads)
ASSUME FiniteCallbacks == IsFiniteSet(Callbacks)
ASSUME NoneIsNoCallback == None \notin Callbacks
ASSUME HoldRefIsBoolean == CallbacksHoldRef \in BOOLEAN

VARIABLES
  owners, size,       \* refs_
  queue, unlinked,    \* queue_, see MpscQueue
  call,               \* call[t]: where t is in Run, Schedule or DrainQueue
  arg,                \* arg[t]: the callback t is queueing
  drain,              \* drain[t]: where t is as the owner of the serializer
  cur,                \* cur[t]: the callback t is running
  st,                 \* st[c]: new, submitted, running or done
  how,                \* how[c]: how it was handed over
  orphaned, deleted,
  log                 \* log[t]: what t passed to Run and Schedule, in order

vars == <<owners, size, queue, unlinked, call, arg, drain, cur, st, how,
          orphaned, deleted, log>>

Q == INSTANCE MpscQueue WITH Nodes <- Callbacks

Busy == {"undo", "push", "link"}

TypeOK ==
  /\ owners \in Nat
  /\ size \in Nat
  /\ queue \in Seq(Callbacks)
  /\ unlinked \subseteq Callbacks
  /\ call \in [Threads -> Busy \cup {"idle"}]
  /\ arg \in [Threads -> Callbacks \cup {None}]
  /\ drain \in [Threads -> {"no", "exec", "dec", "cas", "pop"}]
  /\ cur \in [Threads -> Callbacks \cup {None}]
  /\ st \in [Callbacks -> {"new", "submitted", "running", "done"}]
  /\ how \in [Callbacks -> {"none", "run", "inline", "schedule", "noop"}]
  /\ orphaned \in BOOLEAN
  /\ deleted \in BOOLEAN
  /\ log \in [Threads -> Seq(Callbacks)]

Init ==
  /\ owners = 0 /\ size = 1
  /\ Q!Init
  /\ call = [t \in Threads |-> "idle"]
  /\ arg = [t \in Threads |-> None]
  /\ drain = [t \in Threads |-> "no"]
  /\ cur = [t \in Threads |-> None]
  /\ st = [c \in Callbacks |-> "new"]
  /\ how = [c \in Callbacks |-> "none"]
  /\ orphaned = FALSE /\ deleted = FALSE
  /\ log = [t \in Threads |-> << >>]

-----------------------------------------------------------------------------
(* The calls.  A thread makes one at a time, from outside the serializer or *)
(* from the callback it is running, and not after the object was destroyed. *)

CanCall(t) == call[t] = "idle" /\ drain[t] \in {"no", "exec"} /\ ~orphaned

\* The fetch_add(MakeRefPair(1, 1)) of Run found no owner.
RunInline(t, c) ==
  /\ CanCall(t) /\ st[c] = "new" /\ owners = 0
  /\ owners' = owners + 1 /\ size' = size + 1
  /\ drain' = [drain EXCEPT ![t] = "exec"]
  /\ cur' = [cur EXCEPT ![t] = c]
  /\ st' = [st EXCEPT ![c] = "running"]
  /\ how' = [how EXCEPT ![c] = "inline"]
  /\ log' = [log EXCEPT ![t] = Append(@, c)]
  /\ UNCHANGED <<queue, unlinked, call, arg, orphaned, deleted>>

\* Mutant: looks at the owner count without adding to it.
RunQueuedNoOwner(t, c) ==
  /\ CanCall(t) /\ st[c] = "new" /\ owners > 0
  /\ size' = size + 1
  /\ call' = [call EXCEPT ![t] = "undo"]
  /\ arg' = [arg EXCEPT ![t] = c]
  /\ st' = [st EXCEPT ![c] = "submitted"]
  /\ how' = [how EXCEPT ![c] = "run"]
  /\ log' = [log EXCEPT ![t] = Append(@, c)]
  /\ UNCHANGED <<owners, queue, unlinked, drain, cur, orphaned, deleted>>

\* It found one: the callback will be queued.
RunQueued(t, c) ==
  /\ CanCall(t) /\ st[c] = "new" /\ owners > 0
  /\ owners' = owners + 1 /\ size' = size + 1
  /\ call' = [call EXCEPT ![t] = "undo"]
  /\ arg' = [arg EXCEPT ![t] = c]
  /\ st' = [st EXCEPT ![c] = "submitted"]
  /\ how' = [how EXCEPT ![c] = "run"]
  /\ log' = [log EXCEPT ![t] = Append(@, c)]
  /\ UNCHANGED <<queue, unlinked, drain, cur, orphaned, deleted>>

Schedule(t, c) ==
  /\ CanCall(t) /\ st[c] = "new"
  /\ size' = size + 1
  /\ call' = [call EXCEPT ![t] = "push"]
  /\ arg' = [arg EXCEPT ![t] = c]
  /\ st' = [st EXCEPT ![c] = "submitted"]
  /\ how' = [how EXCEPT ![c] = "schedule"]
  /\ log' = [log EXCEPT ![t] = Append(@, c)]
  /\ UNCHANGED <<owners, queue, unlinked, drain, cur, orphaned, deleted>>

DrainQueueOwner(t) ==
  /\ CanCall(t) /\ owners = 0
  /\ owners' = owners + 1 /\ size' = size + 1
  /\ drain' = [drain EXCEPT ![t] = "dec"]
  /\ UNCHANGED <<queue, unlinked, call, arg, cur, st, how, orphaned, deleted,
                 log>>

\* c is the no-op that DrainQueue leaves for the owner.
DrainQueueNoop(t, c) ==
  /\ CanCall(t) /\ st[c] = "new" /\ owners > 0
  /\ owners' = owners + 1 /\ size' = size + 1
  /\ call' = [call EXCEPT ![t] = "undo"]
  /\ arg' = [arg EXCEPT ![t] = c]
  /\ st' = [st EXCEPT ![c] = "submitted"]
  /\ how' = [how EXCEPT ![c] = "noop"]
  /\ UNCHANGED <<queue, unlinked, drain, cur, orphaned, deleted, log>>

\* Mutant: gives back the callback's count with the ownership.
UndoOwnerAndSize(t) ==
  /\ call[t] = "undo"
  /\ owners' = owners - 1 /\ size' = size - 1
  /\ call' = [call EXCEPT ![t] = "push"]
  /\ UNCHANGED <<queue, unlinked, arg, drain, cur, st, how, orphaned, deleted,
                 log>>

\* fetch_sub(MakeRefPair(1, 0)): give back the ownership just tried for.
UndoOwner(t) ==
  /\ call[t] = "undo"
  /\ owners' = owners - 1
  /\ call' = [call EXCEPT ![t] = "push"]
  /\ UNCHANGED <<size, queue, unlinked, arg, drain, cur, st, how, orphaned,
                 deleted, log>>

PushExchange(t) ==
  /\ call[t] = "push"
  /\ Q!Exchange(arg[t])
  /\ call' = [call EXCEPT ![t] = "link"]
  /\ UNCHANGED <<owners, size, arg, drain, cur, st, how, orphaned, deleted,
                 log>>

PushLink(t) ==
  /\ call[t] = "link"
  /\ Q!Link(arg[t])
  /\ call' = [call EXCEPT ![t] = "idle"]
  /\ arg' = [arg EXCEPT ![t] = None]
  /\ UNCHANGED <<owners, size, drain, cur, st, how, orphaned, deleted,
                 log>>

-----------------------------------------------------------------------------
(* The owner, DrainQueueOwned.                                              *)

\* The callback returns: back to the top of the loop.
FinishCallback(t) ==
  /\ drain[t] = "exec" /\ call[t] = "idle"
  /\ drain' = [drain EXCEPT ![t] = "dec"]
  /\ cur' = [cur EXCEPT ![t] = None]
  /\ st' = [st EXCEPT ![cur[t]] = "done"]
  /\ UNCHANGED <<owners, size, queue, unlinked, call, arg, how, orphaned,
                 deleted, log>>

\* fetch_sub(MakeRefPair(0, 1)) and what the loop does with the old size.
Dec(t) ==
  /\ drain[t] = "dec"
  /\ size' = size - 1
  /\ drain' = [drain EXCEPT ![t] = CASE size = 1 -> "no"
                                     [] size = 2 -> "cas"
                                     [] OTHER    -> "pop"]
  /\ deleted' = (deleted \/ size = 1)
  /\ UNCHANGED <<owners, queue, unlinked, call, arg, cur, st, how, orphaned,
                 log>>

\* Mutant: a store of (0, 1) in place of the compare and exchange.
CasStore(t) ==
  /\ drain[t] = "cas"
  /\ owners' = 0 /\ size' = 1
  /\ drain' = [drain EXCEPT ![t] = "no"]
  /\ UNCHANGED <<queue, unlinked, call, arg, cur, st, how, orphaned, deleted,
                 log>>

\* Mutant: gives up the ownership without checking that the queue is empty.
CasRelease(t) ==
  /\ drain[t] = "cas"
  /\ owners' = owners - 1
  /\ drain' = [drain EXCEPT ![t] = "no"]
  /\ deleted' = (size = 0)
  /\ UNCHANGED <<size, queue, unlinked, call, arg, cur, st, how, orphaned, log>>

\* Mutant: returns without deleting when the exchange finds size 0.
CasNoDelete(t) ==
  /\ drain[t] = "cas"
  /\ owners' = IF owners = 1 /\ size = 1 THEN 0 ELSE owners
  /\ drain' = [drain EXCEPT ![t] = IF size = 0 \/ (owners = 1 /\ size = 1)
                                   THEN "no" ELSE "pop"]
  /\ UNCHANGED <<size, queue, unlinked, call, arg, cur, st, how, orphaned,
                 deleted, log>>

\* compare_exchange_strong((1, 1), (0, 1)) and its three outcomes.
Cas(t) ==
  /\ drain[t] = "cas"
  /\ \/ /\ owners = 1 /\ size = 1
        /\ owners' = 0
        /\ drain' = [drain EXCEPT ![t] = "no"]
        /\ UNCHANGED deleted
     \/ /\ size = 0
        /\ drain' = [drain EXCEPT ![t] = "no"]
        /\ deleted' = TRUE
        /\ UNCHANGED owners
     \/ /\ ~(owners = 1 /\ size = 1) /\ size # 0
        /\ drain' = [drain EXCEPT ![t] = "pop"]
        /\ UNCHANGED <<owners, deleted>>
  /\ UNCHANGED <<size, queue, unlinked, call, arg, cur, st, how, orphaned, log>>


\* The PopAndCheckEnd that returns a node; the ones that return nullptr only
\* repeat the loop.
PopCallback(t) ==
  /\ drain[t] = "pop"
  /\ Q!Pop
  /\ drain' = [drain EXCEPT ![t] = "exec"]
  /\ cur' = [cur EXCEPT ![t] = Head(queue)]
  /\ st' = [st EXCEPT ![Head(queue)] = "running"]
  /\ UNCHANGED <<owners, size, call, arg, how, orphaned, deleted, log>>

\* Mutant: subtracts (1, 1), as if the destructor owned the serializer.
OrphanDropsOwner(t) ==
  /\ CanCall(t)
  /\ \A u \in Threads : call[u] = "idle"
  /\ CallbacksHoldRef => \A c \in Callbacks : st[c] # "submitted"
  /\ orphaned' = TRUE
  /\ owners' = owners - 1 /\ size' = size - 1
  /\ deleted' = (owners = 0 /\ size = 1)
  /\ UNCHANGED <<queue, unlinked, call, arg, drain, cur, st, how, log>>

\* Mutant: deletes on the last size count, whoever owns the serializer.
OrphanIgnoresOwners(t) ==
  /\ CanCall(t)
  /\ \A u \in Threads : call[u] = "idle"
  /\ CallbacksHoldRef => \A c \in Callbacks : st[c] # "submitted"
  /\ orphaned' = TRUE
  /\ size' = size - 1
  /\ deleted' = (size = 1)
  /\ UNCHANGED <<owners, queue, unlinked, call, arg, drain, cur, st, how, log>>

\* ~WorkSerializer.  It may race with a thread that is draining, not with a
\* thread that is inside a call on the object.
Orphan(t) ==
  /\ CanCall(t)
  /\ \A u \in Threads : call[u] = "idle"
  /\ CallbacksHoldRef => \A c \in Callbacks : st[c] # "submitted"
  /\ orphaned' = TRUE
  /\ size' = size - 1
  /\ deleted' = (owners = 0 /\ size = 1)
  /\ UNCHANGED <<owners, queue, unlinked, call, arg, drain, cur, st, how, log>>

-----------------------------------------------------------------------------
Step(t) ==
  \/ UndoOwner(t) \/ PushExchange(t) \/ PushLink(t)
  \/ FinishCallback(t) \/ Dec(t) \/ Cas(t) \/ PopCallback(t)

Call(t) ==
  \/ \E c \in Callbacks : \/ RunInline(t, c) \/ RunQueued(t, c)
                          \/ Schedule(t, c) \/ DrainQueueNoop(t, c)
  \/ DrainQueueOwner(t)
  \/ Orphan(t)

Next == \E t \in Threads : Step(t) \/ Call(t)

Spec == Init /\ [][Next]_vars

\* A thread inside the serializer keeps running, and callbacks return.  The
\* pop loop spins until the pushing thread has linked its node, so weak
\* fairness of each thread is enough.
FairSpec == Spec /\ \A t \in Threads : WF_vars(Step(t))

-----------------------------------------------------------------------------
Draining == {t \in Threads : drain[t] # "no"}

Undoing == {t \in Threads : call[t] = "undo"}

Counted == {t \in Threads : drain[t] \in {"exec", "dec"}}

Submitted == {c \in Callbacks : st[c] = "submitted"}

Started(c) == st[c] \in {"running", "done"}

\* What the two halves of refs_ count, at every instant: the owner and the
\* threads that are about to take back a failed attempt; the serializer until
\* it is orphaned, the callbacks handed over and not yet started, and the one
\* whose fetch_sub in DrainQueueOwned is still to come.
RefCounts ==
  ~deleted =>
    /\ owners = Cardinality(Undoing) + Cardinality(Draining)
    /\ size = (IF orphaned THEN 0 ELSE 1)
                + Cardinality(Submitted) + Cardinality(Counted)

\* "All callbacks scheduled on a WorkSerializer instance will be executed
\* serially": Run, DrainQueue and the release in DrainQueueOwned never let two
\* threads own the serializer, whatever calls race with the release.
MutualExclusion == \A t, u \in Draining : t = u

\* `delete this` runs when nobody can touch the object any more: the queue is
\* empty (the assertion of ~MultiProducerSingleConsumerQueue), no thread is
\* between two steps of Run, Schedule, DrainQueue or DrainQueueOwned, and
\* every callback handed over has run.
DeletedIsUnused ==
  deleted => /\ orphaned
             /\ queue = << >>
             /\ Draining = {}
             /\ \A t \in Threads : call[t] = "idle"
             /\ \A c \in Callbacks : st[c] \in {"new", "done"}

\* While a callback passed to Run (or DrainQueue's no-op) is pending, some
\* thread owns the serializer and will get to it: the owner never gives up
\* its ownership past a callback it has not seen.
NoStrandedCallback ==
  (\E c \in Callbacks : st[c] = "submitted" /\ how[c] # "schedule")
    => Draining # {}

\* The destroyed serializer is freed once its last owner leaves: Orphan,
\* fetch_sub and compare_exchange agree on who deletes it.
OrphanedIsFreed == (orphaned /\ Draining = {}) => deleted


\* A callback that Run accepted, and a scheduled one once some thread owns the
\* serializer (DrainQueue makes sure of it), eventually runs to its end.
EventuallyRuns ==
  \A c \in Callbacks :
    (st[c] = "submitted" /\ (how[c] # "schedule" \/ Draining # {}))
      ~> (st[c] = "done")
=============================================================================
