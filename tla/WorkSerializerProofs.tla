------------------------ MODULE WorkSerializerProofs ------------------------
(***************************************************************************)
(* Proofs about WorkSerializer, for any finite sets of threads and         *)
(* callbacks.                                                              *)
(***************************************************************************)
EXTENDS WorkSerializer, TLAPS, FiniteSetTheorems

(* The callbacks a thread is handing over, queued or running are the ones   *)
(* st says, and none of them is in two places.                              *)
Places ==
  /\ \A i \in 1..Len(queue) : st[queue[i]] = "submitted"
  /\ \A i, j \in 1..Len(queue) : queue[i] = queue[j] => i = j
  /\ \A t \in Threads : call[t] \in Busy =>
       arg[t] \in Callbacks /\ st[arg[t]] = "submitted"
  /\ \A t \in Threads : call[t] \in {"undo", "push"} =>
       \A i \in 1..Len(queue) : queue[i] # arg[t]
  /\ \A t \in Threads : call[t] = "link" => arg[t] \in unlinked
  /\ \A t, u \in Threads :
       call[t] \in Busy /\ call[u] \in Busy /\ arg[t] = arg[u] => t = u
  /\ \A t \in Threads : drain[t] = "exec" =>
       cur[t] \in Callbacks /\ st[cur[t]] = "running"
  /\ \A c \in Callbacks : st[c] = "running" =>
       \E t \in Threads : drain[t] = "exec" /\ cur[t] = c

(* Nothing is going on in a deleted serializer.                             *)
Quiet ==
  deleted => /\ orphaned
             /\ Draining = {} /\ Undoing = {}
             /\ Submitted = {}

(* A callback that holds a ref is never pending after the destructor.       *)
RefHeld == CallbacksHoldRef /\ orphaned => Submitted = {}

IInv ==
  /\ TypeOK
  /\ Places
  /\ RefCounts
  /\ MutualExclusion
  /\ Quiet
  /\ RefHeld

-----------------------------------------------------------------------------
(* How the counted sets grow and shrink.                                    *)

\* Adding a new element to a finite set adds one to its cardinality.
LEMMA CardAdd ==
  ASSUME NEW S, IsFiniteSet(S), NEW x, x \notin S
  PROVE  /\ Cardinality(S \cup {x}) = Cardinality(S) + 1
         /\ Cardinality(S) \in Nat
BY FS_AddElement, FS_CardinalityType

\* Removing an element subtracts one.
LEMMA CardRemove ==
  ASSUME NEW S, IsFiniteSet(S), NEW x \in S
  PROVE  /\ Cardinality(S \ {x}) = Cardinality(S) - 1
         /\ Cardinality(S) \in Nat /\ Cardinality(S) >= 1
<1>1. Cardinality(S \ {x}) = Cardinality(S) - 1
  BY FS_RemoveElement
<1>2. Cardinality(S) \in Nat /\ Cardinality(S \ {x}) \in Nat
  BY FS_CardinalityType, FS_RemoveElement
<1> QED
  BY <1>1, <1>2

\* The sets that refs_ counts are finite, so their cardinalities are naturals,
\* zero only for the empty set.
LEMMA CountsAreNatural ==
  /\ IsFiniteSet(Undoing) /\ Cardinality(Undoing) \in Nat
  /\ IsFiniteSet(Draining) /\ Cardinality(Draining) \in Nat
  /\ IsFiniteSet(Counted) /\ Cardinality(Counted) \in Nat
  /\ IsFiniteSet(Submitted) /\ Cardinality(Submitted) \in Nat
  /\ Cardinality(Undoing) = 0 => Undoing = {}
  /\ Cardinality(Draining) = 0 => Draining = {}
  /\ Cardinality(Counted) = 0 => Counted = {}
  /\ Cardinality(Submitted) = 0 => Submitted = {}
<1>1. /\ Undoing \subseteq Threads /\ Draining \subseteq Threads
      /\ Counted \subseteq Threads /\ Submitted \subseteq Callbacks
  BY DEF Undoing, Draining, Counted, Submitted
<1>2. /\ IsFiniteSet(Undoing) /\ IsFiniteSet(Draining)
      /\ IsFiniteSet(Counted) /\ IsFiniteSet(Submitted)
  BY <1>1, FiniteThreads, FiniteCallbacks, FS_Subset
<1> QED
  BY <1>2, FS_CardinalityType, FS_EmptySet

-----------------------------------------------------------------------------
\* The freshly constructed serializer satisfies the inductive invariant.
LEMMA InitIInv == Init => IInv
<1> SUFFICES ASSUME Init PROVE IInv
  OBVIOUS
<1>1. TypeOK
  <2>1. << >> \in Seq(Callbacks)
    OBVIOUS
  <2> QED
    BY <2>1 DEF Init, TypeOK, Q!Init, Busy
<1>2. Places
  BY DEF Init, Places, Q!Init, Busy
<1>3. Undoing = {} /\ Draining = {} /\ Counted = {} /\ Submitted = {}
  BY DEF Init, Undoing, Draining, Counted, Submitted
<1>4. RefCounts
  BY <1>3, FS_EmptySet DEF Init, RefCounts
<1> QED
  BY <1>1, <1>2, <1>3, <1>4 DEF IInv, MutualExclusion, Quiet, RefHeld, Init

-----------------------------------------------------------------------------
(* One lemma per action.                                                    *)

\* Running a callback inline keeps the invariant: the owner count was zero, so
\* there was no owner.
LEMMA RunInlineIInv ==
  ASSUME IInv, NEW t \in Threads, NEW c \in Callbacks, RunInline(t, c)
  PROVE  IInv'
<1> USE DEF RunInline, CanCall
<1>1. ~deleted /\ ~deleted'
  BY DEF IInv, Quiet, TypeOK
<1>2. Undoing = {} /\ Draining = {}
  BY <1>1, CountsAreNatural DEF IInv, RefCounts, TypeOK
<1>3. TypeOK'
  BY DEF IInv, TypeOK
<1>4. Places'
  BY <1>2 DEF IInv, TypeOK, Places, Draining, Busy
<1>5. /\ Undoing' = Undoing /\ Draining' = Draining \cup {t}
      /\ Counted' = Counted \cup {t} /\ Submitted' = Submitted
      /\ t \notin Draining /\ t \notin Counted
  BY <1>2 DEF IInv, TypeOK, Undoing, Draining, Counted, Submitted
<1>6. /\ Cardinality(Draining') = Cardinality(Draining) + 1
      /\ Cardinality(Counted') = Cardinality(Counted) + 1
  BY <1>5, CountsAreNatural, CardAdd
<1>7. RefCounts'
  <2>1. ~orphaned /\ ~orphaned' /\ owners' = owners + 1 /\ size' = size + 1
    OBVIOUS
  <2>2. /\ owners = Cardinality(Undoing) + Cardinality(Draining)
        /\ size = 1 + Cardinality(Submitted) + Cardinality(Counted)
    BY <1>1, <2>1 DEF IInv, RefCounts
  <2> HIDE DEF RunInline, CanCall
  <2> QED
    BY <1>1, <1>5, <1>6, <2>1, <2>2, CountsAreNatural DEF RefCounts
<1> QED
  BY <1>1, <1>2, <1>3, <1>4, <1>5, <1>7
  DEF IInv, MutualExclusion, Quiet, RefHeld

\* A callback that Run will queue is counted before it is anywhere.
LEMMA RunQueuedIInv ==
  ASSUME IInv, NEW t \in Threads, NEW c \in Callbacks,
         RunQueued(t, c) \/ DrainQueueNoop(t, c)
  PROVE  IInv'
<1> USE DEF RunQueued, DrainQueueNoop, CanCall
<1>1. ~deleted /\ ~deleted' /\ ~orphaned'
  BY DEF IInv, Quiet, TypeOK
<1>2. TypeOK'
  <2>1. CASE RunQueued(t, c)
    BY <2>1 DEF IInv, TypeOK, Busy
  <2>2. CASE DrainQueueNoop(t, c)
    BY <2>2 DEF IInv, TypeOK, Busy
  <2> QED
    BY <2>1, <2>2
<1>3. Places'
  <2>1. CASE RunQueued(t, c)
    BY <2>1 DEF IInv, TypeOK, Places, Busy
  <2>2. CASE DrainQueueNoop(t, c)
    BY <2>2 DEF IInv, TypeOK, Places, Busy
  <2> QED
    BY <2>1, <2>2
<1>4. /\ Undoing' = Undoing \cup {t} /\ Draining' = Draining
      /\ Counted' = Counted /\ Submitted' = Submitted \cup {c}
      /\ t \notin Undoing /\ c \notin Submitted
  BY DEF IInv, TypeOK, Undoing, Draining, Counted, Submitted
<1>5. /\ Cardinality(Undoing') = Cardinality(Undoing) + 1
      /\ Cardinality(Submitted') = Cardinality(Submitted) + 1
  BY <1>4, CountsAreNatural, CardAdd
<1>6. RefCounts'
  <2>1. ~orphaned /\ ~orphaned' /\ owners' = owners + 1 /\ size' = size + 1
    OBVIOUS
  <2>2. /\ owners = Cardinality(Undoing) + Cardinality(Draining)
        /\ size = 1 + Cardinality(Submitted) + Cardinality(Counted)
    BY <1>1, <2>1 DEF IInv, RefCounts
  <2> HIDE DEF RunQueued, DrainQueueNoop, CanCall
  <2> QED
    BY <1>1, <1>4, <1>5, <2>1, <2>2, CountsAreNatural DEF RefCounts
<1> QED
  BY <1>1, <1>2, <1>3, <1>4, <1>6 DEF IInv, MutualExclusion, Quiet, RefHeld

\* Schedule counts its callback and touches nothing else.
LEMMA ScheduleIInv ==
  ASSUME IInv, NEW t \in Threads, NEW c \in Callbacks, Schedule(t, c)
  PROVE  IInv'
<1> USE DEF Schedule, CanCall
<1>1. ~deleted /\ ~deleted' /\ ~orphaned'
  BY DEF IInv, Quiet, TypeOK
<1>2. TypeOK'
  BY DEF IInv, TypeOK, Busy
<1>3. Places'
  BY DEF IInv, TypeOK, Places, Busy
<1>4. /\ Undoing' = Undoing /\ Draining' = Draining
      /\ Counted' = Counted /\ Submitted' = Submitted \cup {c}
      /\ c \notin Submitted
  BY DEF IInv, TypeOK, Undoing, Draining, Counted, Submitted
<1>5. Cardinality(Submitted') = Cardinality(Submitted) + 1
  BY <1>4, CountsAreNatural, CardAdd
<1>6. RefCounts'
  BY <1>1, <1>4, <1>5, CountsAreNatural DEF IInv, RefCounts, TypeOK
<1> QED
  BY <1>1, <1>2, <1>3, <1>4, <1>6 DEF IInv, MutualExclusion, Quiet, RefHeld

\* DrainQueue becomes the owner only when there is none.
LEMMA DrainQueueOwnerIInv ==
  ASSUME IInv, NEW t \in Threads, DrainQueueOwner(t)
  PROVE  IInv'
<1> USE DEF DrainQueueOwner, CanCall
<1>1. ~deleted /\ ~deleted'
  BY DEF IInv, Quiet, TypeOK
<1>2. Undoing = {} /\ Draining = {}
  BY <1>1, CountsAreNatural DEF IInv, RefCounts, TypeOK
<1>3. TypeOK'
  BY DEF IInv, TypeOK
<1>4. Places'
  BY <1>2 DEF IInv, TypeOK, Places, Draining, Busy
<1>5. /\ Undoing' = Undoing /\ Draining' = Draining \cup {t}
      /\ Counted' = Counted \cup {t} /\ Submitted' = Submitted
      /\ t \notin Draining /\ t \notin Counted
  BY <1>2 DEF IInv, TypeOK, Undoing, Draining, Counted, Submitted
<1>6. /\ Cardinality(Draining') = Cardinality(Draining) + 1
      /\ Cardinality(Counted') = Cardinality(Counted) + 1
  BY <1>5, CountsAreNatural, CardAdd
<1>7. RefCounts'
  <2>1. ~orphaned /\ ~orphaned' /\ owners' = owners + 1 /\ size' = size + 1
    OBVIOUS
  <2>2. /\ owners = Cardinality(Undoing) + Cardinality(Draining)
        /\ size = 1 + Cardinality(Submitted) + Cardinality(Counted)
    BY <1>1, <2>1 DEF IInv, RefCounts
  <2> HIDE DEF DrainQueueOwner, CanCall
  <2> QED
    BY <1>1, <1>5, <1>6, <2>1, <2>2, CountsAreNatural DEF RefCounts
<1> QED
  BY <1>1, <1>2, <1>3, <1>4, <1>5, <1>7
  DEF IInv, MutualExclusion, Quiet, RefHeld

\* Taking back a failed attempt at ownership: the owner count was positive.
LEMMA UndoOwnerIInv ==
  ASSUME IInv, NEW t \in Threads, UndoOwner(t)
  PROVE  IInv'
<1> USE DEF UndoOwner
<1>1. ~deleted /\ ~deleted'
  BY DEF IInv, Quiet, Undoing
<1>2. /\ Undoing' = Undoing \ {t} /\ Draining' = Draining
      /\ Counted' = Counted /\ Submitted' = Submitted
      /\ t \in Undoing
  BY DEF IInv, TypeOK, Undoing, Draining, Counted, Submitted
<1>3. /\ Cardinality(Undoing') = Cardinality(Undoing) - 1
      /\ Cardinality(Undoing) >= 1
  BY <1>2, CountsAreNatural, CardRemove
<1>4. /\ owners = Cardinality(Undoing) + Cardinality(Draining)
      /\ owners' = owners - 1 /\ size' = size /\ orphaned' = orphaned
  BY <1>1 DEF IInv, RefCounts
<1>5. owners' \in Nat
  BY <1>3, <1>4, CountsAreNatural
<1>6. TypeOK'
  BY <1>5 DEF IInv, TypeOK, Busy
<1>7. Places'
  BY DEF IInv, TypeOK, Places, Busy
<1>8. RefCounts'
  <2> HIDE DEF UndoOwner
  <2> QED
    BY <1>1, <1>2, <1>3, <1>4, CountsAreNatural DEF IInv, RefCounts
<1> QED
  BY <1>1, <1>2, <1>6, <1>7, <1>8 DEF IInv, MutualExclusion, Quiet, RefHeld

\* The steps that change none of the counted sets.
LEMMA SameCounts ==
  ASSUME IInv, UNCHANGED <<owners, size, orphaned, deleted>>,
         /\ Undoing' = Undoing /\ Draining' = Draining
         /\ Counted' = Counted /\ Submitted' = Submitted
  PROVE  RefCounts' /\ MutualExclusion' /\ Quiet' /\ RefHeld'
BY DEF IInv, RefCounts, MutualExclusion, Quiet, RefHeld

\* The exchange puts the callback at the end of the queue, where it was not.
LEMMA PushExchangeIInv ==
  ASSUME IInv, NEW t \in Threads, PushExchange(t)
  PROVE  IInv'
<1> USE DEF PushExchange, Q!Exchange
<1>1. arg[t] \in Callbacks /\ st[arg[t]] = "submitted"
  BY DEF IInv, Places, Busy
<1>2. TypeOK'
  BY <1>1 DEF IInv, TypeOK, Busy
<1>3. /\ Undoing' = Undoing /\ Draining' = Draining
      /\ Counted' = Counted /\ Submitted' = Submitted
  BY DEF IInv, TypeOK, Undoing, Draining, Counted, Submitted
<1>4. Places'
  <2>1. /\ Len(queue') = Len(queue) + 1 /\ Len(queue) \in Nat
        /\ queue'[Len(queue) + 1] = arg[t]
        /\ \A i \in 1..Len(queue) : queue'[i] = queue[i]
    BY <1>1 DEF IInv, TypeOK
  <2>2. \A i \in 1..Len(queue) : queue[i] # arg[t]
    BY DEF IInv, Places
  <2>3. \A i \in 1..Len(queue') : st'[queue'[i]] = "submitted"
    BY <1>1, <2>1 DEF IInv, Places
  <2>4. \A i, j \in 1..Len(queue') : queue'[i] = queue'[j] => i = j
    BY <2>1, <2>2 DEF IInv, Places
  <2>5. \A u \in Threads : call'[u] \in {"undo", "push"} =>
           \A i \in 1..Len(queue') : queue'[i] # arg'[u]
    BY <2>1 DEF IInv, Places, TypeOK, Busy
  <2> QED
    BY <1>1, <2>3, <2>4, <2>5 DEF IInv, Places, TypeOK, Busy
<1> QED
  BY <1>2, <1>3, <1>4, SameCounts DEF IInv

\* The store links the callback; no other thread is pushing the same one.
LEMMA PushLinkIInv ==
  ASSUME IInv, NEW t \in Threads, PushLink(t)
  PROVE  IInv'
<1> USE DEF PushLink, Q!Link
<1>1. TypeOK'
  BY DEF IInv, TypeOK, Busy
<1>2. Places'
  <2>1. \A u \in Threads : call'[u] \in Busy =>
           u # t /\ call'[u] = call[u] /\ arg'[u] = arg[u]
    BY DEF IInv, TypeOK, Busy
  <2>2. \A u \in Threads : call'[u] \in Busy => arg'[u] # arg[t]
    BY <2>1 DEF IInv, Places, Busy
  <2> QED
    BY <2>1, <2>2 DEF IInv, TypeOK, Places, Busy
<1>3. /\ Undoing' = Undoing /\ Draining' = Draining
      /\ Counted' = Counted /\ Submitted' = Submitted
  BY DEF IInv, TypeOK, Undoing, Draining, Counted, Submitted
<1> QED
  BY <1>1, <1>2, <1>3, SameCounts DEF IInv

\* A callback that returns stays counted until the fetch_sub.
LEMMA FinishCallbackIInv ==
  ASSUME IInv, NEW t \in Threads, FinishCallback(t)
  PROVE  IInv'
<1> USE DEF FinishCallback
<1>1. cur[t] \in Callbacks /\ st[cur[t]] = "running"
  BY DEF IInv, Places
<1>2. TypeOK'
  BY <1>1 DEF IInv, TypeOK, Busy
<1>3. Places'
  <2>1. /\ \A c \in Callbacks : c # cur[t] => st'[c] = st[c]
        /\ st'[cur[t]] = "done"
    BY <1>1 DEF IInv, TypeOK
  <2>2. \A u \in Threads : drain[u] = "exec" => u = t
    BY DEF IInv, MutualExclusion, Draining
  <2>3. \A u \in Threads : drain'[u] # "exec"
    BY <2>2 DEF IInv, TypeOK
  <2>4. \A c \in Callbacks : st'[c] # "running"
    BY <2>1, <2>2 DEF IInv, Places
  <2>5. \A i \in 1..Len(queue) : queue[i] \in Callbacks
    BY DEF IInv, TypeOK
  <2> QED
    BY <1>1, <2>1, <2>3, <2>4, <2>5 DEF IInv, Places, Busy
<1>4. /\ Undoing' = Undoing /\ Draining' = Draining
      /\ Counted' = Counted /\ Submitted' = Submitted
  BY <1>1 DEF IInv, TypeOK, Undoing, Draining, Counted, Submitted
<1> QED
  BY <1>2, <1>3, <1>4, SameCounts DEF IInv

\* No thread is inside Run, Schedule or DrainQueue when no callback is pending.
LEMMA NothingPending ==
  ASSUME IInv, Submitted = {}
  PROVE  Undoing = {}
BY DEF IInv, Places, Submitted, Undoing, Busy

\* The fetch_sub of DrainQueueOwned: the last count means that the serializer
\* is orphaned and nothing is pending.
LEMMA DecIInv ==
  ASSUME IInv, NEW t \in Threads, Dec(t)
  PROVE  IInv'
<1> USE DEF Dec
<1>1. ~deleted /\ t \in Counted /\ t \in Draining
  BY DEF IInv, Quiet, Counted, Draining
<1>2. /\ Cardinality(Counted \ {t}) = Cardinality(Counted) - 1
      /\ Cardinality(Counted) >= 1
  BY <1>1, CountsAreNatural, CardRemove
<1>3. /\ owners = Cardinality(Undoing) + Cardinality(Draining)
      /\ size = (IF orphaned THEN 0 ELSE 1)
                  + Cardinality(Submitted) + Cardinality(Counted)
      /\ owners' = owners /\ size' = size - 1 /\ orphaned' = orphaned
  BY <1>1 DEF IInv, RefCounts
<1>4. size' \in Nat
  <2> HIDE DEF Dec
  <2> QED
    BY <1>2, <1>3, CountsAreNatural
<1>5. deleted' \in BOOLEAN /\ (deleted' <=> size = 1)
  BY <1>1 DEF IInv, TypeOK
<1>6. TypeOK'
  BY <1>4, <1>5 DEF IInv, TypeOK, Busy
<1>7. /\ Undoing' = Undoing /\ Submitted' = Submitted
      /\ Counted' = Counted \ {t}
  BY DEF IInv, TypeOK, Undoing, Counted, Submitted
<1>8. Places'
  <2>1. \A u \in Threads : drain'[u] = "exec" <=> drain[u] = "exec"
    BY DEF IInv, TypeOK
  <2> QED
    BY <2>1 DEF IInv, Places
<1>9. CASE size = 1
  <2>1. orphaned /\ Submitted = {}
    BY <1>2, <1>3, <1>9, CountsAreNatural
  <2>2. Draining' = {}
    BY <1>1, <1>9 DEF IInv, TypeOK, MutualExclusion, Draining
  <2>3. Undoing = {}
    BY <2>1, NothingPending
  <2> QED
    BY <1>3, <1>5, <1>6, <1>7, <1>8, <1>9, <2>1, <2>2, <2>3
    DEF IInv, RefCounts, MutualExclusion, Quiet, RefHeld
<1>10. CASE size # 1
  <2>1. Draining' = Draining /\ ~deleted'
    BY <1>5, <1>10 DEF IInv, TypeOK, Draining
  <2>2. RefCounts'
    <3> HIDE DEF Dec
    <3> QED
      BY <1>2, <1>3, <1>7, <2>1, CountsAreNatural DEF RefCounts
  <2> QED
    BY <1>3, <1>6, <1>7, <1>8, <2>1, <2>2
    DEF IInv, MutualExclusion, Quiet, RefHeld
<1> QED
  BY <1>9, <1>10

\* The compare and exchange: it releases the serializer only with nothing
\* pending if callbacks hold a ref, and deletes it only with nothing pending.
LEMMA CasIInv ==
  ASSUME IInv, NEW t \in Threads, Cas(t)
  PROVE  IInv'
<1> USE DEF Cas
<1>1. ~deleted /\ t \in Draining /\ t \notin Counted
  BY DEF IInv, Quiet, Counted, Draining
<1>2. /\ Cardinality(Draining \ {t}) = Cardinality(Draining) - 1
      /\ Cardinality(Draining) >= 1
  BY <1>1, CountsAreNatural, CardRemove
<1>3. /\ owners = Cardinality(Undoing) + Cardinality(Draining)
      /\ size = (IF orphaned THEN 0 ELSE 1)
                  + Cardinality(Submitted) + Cardinality(Counted)
      /\ size' = size /\ orphaned' = orphaned
  BY <1>1 DEF IInv, RefCounts
<1>4. TypeOK'
  <2>1. owners' \in Nat
    BY DEF IInv, TypeOK
  <2>2. deleted' \in BOOLEAN
    BY Zenon DEF IInv, TypeOK
  <2>3. drain' \in [Threads -> {"no", "exec", "dec", "cas", "pop"}]
    BY DEF IInv, TypeOK
  <2> QED
    BY <2>1, <2>2, <2>3 DEF IInv, TypeOK
<1>5. /\ Undoing' = Undoing /\ Submitted' = Submitted /\ Counted' = Counted
  BY DEF IInv, TypeOK, Undoing, Counted, Submitted
<1>6. Places'
  <2>1. \A u \in Threads : drain'[u] = "exec" <=> drain[u] = "exec"
    BY DEF IInv, TypeOK
  <2> QED
    BY <2>1 DEF IInv, Places
<1>7. CASE owners = 1 /\ size = 1
  <2>1. Draining' = Draining \ {t} /\ deleted' = deleted /\ owners' = 0
    BY <1>7 DEF IInv, TypeOK, Draining
  <2>2. RefCounts'
    <3> HIDE DEF Cas
    <3> QED
      BY <1>1, <1>2, <1>3, <1>5, <1>7, <2>1, CountsAreNatural DEF RefCounts
  <2> QED
    BY <1>1, <1>3, <1>4, <1>5, <1>6, <2>1, <2>2
    DEF IInv, MutualExclusion, Quiet, RefHeld
<1>8. CASE size = 0
  <2>1. orphaned /\ Submitted = {}
    BY <1>3, <1>8, CountsAreNatural
  <2>2. deleted' /\ drain' = [drain EXCEPT ![t] = "no"]
    BY <1>8
  <2>3. Draining' = {}
    BY <1>1, <2>2 DEF IInv, TypeOK, MutualExclusion, Draining
  <2>4. Undoing = {}
    BY <2>1, NothingPending
  <2> QED
    BY <1>3, <1>4, <1>5, <1>6, <2>1, <2>2, <2>3, <2>4
    DEF IInv, RefCounts, MutualExclusion, Quiet, RefHeld
<1>9. CASE ~(owners = 1 /\ size = 1) /\ size # 0
  <2>1. Draining' = Draining /\ deleted' = deleted /\ owners' = owners
    BY <1>9 DEF IInv, TypeOK, Draining
  <2> QED
    BY <1>3, <1>4, <1>5, <1>6, <2>1, SameCounts DEF IInv
<1> QED
  BY <1>7, <1>8, <1>9

\* The callback that leaves the queue is nowhere else, so it is running in one
\* place only.
LEMMA PopCallbackIInv ==
  ASSUME IInv, NEW t \in Threads, PopCallback(t)
  PROVE  IInv'
<1> DEFINE c == queue[1]
<1>1. /\ queue # << >> /\ c \notin unlinked
      /\ queue' = Tail(queue) /\ unlinked' = unlinked
      /\ c = Head(queue) /\ c \in Callbacks
      /\ Len(queue) \in Nat /\ Len(queue) >= 1
  BY DEF PopCallback, Q!Pop, Q!CanPop, IInv, TypeOK
<1>2. /\ drain[t] = "pop" /\ drain' = [drain EXCEPT ![t] = "exec"]
      /\ cur' = [cur EXCEPT ![t] = c] /\ st' = [st EXCEPT ![c] = "running"]
      /\ UNCHANGED <<owners, size, call, arg, how, orphaned, deleted, log>>
  BY <1>1 DEF PopCallback
<1> HIDE DEF c
<1>3. ~deleted /\ t \in Draining /\ t \notin Counted
  BY <1>2 DEF IInv, Quiet, Counted, Draining
<1>4. c = queue[1] /\ st[c] = "submitted"
  BY <1>1 DEF IInv, Places, c
<1>5. TypeOK'
  BY <1>1, <1>2 DEF IInv, TypeOK
<1>6. Places'
  <2>1. /\ Len(queue') = Len(queue) - 1
        /\ \A i \in 1..Len(queue') : queue'[i] = queue[i + 1]
    BY <1>1 DEF IInv, TypeOK
  <2>2. \A i \in 1..Len(queue') : i + 1 \in 1..Len(queue) /\ queue'[i] # c
    BY <1>1, <1>4, <2>1 DEF IInv, Places
  <2>3. \A i \in 1..Len(queue') : st'[queue'[i]] = "submitted"
    BY <1>1, <1>2, <2>1, <2>2 DEF IInv, Places, TypeOK
  <2>4. \A i, j \in 1..Len(queue') : queue'[i] = queue'[j] => i = j
    BY <2>1, <2>2 DEF IInv, Places
  <2>5. \A u \in Threads : call[u] \in Busy => arg[u] # c
    BY <1>1, <1>4 DEF IInv, Places, Busy
  <2>6. \A u \in Threads : call'[u] \in {"undo", "push"} =>
           \A i \in 1..Len(queue') : queue'[i] # arg'[u]
    BY <1>2, <2>1, <2>2 DEF IInv, Places
  <2>7. \A u \in Threads : call'[u] \in Busy =>
           arg'[u] \in Callbacks /\ st'[arg'[u]] = "submitted"
    BY <1>2, <2>5 DEF IInv, Places, TypeOK
  <2>8. \A u \in Threads : drain'[u] = "exec" =>
           cur'[u] \in Callbacks /\ st'[cur'[u]] = "running"
    BY <1>1, <1>2 DEF IInv, Places, TypeOK
  <2>9. \A d \in Callbacks : st'[d] = "running" =>
           \E u \in Threads : drain'[u] = "exec" /\ cur'[u] = d
    BY <1>1, <1>2 DEF IInv, Places, TypeOK
  <2> QED
    BY <1>1, <1>2, <2>3, <2>4, <2>6, <2>7, <2>8, <2>9 DEF IInv, Places
<1>7. /\ Undoing' = Undoing /\ Draining' = Draining
      /\ Counted' = Counted \cup {t}
      /\ Submitted' = Submitted \ {c} /\ c \in Submitted
  BY <1>1, <1>2, <1>4
  DEF IInv, TypeOK, Undoing, Draining, Counted, Submitted
<1>8. /\ Cardinality(Counted') = Cardinality(Counted) + 1
      /\ Cardinality(Submitted') = Cardinality(Submitted) - 1
  BY <1>3, <1>7, CountsAreNatural, CardAdd, CardRemove
<1>9. RefCounts'
  BY <1>2, <1>3, <1>7, <1>8, CountsAreNatural DEF IInv, RefCounts
<1> QED
  BY <1>2, <1>3, <1>5, <1>6, <1>7, <1>9
  DEF IInv, MutualExclusion, Quiet, RefHeld

\* The destructor: the object is deleted at once only if nobody is draining.
LEMMA OrphanIInv ==
  ASSUME IInv, NEW t \in Threads, Orphan(t)
  PROVE  IInv'
<1> USE DEF Orphan, CanCall
<1>1. ~deleted /\ ~orphaned /\ orphaned'
  BY DEF IInv, Quiet, TypeOK
<1>2. /\ Undoing' = Undoing /\ Draining' = Draining /\ Undoing = {}
      /\ Counted' = Counted /\ Submitted' = Submitted
  BY DEF Undoing, Draining, Counted, Submitted
<1>3. /\ owners = Cardinality(Undoing) + Cardinality(Draining)
      /\ size = 1 + Cardinality(Submitted) + Cardinality(Counted)
      /\ owners' = owners /\ size' = size - 1
  BY <1>1 DEF IInv, RefCounts
<1>4. size' \in Nat
  <2> HIDE DEF Orphan
  <2> QED
    BY <1>3, CountsAreNatural
<1>5. deleted' \in BOOLEAN /\ (deleted' <=> owners = 0 /\ size = 1)
  OBVIOUS
<1>6. TypeOK'
  BY <1>1, <1>4, <1>5 DEF IInv, TypeOK
<1>7. Places'
  BY DEF IInv, Places
<1>8. RefCounts'
  <2> HIDE DEF Orphan
  <2> QED
    BY <1>1, <1>2, <1>3, CountsAreNatural DEF RefCounts
<1>9. Quiet'
  BY <1>1, <1>2, <1>3, <1>5, CountsAreNatural DEF Quiet
<1>10. RefHeld'
  BY DEF RefHeld, Submitted
<1> QED
  BY <1>2, <1>6, <1>7, <1>8, <1>9, <1>10 DEF IInv, MutualExclusion

-----------------------------------------------------------------------------
\* Every step preserves the inductive invariant.
LEMMA NextIInv == IInv /\ [Next]_vars => IInv'
<1> SUFFICES ASSUME IInv, [Next]_vars PROVE IInv'
  OBVIOUS
<1>1. CASE UNCHANGED vars
  BY <1>1 DEF vars, IInv, TypeOK, Places, RefCounts, MutualExclusion, Quiet,
              RefHeld, Undoing, Draining, Counted, Submitted
<1>2. ASSUME NEW t \in Threads, Step(t) PROVE IInv'
  BY <1>2, UndoOwnerIInv, PushExchangeIInv, PushLinkIInv, FinishCallbackIInv,
     DecIInv, CasIInv, PopCallbackIInv DEF Step
<1>3. ASSUME NEW t \in Threads, Call(t) PROVE IInv'
  BY <1>3, RunInlineIInv, RunQueuedIInv, ScheduleIInv, DrainQueueOwnerIInv,
     OrphanIInv DEF Call
<1> QED
  BY <1>1, <1>2, <1>3 DEF Next

\* The inductive invariant holds in every reachable state.
THEOREM Inductive == Spec => []IInv
BY InitIInv, NextIInv, PTL DEF Spec

\* The serializer's counters, queue and threads keep their types; in
\* particular no subtraction from either half of refs_ borrows.
THEOREM TypeCorrect == Spec => []TypeOK
<1>1. IInv => TypeOK
  BY DEF IInv
<1> QED
  BY Inductive, <1>1, PTL

\* refs_ counts what its comments say, at every instant.
THEOREM RefCountsCorrect == Spec => []RefCounts
<1>1. IInv => RefCounts
  BY DEF IInv
<1> QED
  BY Inductive, <1>1, PTL

\* Callbacks are executed serially: at most one thread owns the serializer.
THEOREM Serial == Spec => []MutualExclusion
<1>1. IInv => MutualExclusion
  BY DEF IInv
<1> QED
  BY Inductive, <1>1, PTL

\* The serializer is deleted only when no thread is inside it, its queue is
\* empty and every callback handed to it has run.
THEOREM DeleteSafe == Spec => []DeletedIsUnused
<1>1. IInv => DeletedIsUnused
  <2> SUFFICES ASSUME IInv, deleted PROVE DeletedIsUnused
    BY DEF DeletedIsUnused
  <2>1. orphaned /\ Draining = {} /\ Submitted = {}
    BY DEF IInv, Quiet
  <2>2. queue = << >>
    <3>1. \A i \in 1..Len(queue) : queue[i] \in Submitted
      BY DEF IInv, TypeOK, Places, Submitted
    <3>2. Len(queue) = 0
      BY <2>1, <3>1 DEF IInv, TypeOK
    <3> QED
      BY <3>2 DEF IInv, TypeOK
  <2>3. \A t \in Threads : call[t] = "idle"
    BY <2>1 DEF IInv, TypeOK, Places, Submitted
  <2>4. \A c \in Callbacks : st[c] \in {"new", "done"}
    BY <2>1 DEF IInv, TypeOK, Places, Submitted, Draining
  <2> QED
    BY <2>1, <2>2, <2>3, <2>4 DEF DeletedIsUnused
<1> QED
  BY Inductive, <1>1, PTL

-----------------------------------------------------------------------------
(* What holds when a pending callback keeps the serializer alive.           *)

(* A thread that counted itself as an owner has a callback that Schedule    *)
(* did not hand over.                                                       *)
Tried == \A t \in Threads : call[t] = "undo" => how[arg[t]] # "schedule"

Served == NoStrandedCallback /\ OrphanedIsFreed /\ Tried

\* Only the release in Cas can leave a callback behind, and only by taking a
\* pending callback for the count of the live serializer.
LEMMA ServedStep ==
  ASSUME CallbacksHoldRef, IInv, Served, [Next]_vars
  PROVE  Served'
<1> USE DEF Served, NoStrandedCallback, OrphanedIsFreed, Tried
<1>1. CASE UNCHANGED vars
  BY <1>1 DEF vars, Draining
<1>2. ASSUME NEW t \in Threads, Cas(t) PROVE Served'
  <2>1. ~deleted /\ t \in Draining
    BY <1>2 DEF Cas, IInv, Quiet, Draining
  <2>2. CASE owners = 1 /\ size = 1
    <3>1. ~orphaned /\ Submitted = {}
      <4>1. size = (IF orphaned THEN 0 ELSE 1)
                     + Cardinality(Submitted) + Cardinality(Counted)
        BY <2>1 DEF IInv, RefCounts
      <4>2. Counted = {}
        BY <1>2, <2>1 DEF Cas, IInv, MutualExclusion, Draining, Counted
      <4>3. Cardinality(Counted) = 0
        BY <4>2, FS_EmptySet
      <4>4. orphaned => Cardinality(Submitted) = 0
        BY FS_EmptySet DEF IInv, RefHeld
      <4>5. ~orphaned
        BY <2>2, <4>1, <4>3, <4>4
      <4> QED
        BY <2>2, <4>1, <4>3, <4>5, CountsAreNatural
    <3> QED
      BY <1>2, <3>1 DEF Cas, Submitted
  <2>3. CASE size = 0
    <3>1. Submitted = {}
      BY <2>1, <2>3, CountsAreNatural DEF IInv, RefCounts
    <3> QED
      BY <1>2, <2>3, <3>1 DEF Cas, Submitted
  <2>4. CASE ~(owners = 1 /\ size = 1) /\ size # 0
    BY <1>2, <2>1, <2>4 DEF Cas, Draining, IInv, TypeOK
  <2> QED
    BY <2>2, <2>3, <2>4
<1>3. ASSUME NEW t \in Threads, Dec(t) PROVE Served'
  <2>1. ~deleted /\ t \in Draining /\ t \in Counted
    BY <1>3 DEF Dec, IInv, Quiet, Draining, Counted
  <2>2. CASE size = 1
    <3>1. Cardinality(Counted) >= 1
      BY <2>1, CountsAreNatural, CardRemove
    <3>2. Submitted = {}
      BY <2>1, <2>2, <3>1, CountsAreNatural DEF IInv, RefCounts
    <3> QED
      BY <1>3, <2>2, <3>2 DEF Dec, Submitted
  <2>3. CASE size # 1
    BY <1>3, <2>1, <2>3 DEF Dec, Draining, IInv, TypeOK
  <2> QED
    BY <2>2, <2>3
<1>4. ASSUME NEW t \in Threads, Orphan(t) PROVE Served'
  <2>1. Draining = {} => owners = 0 /\ size = 1
    <3>1. SUFFICES ASSUME Draining = {} PROVE owners = 0 /\ size = 1
      OBVIOUS
    <3>2. ~deleted /\ ~orphaned
      BY <1>4 DEF Orphan, CanCall, IInv, Quiet
    <3>3. Undoing = {} /\ Counted = {} /\ Submitted = {}
      BY <1>4, <3>1 DEF Orphan, Undoing, Counted, Submitted, Draining
    <3> QED
      BY <3>1, <3>2, <3>3, FS_EmptySet DEF IInv, RefCounts
  <2> QED
    BY <1>4, <2>1 DEF Orphan, Draining
<1>5. ASSUME NEW t \in Threads, NEW c \in Callbacks,
             \/ RunInline(t, c) \/ RunQueued(t, c)
             \/ Schedule(t, c) \/ DrainQueueNoop(t, c)
      PROVE  Served'
  <2>1. ~orphaned' /\ ~deleted
    BY <1>5 DEF RunInline, RunQueued, Schedule, DrainQueueNoop, CanCall, IInv,
                Quiet
  <2>2. CASE RunInline(t, c)
    BY <2>1, <2>2 DEF RunInline, Draining, IInv, TypeOK, Places, Busy
  <2>3. CASE Schedule(t, c)
    BY <2>1, <2>3 DEF Schedule, Draining, IInv, TypeOK, Places, Busy
  <2>4. CASE RunQueued(t, c) \/ DrainQueueNoop(t, c)
    <3>1. owners > 0 /\ Draining' = Draining
      BY <2>4 DEF RunQueued, DrainQueueNoop, Draining
    <3>2. Draining # {}
      <4>1. SUFFICES ASSUME Draining = {} PROVE FALSE
        OBVIOUS
      <4>2. Cardinality(Undoing) # 0
        BY <2>1, <3>1, <4>1, FS_EmptySet DEF IInv, RefCounts
      <4>3. PICK u \in Threads : call[u] = "undo"
        BY <4>2, FS_EmptySet DEF Undoing
      <4> QED
        BY <4>1, <4>3 DEF IInv, Places, Busy
    <3>3. Tried'
      BY <2>4 DEF RunQueued, DrainQueueNoop, CanCall, IInv, TypeOK, Places,
                  Busy
    <3> QED
      BY <2>1, <3>1, <3>2, <3>3
  <2> QED
    BY <1>5, <2>2, <2>3, <2>4
<1>6. ASSUME NEW t \in Threads, DrainQueueOwner(t) PROVE Served'
  BY <1>6 DEF DrainQueueOwner, Draining, IInv, TypeOK
<1>7. ASSUME NEW t \in Threads, UndoOwner(t) PROVE Served'
  BY <1>7 DEF UndoOwner, Draining
<1>8. ASSUME NEW t \in Threads, PushExchange(t) \/ PushLink(t) PROVE Served'
  <2>1. CASE PushExchange(t)
    BY <2>1 DEF PushExchange, Draining, IInv, TypeOK
  <2>2. CASE PushLink(t)
    BY <2>2 DEF PushLink, Draining, IInv, TypeOK
  <2> QED
    BY <1>8, <2>1, <2>2
<1>9. ASSUME NEW t \in Threads, FinishCallback(t) \/ PopCallback(t)
      PROVE  Served'
  <2>1. t \in Draining'
    BY <1>9 DEF FinishCallback, PopCallback, Draining, IInv, TypeOK
  <2> QED
    BY <1>9, <2>1 DEF FinishCallback, PopCallback
<1> QED
  BY <1>1, <1>2, <1>3, <1>4, <1>5, <1>6, <1>7, <1>8, <1>9 DEF Next, Step, Call

\* With callbacks that keep the serializer alive, no callback handed to Run is
\* ever left without a thread that will run it.
THEOREM NothingStranded ==
  ASSUME CallbacksHoldRef PROVE Spec => []NoStrandedCallback
<1>1. Init => Served
  BY DEF Init, Served, NoStrandedCallback, OrphanedIsFreed, Tried
<1>2. IInv /\ Served /\ [Next]_vars => Served'
  BY ServedStep
<1>3. Served => NoStrandedCallback
  BY DEF Served
<1> QED
  BY Inductive, <1>1, <1>2, <1>3, PTL DEF Spec

\* With callbacks that keep the serializer alive, the orphaned serializer is
\* freed by the time its last owner has left.
THEOREM NothingLeaked ==
  ASSUME CallbacksHoldRef PROVE Spec => []OrphanedIsFreed
<1>1. Init => Served
  BY DEF Init, Served, NoStrandedCallback, OrphanedIsFreed, Tried
<1>2. IInv /\ Served /\ [Next]_vars => Served'
  BY ServedStep
<1>3. Served => OrphanedIsFreed
  BY DEF Served
<1> QED
  BY Inductive, <1>1, <1>2, <1>3, PTL DEF Spec
=============================================================================
