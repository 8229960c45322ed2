------------------------- MODULE CallCombinerCancel -------------------------
(***************************************************************************)
(* CallCombiner::SetNotifyOnCancel and Cancel, src/core/lib/iomgr/         *)
(* call_combiner.cc: one word, cancel_state_, holds nothing, the           *)
(* cancellation closure or the cancellation error, and both operations     *)
(* replace it by a compare-and-swap that is retried when it fails.         *)
(***************************************************************************)
EXTENDS Naturals, Sequences, FiniteSets

CONSTANTS
  Threads, Closures, Errors, None,
  MaxRegistrations    \* bound: how often one closure is registered

VARIABLES
  cancel_state,       \* None, a closure or an error
  want,               \* want[t]: what t is storing, "" when t is outside
  original,           \* original[t]: original_state, "" before the load
  registered,         \* registered[c]: the registrations of c so far
  scheduled           \* scheduled[c]: the results c was scheduled with

vars == <<cancel_state, want, original, registered, scheduled>>

TypeOK ==
  /\ cancel_state \in Closures \cup Errors \cup {None}
  /\ want \in [Threads -> Closures \cup Errors \cup {None, ""}]
  /\ original \in [Threads -> Closures \cup Errors \cup {None, ""}]
  /\ registered \in [Closures -> 0..MaxRegistrations]
  /\ scheduled \in [Closures -> Seq(Errors \cup {"ok"})]

Init ==
  /\ cancel_state = None
  /\ want = [t \in Threads |-> ""]
  /\ original = [t \in Threads |-> ""]
  /\ registered = [c \in Closures |-> 0]
  /\ scheduled = [c \in Closures |-> << >>]

-----------------------------------------------------------------------------
Registering(c) == {t \in Threads : want[t] = c}

\* A filter registers a closure that nothing holds, NULL to unregister, or
\* the call is cancelled.
CallSetNotifyOnCancel(t) ==
  /\ want[t] = ""
  /\ \E c \in Closures :
       /\ registered[c] < MaxRegistrations
       /\ Len(scheduled[c]) = registered[c]
       /\ want' = [want EXCEPT ![t] = c]
       /\ registered' = [registered EXCEPT ![c] = @ + 1]
  /\ UNCHANGED <<cancel_state, original, scheduled>>

CallSetNotifyOnCancelNull(t) ==
  /\ want[t] = ""
  /\ want' = [want EXCEPT ![t] = None]
  /\ UNCHANGED <<cancel_state, original, registered, scheduled>>

CallCancel(t) ==
  /\ want[t] = ""
  /\ \E e \in Errors : want' = [want EXCEPT ![t] = e]
  /\ UNCHANGED <<cancel_state, original, registered, scheduled>>

Return(t) ==
  /\ want' = [want EXCEPT ![t] = ""]
  /\ original' = [original EXCEPT ![t] = ""]

\* ExecCtx::Run(closure, result); NULL runs nothing.
Run(closure, result) ==
  scheduled' = [c \in Closures |->
    IF c = closure THEN Append(scheduled[c], result) ELSE scheduled[c]]

\* The head of both loops: the load of cancel_state_.
Load(t) ==
  /\ want[t] # "" /\ original[t] = ""
  /\ original' = [original EXCEPT ![t] = cancel_state]
  /\ UNCHANGED <<cancel_state, want, registered, scheduled>>

\* Mutant: forgets to schedule the closure that arrives after Cancel.
AlreadyCancelledDrops(t) ==
  /\ want[t] # "" /\ original[t] \in Errors
  /\ Return(t)
  /\ UNCHANGED <<cancel_state, registered, scheduled>>

\* An error was there: SetNotifyOnCancel schedules its closure with it, and
\* Cancel discards its own.
AlreadyCancelled(t) ==
  /\ want[t] # "" /\ original[t] \in Errors
  /\ Run(want[t], original[t])
  /\ Return(t)
  /\ UNCHANGED <<cancel_state, registered>>

\* The result for the closure that t replaces.
ResultFor(t) == IF want[t] \in Errors THEN want[t] ELSE "ok"

\* Mutant: stores without comparing.
CasStores(t) ==
  /\ want[t] # "" /\ original[t] \in Closures \cup {None}
  /\ cancel_state' = want[t]
  /\ Run(original[t], ResultFor(t))
  /\ Return(t)
  /\ UNCHANGED registered

\* The compare-and-swap succeeds: the closure replaced is scheduled.
Cas(t) ==
  /\ want[t] # "" /\ original[t] \in Closures \cup {None}
  /\ cancel_state = original[t]
  /\ cancel_state' = want[t]
  /\ Run(original[t], ResultFor(t))
  /\ Return(t)
  /\ UNCHANGED registered

\* Mutant: gives up, as if the operation that came in between had done the
\* work.
CasFailsGivesUp(t) ==
  /\ want[t] # "" /\ original[t] \in Closures \cup {None}
  /\ cancel_state # original[t]
  /\ Return(t)
  /\ UNCHANGED <<cancel_state, registered, scheduled>>

\* It fails: round again.
CasFails(t) ==
  /\ want[t] # "" /\ original[t] \in Closures \cup {None}
  /\ cancel_state # original[t]
  /\ original' = [original EXCEPT ![t] = ""]
  /\ UNCHANGED <<cancel_state, want, registered, scheduled>>

-----------------------------------------------------------------------------
Step(t) == Load(t) \/ AlreadyCancelled(t) \/ Cas(t) \/ CasFails(t)

Next ==
  \E t \in Threads :
    \/ CallSetNotifyOnCancel(t) \/ CallSetNotifyOnCancelNull(t)
    \/ CallCancel(t)
    \/ Step(t)

Spec == Init /\ [][Next]_vars
FairSpec == Spec /\ \A t \in Threads : WF_vars(Step(t))

-----------------------------------------------------------------------------
Results == {scheduled[c][i] : <<c, i>> \in
              {p \in Closures \X (1..MaxRegistrations) :
                 p[2] <= Len(scheduled[p[1]])}}

\* "Once a closure is registered, it will always be scheduled exactly once"
\* (call_combiner.h:79): every registration of c was answered by one
\* scheduling, but for the one that cancel_state_ or a running
\* SetNotifyOnCancel still holds.
ScheduledOnce ==
  /\ TypeOK
  /\ \A c \in Closures :
       registered[c] = Len(scheduled[c]) + Cardinality(Registering(c))
                         + (IF cancel_state = c THEN 1 ELSE 0)

\* The first Cancel wins: all closures that learn of the cancellation, also
\* the ones registered later, get the error that is stored.
OneError == Results \cap Errors \subseteq {cancel_state}

\* Once a cancellation was requested, whatever is registered or unregistered
\* meanwhile, it takes effect and every registration, an earlier or a racing
\* one, is answered: none is left in the word that the error overwrote.
CancelledLeavesNone ==
  \A c \in Closures : \A n \in 1..MaxRegistrations :
    (registered[c] = n /\ (\/ cancel_state \in Errors
                           \/ \E t \in Threads : want[t] \in Errors))
      ~> (cancel_state \in Errors /\ Len(scheduled[c]) >= n)
=============================================================================
