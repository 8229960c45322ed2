---------------------------- MODULE LockfreeEvent ----------------------------
(***************************************************************************)
(* LockfreeEvent, src/core/lib/iomgr/lockfree_event.cc, inside the         *)
(* descriptor of ev_epoll1_linux.cc that owns one event for reading, one   *)
(* for writing and one for errors.  A user of the event waits with         *)
(* NotifyOn, pollers report readiness with SetReady, any thread may shut   *)
(* the descriptor down, and an orphaned descriptor goes to a free list     *)
(* from which fd_create takes it again while a poller may still be working *)
(* on an old event.  Each action is one access to state_ with the local    *)
(* computation around it.  The kernel's edge-triggered readiness is        *)
(* external: input raises an edge, which one poller receives once.         *)
(***************************************************************************)
EXTENDS Naturals, Sequences, FiniteSets

CONSTANTS
  Pollers,
  Closers,      \* the threads that call fd_shutdown_internal
  Order         \* the events of the descriptor, in the order of its shutdown

Events == {Order[i] : i \in 1..Len(Order)}
States == {"kClosureNotReady", "kClosureReady", "closure", "shutdown"}

VARIABLES
  state,        \* state[e]: state_
  user,         \* user[e]: running, notify (in NotifyOn), pending, gone
  ucurr,        \* ucurr[e]: curr in NotifyOn, "" before the load
  due,          \* due[e]: how often e's closure is scheduled and has not run
  data,         \* data[e]: there is input that nobody has read
  edge,         \* edge[e]: epoll has an event for it
  ev, pcurr,    \* SetReady of a poller: its event and curr
  at, ccurr,    \* SetShutdown of a closer: its event's place in Order and curr
  fd            \* open, or on the free list

vars == <<state, user, ucurr, due, data, edge, ev, pcurr, at, ccurr, fd>>
uservars == <<user, ucurr>>
kernel == <<data, edge>>
poller == <<ev, pcurr>>
closer == <<at, ccurr>>

TypeOK ==
  /\ state \in [Events -> States]
  /\ user \in [Events -> {"running", "notify", "pending", "gone"}]
  /\ ucurr \in [Events -> States \cup {""}]
  /\ due \in [Events -> Nat]
  /\ data \in [Events -> BOOLEAN] /\ edge \in [Events -> BOOLEAN]
  /\ ev \in [Pollers -> Events \cup {""}]
  /\ pcurr \in [Pollers -> States \cup {""}]
  /\ at \in [Closers -> 0..Len(Order)]
  /\ ccurr \in [Closers -> States \cup {""}]
  /\ fd \in {"open", "free"}

Init ==
  /\ state = [e \in Events |-> "kClosureNotReady"]
  /\ user = [e \in Events |-> "running"]
  /\ ucurr = [e \in Events |-> ""]
  /\ due = [e \in Events |-> 0]
  /\ data = [e \in Events |-> FALSE] /\ edge = [e \in Events |-> FALSE]
  /\ ev = [p \in Pollers |-> ""] /\ pcurr = [p \in Pollers |-> ""]
  /\ at = [c \in Closers |-> 0] /\ ccurr = [c \in Closers |-> ""]
  /\ fd = "open"

-----------------------------------------------------------------------------
(* The user of an event: it reads until there is no more, and waits.        *)

Drain(e) ==
  /\ user[e] = "running"
  /\ data' = [data EXCEPT ![e] = FALSE]
  /\ user' = [user EXCEPT ![e] = "notify"]
  /\ UNCHANGED <<state, ucurr, due, edge, poller, closer, fd>>

Quit(e) ==
  /\ user[e] = "running"
  /\ user' = [user EXCEPT ![e] = "gone"]
  /\ UNCHANGED <<state, ucurr, due, kernel, poller, closer, fd>>

\* NotifyOn's load; after a shutdown the closure is scheduled at once.
NotifyOnLoad(e) ==
  /\ user[e] = "notify" /\ ucurr[e] = ""
  /\ \/ /\ state[e] = "shutdown"
        /\ due' = [due EXCEPT ![e] = @ + 1]
        /\ user' = [user EXCEPT ![e] = "pending"]
        /\ UNCHANGED ucurr
     \/ /\ state[e] # "shutdown"
        /\ ucurr' = [ucurr EXCEPT ![e] = state[e]]
        /\ UNCHANGED <<due, user>>
  /\ UNCHANGED <<state, kernel, poller, closer, fd>>

\* Mutant: installs the closure without comparing.
NotifyOnCasStores(e) ==
  /\ user[e] = "notify" /\ ucurr[e] \in {"kClosureNotReady", "kClosureReady"}
  /\ state' = [state EXCEPT ![e] = IF ucurr[e] = "kClosureReady"
                                   THEN "kClosureNotReady" ELSE "closure"]
  /\ due' = [due EXCEPT ![e] = IF ucurr[e] = "kClosureReady" THEN @ + 1 ELSE @]
  /\ user' = [user EXCEPT ![e] = "pending"]
  /\ ucurr' = [ucurr EXCEPT ![e] = ""]
  /\ UNCHANGED <<kernel, poller, closer, fd>>

\* The compare-and-swap of the case that was loaded: install the closure, or
\* consume the readiness and schedule it.  A failed one starts over.
NotifyOnCas(e) ==
  /\ user[e] = "notify" /\ ucurr[e] \in {"kClosureNotReady", "kClosureReady"}
  /\ ucurr' = [ucurr EXCEPT ![e] = ""]
  /\ \/ /\ state[e] = ucurr[e] /\ ucurr[e] = "kClosureNotReady"
        /\ state' = [state EXCEPT ![e] = "closure"]
        /\ user' = [user EXCEPT ![e] = "pending"]
        /\ UNCHANGED due
     \/ /\ state[e] = ucurr[e] /\ ucurr[e] = "kClosureReady"
        /\ state' = [state EXCEPT ![e] = "kClosureNotReady"]
        /\ user' = [user EXCEPT ![e] = "pending"]
        /\ due' = [due EXCEPT ![e] = @ + 1]
     \/ /\ state[e] # ucurr[e]
        /\ UNCHANGED <<state, user, due>>
  /\ UNCHANGED <<kernel, poller, closer, fd>>

\* The closure runs.
RunClosure(e) ==
  /\ due[e] > 0 /\ user[e] = "pending"
  /\ due' = [due EXCEPT ![e] = @ - 1]
  /\ user' = [user EXCEPT ![e] = "running"]
  /\ UNCHANGED <<state, ucurr, kernel, poller, closer, fd>>

-----------------------------------------------------------------------------
(* Pollers.                                                                 *)

\* Input arrives; a later edge may report input that was read already.
Input(e) ==
  /\ fd = "open"
  /\ data' = [data EXCEPT ![e] = TRUE]
  /\ edge' = [edge EXCEPT ![e] = TRUE]
  /\ UNCHANGED <<state, uservars, due, poller, closer, fd>>

\* process_epoll_events calls fd_become_readable or its like.
ProcessEvent(p, e) ==
  /\ ev[p] = "" /\ edge[e]
  /\ edge' = [edge EXCEPT ![e] = FALSE]
  /\ ev' = [ev EXCEPT ![p] = e]
  /\ UNCHANGED <<state, uservars, due, data, pcurr, closer, fd>>

\* SetReady's load; nothing is to be done if ready already, or shut down.
SetReadyLoad(p) ==
  /\ ev[p] # "" /\ pcurr[p] = ""
  /\ \/ /\ state[ev[p]] \in {"kClosureReady", "shutdown"}
        /\ ev' = [ev EXCEPT ![p] = ""]
        /\ UNCHANGED pcurr
     \/ /\ state[ev[p]] \in {"kClosureNotReady", "closure"}
        /\ pcurr' = [pcurr EXCEPT ![p] = state[ev[p]]]
        /\ UNCHANGED ev
  /\ UNCHANGED <<state, uservars, due, kernel, closer, fd>>

SetReadyReturn(p) ==
  /\ ev' = [ev EXCEPT ![p] = ""]
  /\ pcurr' = [pcurr EXCEPT ![p] = ""]

\* Mutant: stores without comparing.
SetReadyCasStores(p) ==
  /\ ev[p] # "" /\ pcurr[p] # ""
  /\ SetReadyReturn(p)
  /\ state' = [state EXCEPT ![ev[p]] =
                 IF pcurr[p] = "closure" THEN "kClosureNotReady"
                                         ELSE "kClosureReady"]
  /\ due' = [due EXCEPT ![ev[p]] = IF pcurr[p] = "closure" THEN @ + 1 ELSE @]
  /\ UNCHANGED <<uservars, kernel, closer, fd>>

\* Mutant: a failed compare-and-swap always means that the work was done.
SetReadyCasGivesUp(p) ==
  /\ ev[p] # "" /\ pcurr[p] # ""
  /\ SetReadyReturn(p)
  /\ LET e == ev[p]
     IN  \/ /\ state[e] = pcurr[p] /\ pcurr[p] = "kClosureNotReady"
            /\ state' = [state EXCEPT ![e] = "kClosureReady"]
            /\ UNCHANGED due
         \/ /\ state[e] = pcurr[p] /\ pcurr[p] = "closure"
            /\ state' = [state EXCEPT ![e] = "kClosureNotReady"]
            /\ due' = [due EXCEPT ![e] = @ + 1]
         \/ /\ state[e] # pcurr[p]
            /\ UNCHANGED <<state, due>>
  /\ UNCHANGED <<uservars, kernel, closer, fd>>

\* Its compare-and-swap.  When it fails on a closure, somebody else has
\* scheduled that closure and SetReady returns; otherwise it starts over.
SetReadyCas(p) ==
  /\ ev[p] # "" /\ pcurr[p] # ""
  /\ LET e == ev[p]
     IN  \/ /\ state[e] = pcurr[p] /\ pcurr[p] = "kClosureNotReady"
            /\ state' = [state EXCEPT ![e] = "kClosureReady"]
            /\ SetReadyReturn(p)
            /\ UNCHANGED due
         \/ /\ state[e] = pcurr[p] /\ pcurr[p] = "closure"
            /\ state' = [state EXCEPT ![e] = "kClosureNotReady"]
            /\ due' = [due EXCEPT ![e] = @ + 1]
            /\ SetReadyReturn(p)
         \/ /\ state[e] # pcurr[p] /\ pcurr[p] = "kClosureNotReady"
            /\ pcurr' = [pcurr EXCEPT ![p] = ""]
            /\ UNCHANGED <<state, due, ev>>
         \/ /\ state[e] # pcurr[p] /\ pcurr[p] = "closure"
            /\ SetReadyReturn(p)
            /\ UNCHANGED <<state, due>>
  /\ UNCHANGED <<uservars, kernel, closer, fd>>

-----------------------------------------------------------------------------
(* Shutdown, and the life of the descriptor.                                *)

FdShutdown(c) ==
  /\ fd = "open" /\ at[c] = 0
  /\ at' = [at EXCEPT ![c] = 1]
  /\ UNCHANGED <<state, uservars, due, kernel, poller, ccurr, fd>>

\* Mutant: stops after the event that had a closure to schedule.
SetShutdownReturnEarly(c, first) ==
  /\ at' = [at EXCEPT ![c] = IF first /\ ccurr[c] # "closure" /\ @ < Len(Order)
                             THEN @ + 1 ELSE 0]
  /\ ccurr' = [ccurr EXCEPT ![c] = ""]

\* fd_shutdown_internal goes on to the next event, unless the SetShutdown of
\* the first one said that the descriptor was shut down already.
SetShutdownReturn(c, first) ==
  /\ at' = [at EXCEPT ![c] = IF (first \/ @ > 1) /\ @ < Len(Order)
                             THEN @ + 1 ELSE 0]
  /\ ccurr' = [ccurr EXCEPT ![c] = ""]

SetShutdownLoad(c) ==
  /\ at[c] # 0 /\ ccurr[c] = ""
  /\ LET e == Order[at[c]]
     IN  \/ /\ state[e] = "shutdown"
            /\ SetShutdownReturn(c, FALSE)
         \/ /\ state[e] # "shutdown"
            /\ ccurr' = [ccurr EXCEPT ![c] = state[e]]
            /\ UNCHANGED at
  /\ UNCHANGED <<state, uservars, due, kernel, poller, fd>>

\* Mutant: drops the closure that was waiting.
SetShutdownCasDrops(c) ==
  /\ at[c] # 0 /\ ccurr[c] # ""
  /\ state[Order[at[c]]] = ccurr[c]
  /\ state' = [state EXCEPT ![Order[at[c]]] = "shutdown"]
  /\ SetShutdownReturn(c, TRUE)
  /\ UNCHANGED <<uservars, due, kernel, poller, fd>>

\* The compare-and-swap succeeds, and schedules the closure that was waiting.
SetShutdownCas(c) ==
  /\ at[c] # 0 /\ ccurr[c] # ""
  /\ LET e == Order[at[c]]
     IN  /\ state[e] = ccurr[c]
         /\ state' = [state EXCEPT ![e] = "shutdown"]
         /\ due' = [due EXCEPT ![e] = IF ccurr[c] = "closure" THEN @ + 1 ELSE @]
  /\ SetShutdownReturn(c, TRUE)
  /\ UNCHANGED <<uservars, kernel, poller, fd>>

SetShutdownCasFails(c) ==
  /\ at[c] # 0 /\ ccurr[c] # ""
  /\ state[Order[at[c]]] # ccurr[c]
  /\ ccurr' = [ccurr EXCEPT ![c] = ""]
  /\ UNCHANGED <<state, uservars, due, kernel, poller, at, fd>>

\* fd_orphan, once nobody uses the descriptor: if it is not shut down, the
\* call of fd_shutdown_internal is the step of a closer that comes before.
\* Closing the descriptor discards its input, but an event that epoll_wait
\* has returned already is still processed.
FdOrphan ==
  /\ fd = "open" /\ state[Order[1]] = "shutdown"
  /\ \A e \in Events : user[e] = "gone"
  /\ \A c \in Closers : at[c] = 0
  /\ fd' = "free"
  /\ state' = [e \in Events |-> "shutdown"]
  /\ data' = [e \in Events |-> FALSE]
  /\ edge' \in {edge, [e \in Events |-> FALSE]}
  /\ UNCHANGED <<uservars, due, poller, closer>>

\* fd_create takes it from the free list: InitEvent.
FdCreate ==
  /\ fd = "free"
  /\ fd' = "open"
  /\ state' = [e \in Events |-> "kClosureNotReady"]
  /\ user' = [e \in Events |-> "running"]
  /\ UNCHANGED <<ucurr, due, kernel, poller, closer>>

-----------------------------------------------------------------------------
UserStep(e) == NotifyOnLoad(e) \/ NotifyOnCas(e) \/ RunClosure(e) \/ Drain(e)

PollerStep(p) ==
  SetReadyLoad(p) \/ SetReadyCas(p) \/ \E e \in Events : ProcessEvent(p, e)

CloserStep(c) ==
  SetShutdownLoad(c) \/ SetShutdownCas(c) \/ SetShutdownCasFails(c)

Next ==
  \/ \E e \in Events : UserStep(e) \/ Quit(e) \/ Input(e)
  \/ \E p \in Pollers : PollerStep(p)
  \/ \E c \in Closers : CloserStep(c) \/ FdShutdown(c)
  \/ FdOrphan \/ FdCreate

Spec == Init /\ [][Next]_vars

\* Users, pollers and closers that have something to do go on doing it, and
\* the events that epoll_wait returned are processed in turn.
FairSpec ==
  /\ Spec
  /\ \A e \in Events : WF_vars(UserStep(e))
  /\ \A p \in Pollers : WF_vars(PollerStep(p))
  /\ \A e \in Events : SF_vars(\E p \in Pollers : ProcessEvent(p, e))
  /\ \A c \in Closers : WF_vars(CloserStep(c))

-----------------------------------------------------------------------------
\* A closure given to NotifyOn is scheduled exactly once, by whichever of
\* NotifyOn, SetReady and SetShutdown takes it, and so NotifyOn never finds
\* the previous closure, for which it crashes.
ScheduledOnce ==
  /\ TypeOK
  /\ \A e \in Events :
       due[e] + (IF state[e] = "closure" THEN 1 ELSE 0)
         = (IF user[e] = "pending" THEN 1 ELSE 0)

\* No wake-up is lost: while a closure waits although there is input, the edge
\* has yet to be reported or a poller is inside SetReady.
NoLostWakeup ==
  \A e \in Events :
    state[e] = "closure" /\ data[e] =>
      edge[e] \/ \E p \in Pollers : ev[p] = e

\* A shutdown is final until the descriptor is created again, although stale
\* SetReady calls go on.
ShutdownIsFinal ==
  [][\A e \in Events :
       state[e] = "shutdown" => state'[e] = "shutdown" \/ fd = "free"]_vars

\* Closers race, and all but one return at once; when none is left the
\* descriptor is shut down for every event or for none, which fd_orphan
\* relies on when it looks only at the first.
ShutdownIsComplete ==
  (\A c \in Closers : at[c] = 0) =>
    \A e, f \in Events : (state[e] = "shutdown") = (state[f] = "shutdown")

\* Input is read, unless the descriptor is shut down or its user leaves.
InputIsRead ==
  \A e \in Events :
    data[e] ~> (~data[e] \/ state[e] = "shutdown" \/ user[e] = "gone")

\* After a shutdown nobody waits for ever.
ShutdownWakes ==
  \A e \in Events :
    (state[Order[1]] = "shutdown" /\ user[e] = "pending") ~>
      (user[e] # "pending")
=============================================================================
