----------------------------- MODULE Subchannel -----------------------------
(***************************************************************************)
(* Subchannel, src/core/ext/filters/client_channel/subchannel.cc, with the *)
(* connectivity tracker of the transports it connects                      *)
(* (lib/transport/connectivity_state.cc) and the watchers of its own state.*)
(* A handler is one action, the part that runs under mu_, and leaves a     *)
(* DrainQueue to be called after the unlock; the notifications that it     *)
(* schedules on work_serializer_ are delivered one at a time, in order     *)
(* (WorkSerializer).  Statuses, channelz, keepalive throttling and the     *)
(* length of the backoff are left out, and health watching is not          *)
(* modelled.                                                               *)
(***************************************************************************)
EXTENDS Naturals, Sequences, FiniteSets

CONSTANTS
  Transports, Watchers, None,
  MaxPending,     \* bound: notifications on the work serializer
  MaxDrains       \* bound: threads between an unlock and DrainQueue

States == {"IDLE", "CONNECTING", "READY", "TRANSIENT_FAILURE"}

VARIABLES
  state,          \* state_
  connected,      \* the transport of connected_subchannel_
  connecting,     \* connector_ is working
  timer,          \* the retry timer: none, pending, running (waits for mu_)
  shutdown,       \* shutdown_
  watchers,       \* watcher_list_
  ws,             \* work_serializer_: <<watcher, state>>, oldest first
  drains,         \* calls of DrainQueue that are still to come
  draining,       \* a thread is running the callbacks of work_serializer_
  seen,           \* seen[w]: the state w was told last
  tstate,         \* tstate[k]: state_tracker of transport k, "" if unused
  watch,          \* watch[k]: the watcher of k is none, starting or on
  notes           \* notifications <<k, state>> of trackers, in any order

vars == <<state, connected, connecting, timer, shutdown, watchers, ws, drains,
          draining, seen, tstate, watch, notes>>
serializer == <<ws, drains, draining, seen>>
transports == <<tstate, watch, notes>>

TypeOK ==
  /\ state \in States
  /\ connected \in Transports \cup {None}
  /\ connecting \in BOOLEAN
  /\ timer \in {"none", "pending", "running"}
  /\ shutdown \in BOOLEAN
  /\ watchers \subseteq Watchers
  /\ ws \in Seq(Watchers \X States) /\ Len(ws) <= MaxPending
  /\ drains \in 0..MaxDrains
  /\ draining \in BOOLEAN
  /\ seen \in [Watchers -> States \cup {""}]
  /\ tstate \in [Transports -> {"", "READY", "TRANSIENT_FAILURE", "SHUTDOWN"}]
  /\ watch \in [Transports -> {"none", "starting", "on"}]
  /\ notes \subseteq Transports \X {"TRANSIENT_FAILURE", "SHUTDOWN"}

Init ==
  /\ state = "IDLE" /\ connected = None /\ connecting = FALSE
  /\ timer = "none" /\ shutdown = FALSE
  /\ watchers = {} /\ ws = << >> /\ drains = 0 /\ draining = FALSE
  /\ seen = [w \in Watchers |-> ""]
  /\ tstate = [k \in Transports |-> ""]
  /\ watch = [k \in Transports |-> "none"]
  /\ notes = {}

-----------------------------------------------------------------------------
(* work_serializer_.                                                        *)

\* One callback for each member of S, in the order of the map of watchers.
Schedule(S, s) ==
  /\ Len(ws) + Cardinality(S) <= MaxPending
  /\ \E order \in [1..Cardinality(S) -> S] :
       /\ {order[i] : i \in DOMAIN order} = S
       /\ ws' = ws \o [i \in 1..Cardinality(S) |-> <<order[i], s>>]

\* The end of a handler: unlock, DrainQueue to follow.
Unlock == drains < MaxDrains /\ drains' = drains + 1 /\ UNCHANGED draining

DrainQueue ==
  /\ drains > 0
  /\ drains' = drains - 1 /\ draining' = TRUE
  /\ UNCHANGED <<state, connected, connecting, timer, shutdown, watchers, ws,
                 seen, transports>>

\* Mutant: runs the newest callback first.
DeliverNewest ==
  /\ draining
  /\ \/ /\ ws # << >>
        /\ seen' = [seen EXCEPT ![ws[Len(ws)][1]] = ws[Len(ws)][2]]
        /\ ws' = SubSeq(ws, 1, Len(ws) - 1)
        /\ UNCHANGED draining
     \/ /\ ws = << >> /\ draining' = FALSE
        /\ UNCHANGED <<seen, ws>>
  /\ UNCHANGED <<state, connected, connecting, timer, shutdown, watchers,
                 drains, transports>>

\* The draining thread calls watcher->OnConnectivityStateChange, also for a
\* watcher that was cancelled meanwhile, or stops when there is no more.
Deliver ==
  /\ draining
  /\ \/ /\ ws # << >>
        /\ seen' = [seen EXCEPT ![Head(ws)[1]] = Head(ws)[2]]
        /\ ws' = Tail(ws)
        /\ UNCHANGED draining
     \/ /\ ws = << >> /\ draining' = FALSE
        /\ UNCHANGED <<seen, ws>>
  /\ UNCHANGED <<state, connected, connecting, timer, shutdown, watchers,
                 drains, transports>>

-----------------------------------------------------------------------------
(* The interface, called by owners of a strong reference.                   *)

SetConnectivityStateLocked(s) ==
  /\ state' = s
  /\ Schedule(watchers, s)
  /\ UNCHANGED <<watchers, seen>>

\* Mutant: adds the watcher without telling it the current state.
WatchConnectivityStateSilent(w) ==
  /\ ~shutdown /\ w \notin watchers /\ \A i \in 1..Len(ws) : ws[i][1] # w
  /\ watchers' = watchers \cup {w}
  /\ seen' = [seen EXCEPT ![w] = ""]
  /\ Unlock
  /\ UNCHANGED <<state, connected, connecting, timer, shutdown, ws, transports>>

\* w is a new watcher: nothing is left of an earlier use of its name.
WatchConnectivityState(w) ==
  /\ ~shutdown /\ w \notin watchers /\ \A i \in 1..Len(ws) : ws[i][1] # w
  /\ Schedule({w}, state)
  /\ watchers' = watchers \cup {w}
  /\ seen' = [seen EXCEPT ![w] = ""]
  /\ Unlock
  /\ UNCHANGED <<state, connected, connecting, timer, shutdown, transports>>

CancelConnectivityStateWatch(w) ==
  /\ ~shutdown /\ w \in watchers
  /\ watchers' = watchers \ {w}
  /\ Unlock
  /\ UNCHANGED <<state, connected, connecting, timer, shutdown, ws, seen,
                 transports>>

\* RequestConnection and StartConnectingLocked; in another state than IDLE
\* it changes nothing.
RequestConnection ==
  /\ ~shutdown /\ state = "IDLE"
  /\ connecting' = TRUE
  /\ SetConnectivityStateLocked("CONNECTING")
  /\ Unlock
  /\ UNCHANGED <<connected, timer, shutdown, transports>>

\* Mutant: ignores the result of Cancel.
ResetBackoffAnyway ==
  /\ ~shutdown /\ state = "TRANSIENT_FAILURE"
  /\ timer' = IF timer = "pending" THEN "none" ELSE timer
  /\ SetConnectivityStateLocked("IDLE")
  /\ Unlock
  /\ UNCHANGED <<connected, connecting, shutdown, transports>>

\* Mutant: cancels the timer and does not do its work.
ResetBackoffForgets ==
  /\ ~shutdown /\ state = "TRANSIENT_FAILURE" /\ timer = "pending"
  /\ timer' = "none"
  /\ Unlock
  /\ UNCHANGED <<state, connected, connecting, shutdown, watchers, ws, seen,
                 transports>>

\* ResetBackoff, if it can cancel the retry timer; otherwise it changes only
\* times.
ResetBackoff ==
  /\ ~shutdown /\ state = "TRANSIENT_FAILURE" /\ timer = "pending"
  /\ timer' = "none"
  /\ SetConnectivityStateLocked("IDLE")
  /\ Unlock
  /\ UNCHANGED <<connected, connecting, shutdown, transports>>

\* The last strong reference is gone.  The connector, shut down, still calls
\* back.
Orphan ==
  /\ ~shutdown
  /\ shutdown' = TRUE
  /\ connected' = None
  /\ Unlock
  /\ UNCHANGED <<state, connecting, timer, watchers, ws, seen, transports>>

-----------------------------------------------------------------------------
(* The connection attempt and the retry timer.                              *)

\* Nothing refers to k any more: its name can stand for a new transport.
Unused(k) ==
  /\ tstate[k] \in {"", "SHUTDOWN"}
  /\ connected # k /\ watch[k] = "none"
  /\ \A n \in notes : n[1] # k

\* OnConnectingFinished with a transport that PublishTransportLocked takes:
\* connected_subchannel_ is set, its watch is started, READY is reported.
Connected(k) ==
  /\ connecting /\ ~shutdown /\ Unused(k)
  /\ connecting' = FALSE
  /\ connected' = k
  /\ tstate' = [tstate EXCEPT ![k] = "READY"]
  /\ watch' = [watch EXCEPT ![k] = "starting"]
  /\ SetConnectivityStateLocked("READY")
  /\ Unlock
  /\ UNCHANGED <<timer, shutdown, notes>>

\* OnConnectingFinished without a transport, or with one for which no channel
\* stack can be built.
ConnectFailed ==
  /\ connecting /\ ~shutdown
  /\ connecting' = FALSE
  /\ timer' = "pending"
  /\ SetConnectivityStateLocked("TRANSIENT_FAILURE")
  /\ Unlock
  /\ UNCHANGED <<connected, shutdown, transports>>

\* OnConnectingFinished after Orphan: the result is thrown away.
ConnectDiscarded ==
  /\ connecting /\ shutdown
  /\ connecting' = FALSE
  /\ Unlock
  /\ UNCHANGED <<state, connected, timer, shutdown, watchers, ws, seen,
                 transports>>

\* The timer expires: Cancel returns false from now on.
RetryTimerFires ==
  /\ timer = "pending"
  /\ timer' = "running"
  /\ UNCHANGED <<state, connected, connecting, shutdown, watchers, serializer,
                 transports>>

OnRetryTimer ==
  /\ timer = "running"
  /\ timer' = "none"
  /\ \/ shutdown /\ UNCHANGED <<state, watchers, ws, seen>>
     \/ ~shutdown /\ SetConnectivityStateLocked("IDLE")
  /\ Unlock
  /\ UNCHANGED <<connected, connecting, shutdown, transports>>

-----------------------------------------------------------------------------
(* Transports, and the watcher that the subchannel has on each.             *)

\* Mutant: leaves it to the next SetState to notify.
AddWatcherSilent(k) ==
  /\ watch[k] = "starting"
  /\ watch' = [watch EXCEPT ![k] = IF tstate[k] = "SHUTDOWN" THEN "none"
                                                             ELSE "on"]
  /\ UNCHANGED <<state, connected, connecting, timer, shutdown, watchers,
                 serializer, tstate, notes>>

\* The transport op of StartWatch reaches the tracker of k, which may have
\* left READY by then.
AddWatcher(k) ==
  /\ watch[k] = "starting"
  /\ notes' = IF tstate[k] = "READY" THEN notes
              ELSE notes \cup {<<k, tstate[k]>>}
  /\ watch' = [watch EXCEPT ![k] = IF tstate[k] = "SHUTDOWN" THEN "none"
                                                             ELSE "on"]
  /\ UNCHANGED <<state, connected, connecting, timer, shutdown, watchers,
                 serializer, tstate>>

\* connectivity_state_set: TRANSIENT_FAILURE for a GOAWAY or exhausted stream
\* ids, SHUTDOWN when the transport closes, at once or after the calls that
\* still use it.
SetState(k, s) ==
  /\ \/ s = "TRANSIENT_FAILURE" /\ tstate[k] = "READY"
     \/ s = "SHUTDOWN" /\ tstate[k] \in {"READY", "TRANSIENT_FAILURE"}
  /\ tstate' = [tstate EXCEPT ![k] = s]
  /\ notes' = IF watch[k] = "on" THEN notes \cup {<<k, s>>} ELSE notes
  /\ watch' = [watch EXCEPT ![k] = IF s = "SHUTDOWN" /\ @ = "on" THEN "none"
                                                                 ELSE @]
  /\ UNCHANGED <<state, connected, connecting, timer, shutdown, watchers,
                 serializer>>

\* ConnectedSubchannelStateWatcher::OnConnectivityStateChange for transport k:
\* it looks only at whether there is a connected subchannel.
OnConnectivityStateChange(k, s) ==
  /\ <<k, s>> \in notes
  /\ notes' = notes \ {<<k, s>>}
  /\ \/ /\ connected = None
        /\ UNCHANGED <<state, connected, watchers, serializer>>
     \/ /\ connected # None
        /\ connected' = None
        /\ SetConnectivityStateLocked("IDLE")
        /\ Unlock
  /\ UNCHANGED <<connecting, timer, shutdown, tstate, watch>>

-----------------------------------------------------------------------------
Notified(k) ==
  \E s \in {"TRANSIENT_FAILURE", "SHUTDOWN"} : OnConnectivityStateChange(k, s)

ConnectingFinished ==
  ConnectFailed \/ ConnectDiscarded \/ \E k \in Transports : Connected(k)

Next ==
  \/ DrainQueue \/ Deliver
  \/ \E w \in Watchers : \/ WatchConnectivityState(w)
                         \/ CancelConnectivityStateWatch(w)
  \/ RequestConnection \/ ResetBackoff \/ Orphan
  \/ ConnectingFinished \/ RetryTimerFires \/ OnRetryTimer
  \/ \E k \in Transports :
       \/ AddWatcher(k) \/ Notified(k)
       \/ \E s \in {"TRANSIENT_FAILURE", "SHUTDOWN"} : SetState(k, s)

Spec == Init /\ [][Next]_vars

\* Timers fire, ops reach their transport, and a thread that waits for mu_ or
\* is on its way to DrainQueue gets on: strong fairness where other threads
\* may come first for a while.
FairSpec ==
  /\ Spec
  /\ WF_vars(DrainQueue) /\ WF_vars(Deliver)
  /\ WF_vars(RetryTimerFires) /\ SF_vars(OnRetryTimer)
  /\ \A k \in Transports : WF_vars(AddWatcher(k)) /\ SF_vars(Notified(k))

-----------------------------------------------------------------------------
\* subchannel.h:376, "the connectivity state implies the state of the
\* Subchannel object": an attempt, a connection or a retry timer exists
\* exactly in the state that stands for it, also when ResetBackoff races with
\* the timer and late notifications arrive.
StateMeaning ==
  /\ TypeOK
  /\ ~shutdown =>
       /\ connecting <=> (state = "CONNECTING")
       /\ (connected # None) <=> (state = "READY")
       /\ (timer # "none") <=> (state = "TRANSIENT_FAILURE")

Pending(w) == {i \in 1..Len(ws) : ws[i][1] = w}

Latest(w) ==
  IF Pending(w) = {} THEN seen[w]
  ELSE ws[CHOOSE i \in Pending(w) : \A j \in Pending(w) : j <= i][2]

\* What a watcher was told, or is about to be told last, is the state, and
\* nothing is left on the work serializer: while something is, somebody is
\* running its callbacks or about to call DrainQueue.
WatchersAreCurrent ==
  /\ \A w \in watchers : Latest(w) = state
  /\ ws # << >> => draining \/ drains > 0

Steps == {<<"IDLE", "CONNECTING">>, <<"CONNECTING", "READY">>,
          <<"CONNECTING", "TRANSIENT_FAILURE">>,
          <<"READY", "IDLE">>, <<"TRANSIENT_FAILURE", "IDLE">>}

\* A watcher sees each step of the state, in order and none left out: never
\* the same state twice ("Must be called with a state that is different from
\* the current state", subchannel.cc:803), nor READY without CONNECTING.
WatchersSeeEveryStep ==
  [][\A w \in Watchers :
       (ws # << >> /\ ws' = Tail(ws) /\ Head(ws)[1] = w /\ seen[w] # "") =>
         <<seen[w], seen'[w]>> \in Steps]_vars

\* subchannel.cc:322, "we react to the first one we see, ignoring anything that
\* happens after that": a connection is given up only when its own transport
\* has reported GOAWAY or that it is closed.
HealthyIsKept ==
  [][\A k \in Transports :
       (connected = k /\ connected' # k) => tstate[k] # "READY" \/ shutdown']_vars

\* A connection that fails is given up, even one that fails before the watch
\* has reached its transport.
FailureIsNoticed ==
  \A k \in Transports :
    (connected = k /\ tstate[k] # "READY") ~> (connected # k)

\* Backoff ends, whatever ResetBackoff does to its timer.
BackoffEnds ==
  (state = "TRANSIENT_FAILURE") ~> (state # "TRANSIENT_FAILURE" \/ shutdown)
=============================================================================
