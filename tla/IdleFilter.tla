----------------------------- MODULE IdleFilter -----------------------------
(***************************************************************************)
(* ext/filters/channel_idle on a client channel: the atomic state word of  *)
(* IdleFilterState, the idle timer (an activity held in a SingleSetPtr)    *)
(* and the disconnect op that goes through the filter, when the timer      *)
(* closes the channel as well as when the application does.                *)
(* A compare-exchange loop takes effect in one step; what a thread does    *)
(* with its result comes later.                                            *)
(***************************************************************************)
EXTENDS Naturals, FiniteSets

CONSTANTS Users,     \* threads that make calls
          Timers,    \* activities that StartIdleTimer can make
          App,       \* the thread that destroys the channel
          MaxCalls,  \* bound on the number of calls
          None

VARIABLES
  state,      \* state_: timer_started, calls_started (since the last check), calls
  pc,         \* pc[u]: Out, Begin, Call, StartTimer, Set
  made,       \* made[u]: the activity that u has made and not yet stored
  timer,      \* timer[t]: none, sleeping, finished or cancelled
  activity,   \* activity_
  shut,       \* shut[a]: where a is in closing the channel
  channel,    \* IDLE, ACTIVE or SHUTDOWN, the state of the client channel
  total,      \* number of calls so far
  quiet       \* quiet[t]: no call was in progress since t went to sleep (history)

vars == <<state, pc, made, timer, activity, shut, channel, total, quiet>>

Closers == Timers \cup {App}

TypeOK ==
  /\ state \in [timer_started : BOOLEAN, calls_started : BOOLEAN, calls : Nat]
  /\ pc \in [Users -> {"Out", "Begin", "Call", "StartTimer", "Set"}]
  /\ made \in [Users -> Timers \cup {None}]
  /\ timer \in [Timers -> {"none", "sleeping", "finished", "cancelled"}]
  /\ activity \in Timers \cup {None}
  /\ shut \in [Closers -> {"no", "Increase", "Reset", "Op", "done"}]
  /\ channel \in {"IDLE", "ACTIVE", "SHUTDOWN"}
  /\ total \in 0..MaxCalls /\ quiet \in [Timers -> BOOLEAN]

Init ==
  /\ state = [timer_started |-> FALSE, calls_started |-> FALSE, calls |-> 0]
  /\ pc = [u \in Users |-> "Out"] /\ made = [u \in Users |-> None]
  /\ timer = [t \in Timers |-> "none"] /\ activity = None
  /\ shut = [a \in Closers |-> "no"]
  /\ channel = "IDLE" /\ total = 0 /\ quiet = [t \in Timers |-> FALSE]

-----------------------------------------------------------------------------
InCall == {u \in Users : pc[u] \in {"Begin", "Call"}}
GoTo(u, l) == pc' = [pc EXCEPT ![u] = l]

\* Mutant: does not flag that there has been activity.
IncreaseCallCountSilent(s) == [s EXCEPT !.calls = @ + 1]

IncreaseCallCount(s) == [s EXCEPT !.calls = @ + 1, !.calls_started = TRUE]

\* Mutant: does not flag that a timer is started.
DecreaseCallCountUnflagged(s) ==
  LET n == s.calls - 1 IN
  IF n = 0 /\ ~s.timer_started
  THEN <<[s EXCEPT !.calls_started = FALSE, !.calls = n], TRUE>>
  ELSE <<[s EXCEPT !.calls = n], FALSE>>

\* The new state and whether to start the timer.  "&= ~kCallsInProgressShift"
\* clears the bit 2, which is kCallsStartedSinceLastTimerCheck.
DecreaseCallCount(s) ==
  LET n == s.calls - 1 IN
  IF n = 0 /\ ~s.timer_started
  THEN <<[timer_started |-> TRUE, calls_started |-> FALSE, calls |-> n], TRUE>>
  ELSE <<[s EXCEPT !.calls = n], FALSE>>

\* Mutant: does not reset the activity flag.
CheckTimerKeepsActivity(s) ==
  CASE s.calls # 0 -> <<s, TRUE>>
    [] s.calls = 0 /\ s.calls_started -> <<s, TRUE>>
    [] OTHER -> <<[s EXCEPT !.timer_started = FALSE], FALSE>>

\* The new state and whether to start the timer again.
CheckTimer(s) ==
  CASE s.calls # 0 -> <<s, TRUE>>
    [] s.calls = 0 /\ s.calls_started -> <<[s EXCEPT !.calls_started = FALSE], TRUE>>
    [] OTHER -> <<[s EXCEPT !.timer_started = FALSE], FALSE>>

-----------------------------------------------------------------------------
\* MakeCallPromise.
BeginCall(u) ==
  /\ pc[u] = "Out" /\ total < MaxCalls
  /\ state' = IncreaseCallCount(state)
  /\ total' = total + 1
  /\ quiet' = [t \in Timers |-> FALSE]
  /\ GoTo(u, "Begin")
  /\ UNCHANGED <<made, timer, activity, shut, channel>>

\* The client channel below: a call takes it out of IDLE.
ExitIdle(u) ==
  /\ pc[u] = "Begin"
  /\ channel' = IF channel = "IDLE" THEN "ACTIVE" ELSE channel
  /\ GoTo(u, "Call")
  /\ UNCHANGED <<state, made, timer, activity, shut, total, quiet>>

\* The Decrementer of a call.
EndCall(u) ==
  /\ pc[u] = "Call"
  /\ LET r == DecreaseCallCount(state)
     IN  state' = r[1] /\ GoTo(u, IF r[2] THEN "StartTimer" ELSE "Out")
  /\ UNCHANGED <<made, timer, activity, shut, channel, total, quiet>>

\* StartIdleTimer: MakeActivity polls the promise, which goes to sleep.
StartIdleTimer(u) ==
  /\ pc[u] = "StartTimer"
  /\ \E t \in Timers :
       /\ timer[t] = "none"
       /\ timer' = [timer EXCEPT ![t] = "sleeping"]
       /\ made' = [made EXCEPT ![u] = t]
       /\ quiet' = [quiet EXCEPT ![t] = (InCall = {})]
  /\ GoTo(u, "Set")
  /\ UNCHANGED <<state, activity, shut, channel, total>>

\* The Deleter of the pointer: cancels the activity unless it is done.
Delete(t) ==
  timer' = [i \in Timers |-> IF i = t /\ timer[i] = "sleeping"
                             THEN "cancelled" ELSE timer[i]]

\* SingleSetPtr::Set.
Set(u) ==
  /\ pc[u] = "Set"
  /\ \/ activity = None /\ activity' = made[u] /\ UNCHANGED timer
     \/ activity # None /\ Delete(made[u]) /\ UNCHANGED activity
  /\ made' = [made EXCEPT ![u] = None]
  /\ GoTo(u, "Out")
  /\ UNCHANGED <<state, shut, channel, total, quiet>>

\* Mutant: takes a timer that finds calls in progress for done.
TimerExpiresOnce(t) ==
  /\ timer[t] = "sleeping"
  /\ LET r == CheckTimer(state) IN
       /\ state' = r[1]
       /\ timer' = [timer EXCEPT ![t] = IF r[2] /\ state.calls = 0
                                        THEN "sleeping" ELSE "finished"]
       /\ shut' = [shut EXCEPT ![t] = IF r[2] THEN @ ELSE "Increase"]
  /\ quiet' = [quiet EXCEPT ![t] = (InCall = {})]
  /\ UNCHANGED <<pc, made, activity, channel, total>>

\* The Sleep of the loop ends: again, or on to CloseChannel.
TimerExpires(t) ==
  /\ timer[t] = "sleeping"
  /\ LET r == CheckTimer(state) IN
       /\ state' = r[1]
       /\ timer' = [timer EXCEPT ![t] = IF r[2] THEN "sleeping" ELSE "finished"]
       /\ shut' = [shut EXCEPT ![t] = IF r[2] THEN @ ELSE "Increase"]
  /\ quiet' = [quiet EXCEPT ![t] = (InCall = {})]
  /\ UNCHANGED <<pc, made, activity, channel, total>>

-----------------------------------------------------------------------------
\* The application destroys the channel.
Destroy ==
  /\ shut[App] = "no"
  /\ shut' = [shut EXCEPT ![App] = "Increase"]
  /\ UNCHANGED <<state, pc, made, timer, activity, channel, total, quiet>>

\* StartTransportOp of the filter calls Shutdown: the phony call ...
ShutdownIncrease(a) ==
  /\ shut[a] = "Increase"
  /\ state' = IncreaseCallCount(state)
  /\ shut' = [shut EXCEPT ![a] = "Reset"]
  /\ UNCHANGED <<pc, made, timer, activity, channel, total, quiet>>

\* ... and activity_.Reset().
ShutdownReset(a) ==
  /\ shut[a] = "Reset"
  /\ Delete(activity) /\ activity' = None
  /\ shut' = [shut EXCEPT ![a] = "Op"]
  /\ UNCHANGED <<state, pc, made, channel, total, quiet>>

\* The op reaches the client channel.
StartTransportOpLocked(a) ==
  /\ shut[a] = "Op"
  /\ channel' = CASE a = App -> "SHUTDOWN"
                  [] a # App /\ channel = "SHUTDOWN" -> "SHUTDOWN"
                  [] OTHER -> "IDLE"
  /\ shut' = [shut EXCEPT ![a] = "done"]
  /\ UNCHANGED <<state, pc, made, timer, activity, total, quiet>>

-----------------------------------------------------------------------------
UserStep(u) == ExitIdle(u) \/ EndCall(u) \/ StartIdleTimer(u) \/ Set(u)
CloserStep(a) == ShutdownIncrease(a) \/ ShutdownReset(a) \/ StartTransportOpLocked(a)

Next ==
  \/ \E u \in Users : BeginCall(u) \/ UserStep(u)
  \/ \E t \in Timers : TimerExpires(t)
  \/ Destroy
  \/ \E a \in Closers : CloserStep(a)

Spec == Init /\ [][Next]_vars

\* Calls end, timers expire and threads go on; nobody has to make a call or to
\* destroy the channel.
FairSpec ==
  /\ Spec
  /\ \A u \in Users : WF_vars(UserStep(u))
  /\ \A t \in Timers : WF_vars(TimerExpires(t))
  /\ \A a \in Closers : WF_vars(CloserStep(a))

-----------------------------------------------------------------------------
Sleeping == {t \in Timers : timer[t] = "sleeping"}
Starting == {u \in Users : pc[u] = "StartTimer"}
Closing == {a \in Closers : shut[a] # "no"}

\* DecreaseCallCount marks the timer started "so nobody else does": at most one
\* timer runs or is about to.
OneTimer ==
  /\ TypeOK
  /\ Cardinality(Sleeping) + Cardinality(Starting) <= 1

\* A channel without calls is watched: once there has been a call, whenever
\* state_ counts no call a timer runs, is about to, or is closing the channel.
IdleIsWatched ==
  state.calls = 0 /\ total > 0 => Sleeping \cup Starting \cup Closing # {}

\* idle_filter_state.h:47, "we know that the channel is idle and has been for
\* one full cycle": when a timer decides to close the channel, no call has been
\* in progress since that timer last went to sleep.
FullCycle ==
  [][\A t \in Timers : timer[t] = "sleeping" /\ timer'[t] = "finished"
       => quiet[t] /\ InCall = {}]_vars

\* A channel that has served calls and has none goes back to IDLE, up to the
\* first time that it does.
FirstIdle ==
  (channel = "ACTIVE" /\ Closing = {} /\ InCall = {}) ~>
    (channel # "ACTIVE" \/ InCall # {})

\* include/grpc/impl/grpc_types.h:169, "Timeout after the last RPC finishes on
\* the client channel at which the channel goes back into IDLE state": it does
\* so every time.
BackToIdle ==
  (channel = "ACTIVE" /\ InCall = {}) ~> (channel # "ACTIVE" \/ InCall # {})

\* channel_idle_filter.cc:229, the phony call "prevent[s] the timer from being
\* reset by other threads": no timer is left when Shutdown has returned and no
\* thread is in the filter any more.
ShutdownStopsTimer ==
  shut[App] \in {"Op", "done"} /\ (\A u \in Users : pc[u] = "Out") => Sleeping = {}
=============================================================================
