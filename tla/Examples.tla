------------------------------ MODULE Examples ------------------------------
(***************************************************************************)
(* The example servers of GRPC_Examples side by side.  They are programs   *)
(* of their own that share no state, so a behaviour is one of any of them: *)
(* the server is chosen at the start and the others stay as they are.      *)
(***************************************************************************)
EXTENDS Naturals

CONSTANTS Streams, Notes, Locations, At, None, Threads, CallDatas, MaxCalls

VARIABLES
  server,   \* which server runs: sync, async, callback or greeter
  s_received_notes, s_mu, s_pc, s_note, s_it, s_out,
  a_routeNotes, a_pc, a_note, a_prevNotes, a_out,
  c_received_notes, c_to_send_notes, c_it, c_pc, c_note, c_read, c_out,
  g_status, g_pc, g_this, g_spawner, g_requested, g_finishing, g_cq,
  g_arrived, g_matched, g_answered

syncVars == <<s_received_notes, s_mu, s_pc, s_note, s_it, s_out>>
asyncVars == <<a_routeNotes, a_pc, a_note, a_prevNotes, a_out>>
callbackVars ==
  <<c_received_notes, c_to_send_notes, c_it, c_pc, c_note, c_read, c_out>>
greeterVars ==
  <<g_status, g_pc, g_this, g_spawner, g_requested, g_finishing, g_cq,
    g_arrived, g_matched, g_answered>>
vars == <<server, syncVars, asyncVars, callbackVars, greeterVars>>

Sync == INSTANCE RouteChatSync WITH
  received_notes <- s_received_notes, mu <- s_mu, pc <- s_pc, note <- s_note,
  it <- s_it, out <- s_out

Async == INSTANCE RouteChatAsync WITH
  routeNotes <- a_routeNotes, pc <- a_pc, note <- a_note,
  prevNotes <- a_prevNotes, out <- a_out

Callback == INSTANCE RouteChatCallback WITH
  received_notes <- c_received_notes, to_send_notes <- c_to_send_notes,
  it <- c_it, pc <- c_pc, note <- c_note, read <- c_read, out <- c_out

Greeter == INSTANCE GreeterAsyncServer WITH
  status <- g_status, pc <- g_pc, this <- g_this, spawner <- g_spawner,
  requested <- g_requested, finishing <- g_finishing, cq <- g_cq,
  arrived <- g_arrived, matched <- g_matched, answered <- g_answered

Init ==
  /\ server \in {"sync", "async", "callback", "greeter"}
  /\ Sync!Init /\ Async!Init /\ Callback!Init /\ Greeter!Init

IsSync == server = "sync" /\ UNCHANGED <<server, asyncVars, callbackVars, greeterVars>>
IsAsync == server = "async" /\ UNCHANGED <<server, syncVars, callbackVars, greeterVars>>
IsCallback == server = "callback" /\ UNCHANGED <<server, syncVars, asyncVars, greeterVars>>
IsGreeter == server = "greeter" /\ UNCHANGED <<server, syncVars, asyncVars, callbackVars>>

Next ==
  \/ IsSync /\ Sync!Next
  \/ IsAsync /\ Async!Next
  \/ IsCallback /\ Callback!Next
  \/ IsGreeter /\ Greeter!Next

Spec == Init /\ [][Next]_vars

\* The fairness of RouteChatSync and of GreeterAsyncServer.
FairSpec ==
  /\ Spec
  /\ \A s \in Streams : WF_vars(IsSync /\ Sync!Step(s))
  /\ \A t \in Threads : WF_vars(IsGreeter /\ Greeter!Step(t))
  /\ WF_vars(IsGreeter /\ Greeter!Match) /\ WF_vars(IsGreeter /\ Greeter!Sent)

-----------------------------------------------------------------------------
\* The C++ server with a mutex around the whole answer is the abstract chat:
\* every note is answered with exactly the notes received before it at its
\* location, in order.
SyncImplementsRouteChat == Sync!ImplementsRouteChat

\* So is the C# server, which awaits its writes outside the lock.
AsyncImplementsRouteChat == Async!ImplementsRouteChat

\* The callback server is not, but every stream gets its own earlier notes at
\* a location back.
OwnNotesReturn == Callback!OwnNotesReturn

\* GRPC_Examples/csharp/RouteGuide/RouteGuideServer/RouteGuideImpl.cs:103, of
\* RouteChat, "responds with a stream of all previous messages": the callback
\* server has sent for a note all notes stored before it at its location.
AllPreviousSent == Callback!AllPreviousSent

\* A CallData of the greeter has one user, a thread or the runtime, as long as
\* it lives.
OneUser == Greeter!OneUser


\* Every call to the greeter is answered.
EveryCallAnswered == Greeter!EveryCallAnswered
=============================================================================
