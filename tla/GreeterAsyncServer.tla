------------------------- MODULE GreeterAsyncServer -------------------------
(***************************************************************************)
(* GRPC_Examples/cpp/helloworld/greeter_async_server.cc: the life of the   *)
(* CallData objects when HandleRpcs runs in several threads ("This can be  *)
(* run in multiple threads if needed").  The completion queue, the server  *)
(* and the clients are the runtime; every operation succeeds.              *)
(***************************************************************************)
EXTENDS Naturals, FiniteSets

CONSTANTS Threads, CallDatas, MaxCalls, None

VARIABLES
  status,     \* status[c]: status_, or "free" when c is not an object
  pc,         \* pc[t]: New, Create, Request, Next, Proceed, SetFinish, Finish, Delete
  this,       \* this[t]: the object whose Proceed t is in
  spawner,    \* spawner[t]: the object whose Proceed has created this[t]
  requested,  \* objects that wait for a call
  finishing,  \* objects whose answer is on the way
  cq,         \* tags of the events in the completion queue
  arrived, matched, answered  \* calls made, given to an object, answered

threadVars == <<status, pc, this, spawner>>
runtime == <<requested, finishing, cq, arrived, matched, answered>>
vars == <<threadVars, runtime>>

TypeOK ==
  /\ status \in [CallDatas -> {"free", "CREATE", "PROCESS", "FINISH"}]
  /\ pc \in [Threads -> {"New", "Create", "Request", "Next", "Proceed",
                         "SetFinish", "Finish", "Delete"}]
  /\ this \in [Threads -> CallDatas \cup {None}]
  /\ spawner \in [Threads -> CallDatas \cup {None}]
  /\ requested \in SUBSET CallDatas /\ finishing \in SUBSET CallDatas
  /\ cq \in SUBSET CallDatas
  /\ answered <= matched /\ matched <= arrived /\ arrived \in 0..MaxCalls

Init ==
  /\ status = [c \in CallDatas |-> "free"]
  /\ pc = [t \in Threads |-> "New"]
  /\ this = [t \in Threads |-> None] /\ spawner = [t \in Threads |-> None]
  /\ requested = {} /\ finishing = {} /\ cq = {}
  /\ arrived = 0 /\ matched = 0 /\ answered = 0

-----------------------------------------------------------------------------
GoTo(t, l) == pc' = [pc EXCEPT ![t] = l]
SetStatus(c, v) == status' = [status EXCEPT ![c] = v]

\* new CallData: any memory that is free, that of a deleted one too.
New(t) ==
  /\ pc[t] = "New"
  /\ \E c \in CallDatas :
       /\ status[c] = "free"
       /\ SetStatus(c, "CREATE")
       /\ this' = [this EXCEPT ![t] = c]
  /\ GoTo(t, "Create") /\ UNCHANGED <<spawner, runtime>>

\* Proceed in the constructor.
Create(t) ==
  /\ pc[t] = "Create"
  /\ SetStatus(this[t], "PROCESS")
  /\ GoTo(t, "Request") /\ UNCHANGED <<this, spawner, runtime>>

\* RequestSayHello; the constructor returns to HandleRpcs or to Proceed.
Request(t) ==
  /\ pc[t] = "Request"
  /\ requested' = requested \cup {this[t]}
  /\ this' = [this EXCEPT ![t] = spawner[t]]
  /\ GoTo(t, IF spawner[t] = None THEN "Next" ELSE "SetFinish")
  /\ spawner' = [spawner EXCEPT ![t] = None]
  /\ UNCHANGED <<status, finishing, cq, arrived, matched, answered>>

TakeEvent(t) ==
  /\ pc[t] = "Next"
  /\ \E c \in cq : cq' = cq \ {c} /\ this' = [this EXCEPT ![t] = c]
  /\ GoTo(t, "Proceed")
  /\ UNCHANGED <<status, spawner, requested, finishing, arrived, matched, answered>>

\* Mutant: serves a call without asking for the next one.
ProceedAlone(t) ==
  /\ pc[t] = "Proceed"
  /\ GoTo(t, IF status[this[t]] = "PROCESS" THEN "SetFinish" ELSE "Delete")
  /\ UNCHANGED <<status, this, spawner, runtime>>

\* The test of status_: PROCESS creates the next object, FINISH deletes this one.
Proceed(t) ==
  /\ pc[t] = "Proceed"
  /\ \/ /\ status[this[t]] = "PROCESS"
        /\ spawner' = [spawner EXCEPT ![t] = this[t]]
        /\ GoTo(t, "New")
     \/ /\ status[this[t]] = "FINISH"
        /\ GoTo(t, "Delete") /\ UNCHANGED spawner
  /\ UNCHANGED <<status, this, runtime>>

SetFinish(t) ==
  /\ pc[t] = "SetFinish"
  /\ SetStatus(this[t], "FINISH")
  /\ GoTo(t, "Finish") /\ UNCHANGED <<this, spawner, runtime>>

\* Mutant: deletes the object as soon as the answer is under way.
FinishDeletes(t) ==
  /\ pc[t] = "Finish"
  /\ finishing' = finishing \cup {this[t]}
  /\ SetStatus(this[t], "free")
  /\ this' = [this EXCEPT ![t] = None]
  /\ GoTo(t, "Next")
  /\ UNCHANGED <<spawner, requested, cq, arrived, matched, answered>>

\* responder_.Finish, the last use of the object in this thread.
Finish(t) ==
  /\ pc[t] = "Finish"
  /\ finishing' = finishing \cup {this[t]}
  /\ this' = [this EXCEPT ![t] = None]
  /\ GoTo(t, "Next")
  /\ UNCHANGED <<status, spawner, requested, cq, arrived, matched, answered>>

Delete(t) ==
  /\ pc[t] = "Delete"
  /\ SetStatus(this[t], "free")
  /\ this' = [this EXCEPT ![t] = None]
  /\ GoTo(t, "Next") /\ UNCHANGED <<spawner, runtime>>

-----------------------------------------------------------------------------
\* A client calls SayHello.
CallArrives ==
  /\ arrived < MaxCalls
  /\ arrived' = arrived + 1
  /\ UNCHANGED <<threadVars, requested, finishing, cq, matched, answered>>

\* The server gives a call to an object that waits for one.
Match ==
  /\ matched < arrived
  /\ \E c \in requested : requested' = requested \ {c} /\ cq' = cq \cup {c}
  /\ matched' = matched + 1
  /\ UNCHANGED <<threadVars, finishing, arrived, answered>>

\* The answer has been sent.
Sent ==
  /\ \E c \in finishing : finishing' = finishing \ {c} /\ cq' = cq \cup {c}
  /\ answered' = answered + 1
  /\ UNCHANGED <<threadVars, requested, arrived, matched>>

-----------------------------------------------------------------------------
Step(t) ==
  \/ New(t) \/ Create(t) \/ Request(t) \/ TakeEvent(t)
  \/ Proceed(t) \/ SetFinish(t) \/ Finish(t) \/ Delete(t)

Next == (\E t \in Threads : Step(t)) \/ CallArrives \/ Match \/ Sent

Spec == Init /\ [][Next]_vars

\* The threads run, and the runtime completes what it was asked for.
FairSpec ==
  Spec /\ (\A t \in Threads : WF_vars(Step(t))) /\ WF_vars(Match) /\ WF_vars(Sent)

-----------------------------------------------------------------------------
Places == [requested |-> requested, finishing |-> finishing, cq |-> cq]

\* The threads that are using c, and the places where the runtime has it.
Users(c) ==
  {t \in Threads : this[t] = c \/ spawner[t] = c}
    \cup {p \in DOMAIN Places : c \in Places[p]}

\* An object has one user at a time: the thread that is in its Proceed, or the
\* runtime that has its address as a tag, in one place.  What is in use has not
\* been deleted, although its events may be taken by another thread before the
\* call that has caused them returns; what is not in use has been, so that no
\* object is left behind.
OneUser ==
  /\ TypeOK
  /\ \A c \in CallDatas :
       Cardinality(Users(c)) = IF status[c] = "free" THEN 0 ELSE 1

\* Every call is answered.
EveryCallAnswered ==
  \A n \in 1..MaxCalls : (arrived >= n) ~> (answered >= n)
=============================================================================
