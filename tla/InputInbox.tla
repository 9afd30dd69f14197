----------------------------- MODULE InputInbox -----------------------------
(***************************************************************************)
(* The two input queues of a session.                                      *)
(*                                                                         *)
(* InputInbox (core/session_input.py) keeps the queue in the events of the *)
(* session.  A handle decides on the state of its last reload, appends and *)
(* reloads; between these steps others append.  The endpoints make a new   *)
(* handle for each request, a worker keeps its own.  A reload reads the    *)
(* first InboxReadLimit events of the session, of whatever type: those of  *)
(* other types do not touch the projection but use the limit up.           *)
(*                                                                         *)
(* SessionInput and SessionRunner (core/session_v2.py) keep two lists in   *)
(* memory, the steering inputs and the others; the run loop takes all of   *)
(* the first, then one of the second.                                      *)
(***************************************************************************)
EXTENDS Integers, Sequences, SequencesExt, FiniteSetsExt, Lists

CONSTANTS
  Workers,       \* handles that dequeue and mark
  Clients,       \* requests of the endpoints that cancel or clear
  InboxReadLimit,   \* the default limit of EventStore.read()
  MaxInputs,     \* bound of the model: the n-th input admitted or queued is n
  MaxEvents      \* bound of the model: length of the event log

ASSUME InputInboxAssumption ==
  /\ InboxReadLimit \in Nat \ {0} /\ MaxInputs \in Nat /\ MaxEvents \in Nat
  /\ Workers \cap Clients = {}

VARIABLES
  inbox,       \* the events of the session
  view,        \* [handle -> the pending inputs of its last reload]
  inboxAt,     \* [handle -> step of its call, the input it is about, and the
               \*            place in the log of the event it appended]
  handed,      \* the inputs dequeue() returned, in that order, each with the
               \* place of its event
  steers, queue, batch,   \* SessionInput, and the steers taken by the loop
  steering, admitted,     \* the inputs admitted as steers; the number admitted
  done,                   \* those handed to the handlers
  overtaken,              \* queued inputs handled while the oldest steer waits
  runnerAt, running

inboxVars  == <<inbox, view, inboxAt, handed>>
runnerVars == <<steers, queue, batch, steering, admitted, done, overtaken, runnerAt, running>>
inputVars  == <<inboxVars, runnerVars>>

Inputs  == 1..MaxInputs
Handles == Workers \cup Clients
Idle    == [at |-> "idle", input |-> 0, place |-> 0]

Event(type, i) == [type |-> type, input |-> i]

\* read() with its default limit.
InboxRead(events) ==
  IF Len(events) <= InboxReadLimit THEN events ELSE SubSeq(events, 1, InboxReadLimit)

\* project(): an input is pending until an event takes it out.
Takes(e, i) == e.type = "cleared" \/ (e.type \in {"dequeued", "cancelled"} /\ e.input = i)

Queued(events) == {k \in DOMAIN events : events[k].type = "queued"}

Waiting(events) ==
  {k \in Queued(events) : \A l \in DOMAIN events : l > k => ~Takes(events[l], events[k].input)}

Pending(events) ==
  LET es == ItemsAt(events, Waiting(events)) IN [k \in DOMAIN es |-> es[k].input]

\* project(): the slot of the input in process.
Processing(events) ==
  LET slots == {k \in DOMAIN events : events[k].type \in {"dequeued", "processed"}} IN
  IF slots # {} /\ events[Max(slots)].type = "dequeued" THEN events[Max(slots)].input ELSE 0

InputInit ==
  /\ inbox = <<>> /\ view = [h \in Handles |-> <<>>] /\ inboxAt = [h \in Handles |-> Idle]
  /\ handed = <<>>
  /\ steers = <<>> /\ queue = <<>> /\ batch = <<>> /\ steering = {} /\ admitted = 0
  /\ done = <<>> /\ overtaken = 0
  /\ runnerAt = "off" /\ running = FALSE

InputTypeOK ==
  /\ \A k \in DOMAIN inbox :
       inbox[k] \in [type : {"queued", "dequeued", "processed", "cancelled", "cleared", "other"},
                     input : Inputs \cup {0}]
  /\ \A h \in Handles :
       /\ Range(view[h]) \subseteq Inputs
       /\ inboxAt[h].at \in {"idle", "loaded", "dequeued", "processed", "cancelled", "cleared",
                             "reload", "reloadHand"}
       /\ inboxAt[h].input \in Inputs \cup {0} /\ inboxAt[h].place \in {0} \cup DOMAIN inbox
  /\ Range(handed) \subseteq [input : Inputs, place : DOMAIN inbox]
  /\ Range(steers \o queue \o batch \o done) \subseteq Inputs /\ admitted \in Inputs \cup {0}
  /\ steering \subseteq Inputs /\ overtaken \in Nat
  /\ runnerAt \in {"off", "steers", "batch", "item", "pause"} /\ running \in BOOLEAN
-----------------------------------------------------------------------------
(***************************************************************************)
(* The inbox.                                                              *)
(***************************************************************************)
Stand(h, at, i, n) == inboxAt' = [inboxAt EXCEPT ![h] = [at |-> at, input |-> i, place |-> n]]

Goto(h, at, i) == Stand(h, at, i, 0)

Log(type, i) == Len(inbox) < MaxEvents /\ inbox' = Append(inbox, Event(type, i))

\* enqueue() of a request; its own handle is dropped afterwards.
Enqueue ==
  LET n == Cardinality(Queued(inbox)) + 1 IN
  /\ n \in Inputs /\ Log("queued", n)
  /\ UNCHANGED <<view, inboxAt, handed, runnerVars>>

\* Any other event of the session.
OtherEvent == Log("other", 0) /\ UNCHANGED <<view, inboxAt, handed, runnerVars>>

\* What a worker that returns from dequeue() has been given.
Hand(h) ==
  handed' = IF inboxAt[h].at # "reloadHand" THEN handed
            ELSE Append(handed, [input |-> inboxAt[h].input, place |-> inboxAt[h].place])

\* Mutant of Reload: dequeue() returns without it.
ReloadBefore(h) ==
  /\ \/ inboxAt[h].at = "idle" /\ Goto(h, IF h \in Clients THEN "loaded" ELSE "idle", inboxAt[h].input)
     \/ inboxAt[h].at = "reload" /\ Goto(h, "idle", 0)
     \/ inboxAt[h].at = "reloadHand" /\ Goto(h, "idle", inboxAt[h].input)
  /\ Hand(h)
  /\ view' = [view EXCEPT ![h] = IF inboxAt[h].at = "reloadHand" THEN @ ELSE Pending(InboxRead(inbox))]
  /\ UNCHANGED <<inbox, runnerVars>>

\* reload(): on its own (a new handle of an endpoint, a worker that looks for
\* work) or at the end of a call.
Reload(h) ==
  /\ \/ inboxAt[h].at = "idle" /\ Goto(h, IF h \in Clients THEN "loaded" ELSE "idle", inboxAt[h].input)
     \/ inboxAt[h].at = "reload" /\ Goto(h, "idle", 0)
     \/ inboxAt[h].at = "reloadHand" /\ Goto(h, "idle", inboxAt[h].input)
  /\ Hand(h)
  /\ view' = [view EXCEPT ![h] = Pending(InboxRead(inbox))]
  /\ UNCHANGED <<inbox, runnerVars>>

\* dequeue() decides; with an empty view it returns None.
Dequeue(w) ==
  /\ inboxAt[w] = Idle /\ view[w] # <<>>
  /\ Goto(w, "dequeued", Head(view[w]))
  /\ UNCHANGED <<inbox, view, handed, runnerVars>>

\* mark_processed() of the input in hand.
MarkProcessed(w) ==
  /\ inboxAt[w].at = "idle" /\ inboxAt[w].input # 0
  /\ Goto(w, "processed", inboxAt[w].input)
  /\ UNCHANGED <<inbox, view, handed, runnerVars>>

\* cancel() and clear() of an endpoint decide; they return at once when the view
\* does not have the input, or nothing.
Withdraw(c) ==
  /\ inboxAt[c].at = "loaded"
  /\ \/ \E i \in Inputs : IF i \in Range(view[c]) THEN Goto(c, "cancelled", i) ELSE Goto(c, "idle", 0)
     \/ IF view[c] # <<>> THEN Goto(c, "cleared", 0) ELSE Goto(c, "idle", 0)
  /\ UNCHANGED <<inbox, view, handed, runnerVars>>

\* The append of a call.
AppendInput(h) ==
  LET at == inboxAt[h].at  i == inboxAt[h].input IN
  /\ at \in {"dequeued", "processed", "cancelled", "cleared"}
  /\ Log(at, i)
  /\ Stand(h, IF at = "dequeued" THEN "reloadHand" ELSE "reload", i, Len(inbox) + 1)
  /\ UNCHANGED <<view, handed, runnerVars>>

\* The append fails, or the call is cancelled in it or in the reload behind it.
\* An input whose "dequeued" is in the log by then is in nobody's hand.
AppendInputFails(h) ==
  /\ inboxAt[h].at \notin {"idle", "loaded"}
  /\ Goto(h, "idle", IF inboxAt[h].at = "processed" THEN inboxAt[h].input ELSE 0)
  /\ UNCHANGED <<inbox, view, handed, runnerVars>>
-----------------------------------------------------------------------------
(***************************************************************************)
(* SessionInput and the loop of SessionRunner.run().  A handler's error is *)
(* printed, and the loop goes on.                                          *)
(***************************************************************************)
AdmitInput(n) ==
  /\ n = admitted + 1 /\ admitted' = n
  /\ \/ steers' = Append(steers, n) /\ steering' = steering \cup {n} /\ UNCHANGED queue
     \/ queue' = Append(queue, n) /\ UNCHANGED <<steers, steering>>
  /\ UNCHANGED <<inboxVars, batch, done, overtaken, runnerAt, running>>

StartRunner ==
  /\ runnerAt = "off"
  /\ runnerAt' = "steers" /\ running' = TRUE
  /\ UNCHANGED <<inboxVars, steers, queue, batch, steering, admitted, done, overtaken>>

PromoteSteers ==
  /\ runnerAt = "steers"
  /\ batch' = steers /\ steers' = <<>> /\ overtaken' = 0
  /\ runnerAt' = "batch"
  /\ UNCHANGED <<inboxVars, queue, steering, admitted, done, running>>

ProcessSteer ==
  /\ runnerAt = "batch" /\ batch # <<>>
  /\ batch' = Tail(batch) /\ done' = Append(done, Head(batch))
  /\ UNCHANGED <<inboxVars, steers, queue, steering, admitted, overtaken, runnerAt, running>>

\* promote_next_queued(), and the handlers of the input it returns.
PromoteQueued ==
  /\ runnerAt = "batch" /\ batch = <<>>
  /\ IF queue = <<>>
       THEN runnerAt' = "pause" /\ UNCHANGED <<queue, done, overtaken>>
       ELSE /\ queue' = Tail(queue) /\ done' = Append(done, Head(queue))
            /\ overtaken' = IF steers = <<>> THEN 0 ELSE overtaken + 1
            /\ runnerAt' = "item"
  /\ UNCHANGED <<inboxVars, steers, batch, steering, admitted, running>>

\* The handlers are through, or the pause is; stop() has an effect only here.
NextTurn ==
  /\ runnerAt \in {"item", "pause"}
  /\ runnerAt' = IF running THEN "steers" ELSE "off"
  /\ UNCHANGED <<inboxVars, steers, queue, batch, steering, admitted, done, overtaken, running>>

StopRunner ==
  /\ running /\ running' = FALSE
  /\ UNCHANGED <<inboxVars, steers, queue, batch, steering, admitted, done, overtaken, runnerAt>>

\* The task of the loop is cancelled: the steers it has taken are lost.
CancelRunner ==
  /\ runnerAt # "off"
  /\ runnerAt' = "off" /\ batch' = <<>>
  /\ UNCHANGED <<inboxVars, steers, queue, steering, admitted, done, overtaken, running>>
-----------------------------------------------------------------------------
InputNext ==
  \/ Enqueue \/ OtherEvent
  \/ \E w \in Workers : Dequeue(w) \/ MarkProcessed(w)
  \/ \E c \in Clients : Withdraw(c)
  \/ \E h \in Handles : Reload(h) \/ AppendInput(h) \/ AppendInputFails(h)

RunnerNext ==
  \/ \E n \in Inputs : AdmitInput(n)
  \/ StartRunner \/ PromoteSteers \/ ProcessSteer \/ PromoteQueued \/ NextTurn
  \/ StopRunner \/ CancelRunner

InputSpec == InputInit /\ [][InputNext \/ RunnerNext]_inputVars
-----------------------------------------------------------------------------
(***************************************************************************)
(* One worker and any number of endpoints: the worker gets the inputs in   *)
(* the order they were queued, and none a second time, except that an      *)
(* input is given again when the event that took it out lies beyond what a *)
(* reload reads.  While the worker works on an input the log shows just    *)
(* that one as being processed.                                            *)
(***************************************************************************)
InboxInStep ==
  /\ \A j, k \in DOMAIN handed :
       j < k => \/ handed[j].input < handed[k].input
                \/ handed[j].input = handed[k].input /\ handed[j].place > InboxReadLimit
  /\ \A w \in Workers :
       inboxAt[w].at = "idle" /\ inboxAt[w].input # 0 => Processing(inbox) = inboxAt[w].input

(***************************************************************************)
(* Steers and queued inputs are each handled once and in their order, and  *)
(* a steer that waits is overtaken by one queued input at most.            *)
(***************************************************************************)
SteersFirst ==
  /\ \A j, k \in DOMAIN done :
       j < k /\ (done[j] \in steering <=> done[k] \in steering) => done[j] < done[k]
  /\ overtaken <= 1
=============================================================================
