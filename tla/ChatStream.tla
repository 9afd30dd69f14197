----------------------------- MODULE ChatStream -----------------------------
(***************************************************************************)
(* The streams of POST /chat/stream for one session (server/app.py), and   *)
(* the coordinator they run their agents through.  A stream is a generator *)
(* that takes the lock of the session, starts an agent task, passes its    *)
(* events on and polls until the task is done:                             *)
(*                                                                         *)
(*   new -> setup -> [evict] -> begin -> launch -> loop -> title -> settle *)
(*      \-> rejected                         \-> hangup         -> answer  *)
(*                                                                         *)
(* All of them leave through the finally block (Finish), which gives the   *)
(* lock back first and then may have to wait for the agent:                *)
(*                                                                         *)
(*   -> [reap -> stopping] -> over                                         *)
(*                                                                         *)
(* The agent task of a stream calls run() of SessionCoordinator, so its    *)
(* steps there are the actions of that module.  A cancellation that was    *)
(* requested (kill) is delivered at the next step of the task; how many    *)
(* steps of others come first is left open.                                *)
(***************************************************************************)
EXTENDS FifoPermits, TLC

CONSTANTS
  Streams,    \* requests, and the agent task each of them may start
  Stops,      \* calls of POST /sessions/{id}/stop
  Session,
  NoSession,
  NoStream,
  Faults

\* The client goes away; an await of a stream raises, is cancelled or is
\* closed; five seconds pass; a processor raises.
FaultKinds == {"leave", "raise", "slow", "fail"}

ASSUME ChatAssumption ==
  /\ Session # NoSession
  /\ NoStream \notin Streams
  /\ Faults \subseteq FaultKinds

VARIABLES
  stream,     \* where each stream is suspended
  agent,      \* where the agent task of each stream is
  kill,       \* the task was asked to cancel and has not noticed yet
  verdict,    \* how the task ended
  awaited,    \* the task an evicting stream waits for
  reply,      \* how the request of the client was answered
  locked,     \* the EventLock of the session
  registered, \* _active_agent_tasks
  queueOf,    \* _session_queues
  runStatus,  \* the latest session.run_* event
  stopped,    \* the stop calls that were made
  state, completed, cancelEvt, lock, slots, pc, session, ended, outcome,
  tasks       \* the coordinator

coordVars  == <<state, completed, cancelEvt, lock, slots, pc, session, ended,
                outcome, tasks>>
agentVars  == <<agent, kill, verdict>>
serverVars == <<locked, registered, queueOf>>
vars == <<stream, agentVars, awaited, reply, serverVars, runStatus, stopped,
          coordVars>>

Coord == INSTANCE SessionCoordinator
           WITH Callers <- Streams, Sessions <- {Session}, MaxConcurrent <- 0,
                Faults <- {"cancel"} \cup (Faults \cap {"fail"})

StreamPlaces == {"new", "rejected", "setup", "evict", "begin", "launch", "loop",
                 "hangup", "title", "settle", "answer", "reap", "stopping", "over"}
AgentPlaces  == {"none", "start", "coord", "end", "over"}
Verdicts     == {"none", "result", "empty", "error", "cancelled"}

TypeOK ==
  /\ stream     \in [Streams -> StreamPlaces]
  /\ agent      \in [Streams -> AgentPlaces]
  /\ kill       \in [Streams -> BOOLEAN]
  /\ verdict    \in [Streams -> Verdicts]
  /\ awaited    \in [Streams -> Streams \cup {NoStream}]
  /\ reply      \in [Streams -> {"none", "rejected", "complete", "empty", "error"}]
  /\ locked     \in BOOLEAN
  /\ registered \in Streams \cup {NoStream}
  /\ queueOf    \in Streams \cup {NoStream}
  /\ runStatus  \in {"idle", "running", "stopped", "errored", "completed"}
  /\ stopped    \subseteq Stops
  /\ Coord!TypeOK

Init ==
  /\ stream     = [s \in Streams |-> "new"]
  /\ agent      = [s \in Streams |-> "none"]
  /\ kill       = [s \in Streams |-> FALSE]
  /\ verdict    = [s \in Streams |-> "none"]
  /\ awaited    = [s \in Streams |-> NoStream]
  /\ reply      = [s \in Streams |-> "none"]
  /\ locked     = FALSE
  /\ registered = NoStream
  /\ queueOf    = NoStream
  /\ runStatus  = "idle"
  /\ stopped    = {}
  /\ Coord!Init
-----------------------------------------------------------------------------
(***************************************************************************)
(* The agent task: stepped_agent_runner.                                   *)
(***************************************************************************)
Running(a) == agent[a] \in {"start", "coord", "end"}

\* task.cancel(): nothing happens to a task that is done.
Cancel(a) == kill' = [kill EXCEPT ![a] = Running(a)]

\* The task goes on in the coordinator, or emits step.ended once run() is over.
LeavesCoordinator(a) ==
  agent' = [agent EXCEPT ![a] = IF pc'[a] = "done" THEN "end" ELSE "coord"]

\* step.started is out: the task calls run().
AgentEnters(a) ==
  /\ agent[a] = "start"
  /\ ~kill[a]
  /\ Coord!Call(a, Session)
  /\ LeavesCoordinator(a)
  /\ UNCHANGED <<stream, kill, verdict, awaited, reply, serverVars, runStatus, stopped>>

AgentGoesOn(a) ==
  /\ agent[a] = "coord"
  /\ ~kill[a]
  /\ Coord!CallerStep(a)
  /\ LeavesCoordinator(a)
  /\ UNCHANGED <<stream, kill, verdict, awaited, reply, serverVars, runStatus, stopped>>

\* What the task ends with after outcome how of run(): the empty string is
\* also what a caller that was not served gets.
VerdictOf(how) ==
  CASE how = "result"               -> {"result", "empty"}
    [] how \in {"empty", "skipped"} -> {"empty"}
    [] OTHER                        -> {how}

\* step.ended is out and the task is done.
AgentEnds(a) ==
  /\ agent[a] = "end"
  /\ ~kill[a]
  /\ agent' = [agent EXCEPT ![a] = "over"]
  /\ \E v \in VerdictOf(outcome[a]) : verdict' = [verdict EXCEPT ![a] = v]
  /\ UNCHANGED <<stream, kill, awaited, reply, serverVars, runStatus, stopped, coordVars>>

\* CancelledError reaches the task before or after run(), outside any try
\* block that would keep it.
AgentCutShort(a) ==
  /\ agent[a] \in {"start", "end"}
  /\ kill[a]
  /\ kill' = [kill EXCEPT ![a] = FALSE]
  /\ agent' = [agent EXCEPT ![a] = "over"]
  /\ verdict' = [verdict EXCEPT ![a] = "cancelled"]
  /\ UNCHANGED <<stream, awaited, reply, serverVars, runStatus, stopped, coordVars>>

\* CancelledError reaches the task inside run(), whose finally block may keep
\* it there for a re-drain.
AgentCancelled(a) ==
  /\ agent[a] = "coord"
  /\ kill[a]
  /\ kill' = [kill EXCEPT ![a] = FALSE]
  /\ Coord!CancelWaiting(a) \/ Coord!CancelFirst(a) \/ Coord!CancelSecond(a)
  /\ LeavesCoordinator(a)
  /\ UNCHANGED <<stream, verdict, awaited, reply, serverVars, runStatus, stopped>>

\* A processor task of the coordinator ends.
ProcessorEnds(a, n) ==
  /\ Coord!TaskEnds(a, n)
  /\ UNCHANGED <<stream, agentVars, awaited, reply, serverVars, runStatus, stopped>>
-----------------------------------------------------------------------------
(***************************************************************************)
(* The stream: chat_stream and its _raw_event_stream.                      *)
(***************************************************************************)
Goto(s, place) == stream' = [stream EXCEPT ![s] = place]

\* Mutant of Finish: the registration stays until the agent is done.
FinishLater(s) ==
  /\ locked' = FALSE
  /\ registered' = IF registered = s /\ ~Running(s) THEN NoStream ELSE registered
  /\ queueOf' = IF agent[s] = "none" THEN queueOf ELSE NoStream
  /\ Goto(s, IF Running(s) THEN "reap" ELSE "over")
  /\ Cancel(s)

\* The finally block up to its first await: the lock is given back whoever
\* holds it, the registration goes only if it is the stream's own, the queue
\* goes in any case, and an agent that still runs is cancelled.
Finish(s) ==
  /\ locked' = FALSE
  /\ registered' = IF registered = s THEN NoStream ELSE registered
  /\ queueOf' = IF agent[s] = "none" THEN queueOf ELSE NoStream
  /\ Goto(s, IF Running(s) THEN "reap" ELSE "over")
  /\ Cancel(s)

\* Mutant of TryLock: the lock is tested and not taken.
TestLock(s) ==
  /\ stream[s] = "new"
  /\ ~locked
  /\ Goto(s, "setup")
  /\ UNCHANGED <<reply, serverVars, agentVars, awaited, runStatus, stopped, coordVars>>

\* try_lock(): the session is loaded, the first stream gets the lock.
TryLock(s) ==
  /\ stream[s] = "new"
  /\ \/ /\ ~locked
        /\ locked' = TRUE
        /\ Goto(s, "setup")
        /\ UNCHANGED reply
     \/ /\ locked
        /\ Goto(s, "rejected")
        /\ reply' = [reply EXCEPT ![s] = "rejected"]
        /\ UNCHANGED locked
  /\ UNCHANGED <<agentVars, awaited, registered, queueOf, runStatus, stopped, coordVars>>

\* The return of a rejected stream goes through the finally block as well.
Rejected(s) ==
  /\ stream[s] = "rejected"
  /\ Finish(s)
  /\ UNCHANGED <<agent, verdict, awaited, reply, runStatus, stopped, coordVars>>

\* The prompt is admitted and the agent built: a task that is registered for
\* the session and not done is cancelled and waited for.
LookForOld(s) ==
  /\ stream[s] = "setup"
  /\ \/ \E old \in Streams :
          /\ registered = old
          /\ Running(old)
          /\ Cancel(old)
          /\ awaited' = [awaited EXCEPT ![s] = old]
          /\ Goto(s, "evict")
     \/ /\ \A old \in Streams : registered = old => ~Running(old)
        /\ Goto(s, "begin")
        /\ UNCHANGED <<kill, awaited>>
  /\ UNCHANGED <<agent, verdict, reply, serverVars, runStatus, stopped, coordVars>>

\* wait_for(old_task) is over: an error of the task becomes the stream's.
Evicted(s) ==
  /\ stream[s] = "evict"
  /\ ~Running(awaited[s])
  /\ \/ /\ verdict[awaited[s]] # "error"
        /\ Goto(s, "begin")
        /\ UNCHANGED <<kill, reply, serverVars>>
     \/ /\ verdict[awaited[s]] = "error"
        /\ reply' = [reply EXCEPT ![s] = "error"]
        /\ Finish(s)
  /\ UNCHANGED <<agent, verdict, awaited, runStatus, stopped, coordVars>>

\* mark_run_start().
MarkStart(s) ==
  /\ stream[s] = "begin"
  /\ Goto(s, "launch")
  /\ runStatus' = "running"
  /\ UNCHANGED <<agentVars, awaited, reply, serverVars, stopped, coordVars>>

\* Mutant of Launch: only the queue is registered.
LaunchUnregistered(s) ==
  /\ stream[s] = "launch"
  /\ Goto(s, "loop")
  /\ agent' = [agent EXCEPT ![s] = "start"]
  /\ queueOf' = s
  /\ UNCHANGED <<kill, verdict, awaited, reply, locked, registered, runStatus, stopped,
                 coordVars>>

\* create_task() and the registration of the task and of the queue.
Launch(s) ==
  /\ stream[s] = "launch"
  /\ Goto(s, "loop")
  /\ agent' = [agent EXCEPT ![s] = "start"]
  /\ registered' = s
  /\ queueOf' = s
  /\ UNCHANGED <<kill, verdict, awaited, reply, locked, runStatus, stopped, coordVars>>

\* is_disconnected(): the client is gone, the agent is cancelled.
SeesDisconnect(s) ==
  /\ "leave" \in Faults
  /\ stream[s] = "loop"
  /\ Goto(s, "hangup")
  /\ Cancel(s)
  /\ UNCHANGED <<agent, verdict, awaited, reply, serverVars, runStatus, stopped, coordVars>>

\* Mutant of HangUp: without mark_run_stop().
HangUpUnmarked(s) ==
  /\ stream[s] = "hangup"
  /\ Finish(s)
  /\ UNCHANGED <<agent, verdict, awaited, reply, runStatus, stopped, coordVars>>

\* mark_run_stop(), then out of the loop.
HangUp(s) ==
  /\ stream[s] = "hangup"
  /\ runStatus' = "stopped"
  /\ Finish(s)
  /\ UNCHANGED <<agent, verdict, awaited, reply, stopped, coordVars>>

\* Mutant of SeesDone: a task that raised is not taken for done.
SeesSuccess(s) ==
  /\ stream[s] = "loop"
  /\ ~Running(s)
  /\ verdict[s] # "error"
  /\ Goto(s, "title")
  /\ UNCHANGED <<agentVars, awaited, reply, serverVars, runStatus, stopped, coordVars>>

\* agent_task.done(): the queue is drained and a title made.
SeesDone(s) ==
  /\ stream[s] = "loop"
  /\ ~Running(s)
  /\ Goto(s, "title")
  /\ UNCHANGED <<agentVars, awaited, reply, serverVars, runStatus, stopped, coordVars>>

\* agent_task.result(): the CancelledError of a cancelled task is no
\* Exception, it leaves the loop through the finally block.
TakeResult(s) ==
  /\ stream[s] = "title"
  /\ \/ /\ verdict[s] # "cancelled"
        /\ Goto(s, "settle")
        /\ UNCHANGED <<kill, serverVars>>
     \/ /\ verdict[s] = "cancelled"
        /\ Finish(s)
  /\ UNCHANGED <<agent, verdict, awaited, reply, runStatus, stopped, coordVars>>

\* Mutant of Settle: the client gets the verdict itself.
SettleRaw(s) ==
  /\ stream[s] = "settle"
  /\ Goto(s, "answer")
  /\ runStatus' = IF verdict[s] = "error" THEN "errored" ELSE "completed"
  /\ reply' = [reply EXCEPT ![s] = verdict[s]]
  /\ UNCHANGED <<agentVars, awaited, serverVars, stopped, coordVars>>

\* mark_run_complete() or mark_run_error(), then the last event.
Settle(s) ==
  /\ stream[s] = "settle"
  /\ Goto(s, "answer")
  /\ runStatus' = IF verdict[s] = "error" THEN "errored" ELSE "completed"
  /\ reply' = [reply EXCEPT ![s] = IF verdict[s] = "result" THEN "complete" ELSE verdict[s]]
  /\ UNCHANGED <<agentVars, awaited, serverVars, stopped, coordVars>>

\* mark_run_complete() or what follows it raises: the handler marks an error.
SettleFails(s) ==
  /\ "raise" \in Faults
  /\ stream[s] = "settle"
  /\ verdict[s] # "error"
  /\ Goto(s, "answer")
  /\ runStatus' = "errored"
  /\ reply' = [reply EXCEPT ![s] = "error"]
  /\ UNCHANGED <<agentVars, awaited, serverVars, stopped, coordVars>>

Answered(s) ==
  /\ stream[s] = "answer"
  /\ Finish(s)
  /\ UNCHANGED <<agent, verdict, awaited, reply, runStatus, stopped, coordVars>>

\* The finally block has waited for the agent; an error of the agent is raised
\* and skips mark_run_stop().
Reaped(s) ==
  /\ stream[s] = "reap"
  /\ ~Running(s)
  /\ Goto(s, IF verdict[s] = "error" THEN "over" ELSE "stopping")
  /\ UNCHANGED <<agentVars, awaited, reply, serverVars, runStatus, stopped, coordVars>>

MarkStopped(s) ==
  /\ stream[s] = "stopping"
  /\ Goto(s, "over")
  /\ runStatus' = "stopped"
  /\ UNCHANGED <<agentVars, awaited, reply, serverVars, stopped, coordVars>>

\* wait_for() gives up after five seconds: it cancels the task once more and
\* goes on waiting for it.
WaitTimesOut(s) ==
  /\ "slow" \in Faults
  /\ \/ stream[s] = "evict" /\ Cancel(awaited[s])
     \/ stream[s] = "reap"  /\ Cancel(s)
  /\ UNCHANGED <<stream, agent, verdict, awaited, reply, serverVars, runStatus, stopped,
                 coordVars>>

\* An await of the stream raises, or its generator is cancelled or closed; the
\* event that tells the client of the former is not kept in reply.
Torn(s) ==
  /\ "raise" \in Faults
  /\ stream[s] \in {"setup", "begin", "launch", "loop", "hangup", "title", "settle", "answer"}
  /\ Finish(s)
  /\ UNCHANGED <<agent, verdict, awaited, reply, runStatus, stopped, coordVars>>

\* The same while it waits for the old task: `except CancelledError` takes the
\* cancellation for the old task's and the stream goes on.
TornWhileEvicting(s) ==
  /\ "raise" \in Faults
  /\ stream[s] = "evict"
  /\ Cancel(awaited[s])
  /\ Goto(s, "begin")
  /\ UNCHANGED <<agent, verdict, awaited, reply, serverVars, runStatus, stopped, coordVars>>

\* The same in the finally block: the rest of it is skipped.
TornInFinally(s) ==
  /\ "raise" \in Faults
  /\ stream[s] \in {"reap", "stopping"}
  /\ Goto(s, "over")
  /\ Cancel(s)
  /\ UNCHANGED <<agent, verdict, awaited, reply, serverVars, runStatus, stopped, coordVars>>

\* POST /sessions/{id}/stop looks the task and the queue up in AppState, where
\* nothing ever puts them, and only marks the run.
Stop(p) ==
  /\ p \notin stopped
  /\ stopped' = stopped \cup {p}
  /\ runStatus' = "stopped"
  /\ UNCHANGED <<stream, agentVars, awaited, reply, serverVars, coordVars>>

StreamStep(s) ==
  \/ TryLock(s) \/ Rejected(s) \/ LookForOld(s) \/ Evicted(s)
  \/ MarkStart(s) \/ Launch(s) \/ HangUp(s) \/ SeesDone(s) \/ TakeResult(s)
  \/ Settle(s) \/ Answered(s) \/ Reaped(s) \/ MarkStopped(s)

StreamFault(s) ==
  \/ SeesDisconnect(s) \/ SettleFails(s) \/ WaitTimesOut(s)
  \/ Torn(s) \/ TornWhileEvicting(s) \/ TornInFinally(s)

AgentStep(a) ==
  AgentEnters(a) \/ AgentGoesOn(a) \/ AgentEnds(a) \/ AgentCutShort(a) \/ AgentCancelled(a)

Next ==
  \/ \E s \in Streams : StreamStep(s) \/ StreamFault(s) \/ AgentStep(s)
  \/ \E a \in Streams, n \in {1, 2} : ProcessorEnds(a, n)
  \/ \E p \in Stops : Stop(p)

Spec == Init /\ [][Next]_vars

\* The event loop runs every task that is ready, the store and the model
\* answer, and processors terminate.
Fairness ==
  /\ \A s \in Streams : WF_vars(StreamStep(s)) /\ WF_vars(AgentStep(s))
  /\ \A a \in Streams, n \in {1, 2} : WF_vars(ProcessorEnds(a, n))

FairSpec == Spec /\ Fairness
-----------------------------------------------------------------------------
(***************************************************************************)
(* What the streams promise.                                               *)
(***************************************************************************)

\* The stream has the lock and has not reached its finally block.
Processing(s) ==
  stream[s] \in {"setup", "evict", "begin", "launch", "loop", "hangup", "title",
                 "settle", "answer"}

\* "Per-session concurrency lock: reject if already processing": two streams
\* of a session are never past the lock at the same time.
OneAtATime == \A s, t \in Streams : Processing(s) /\ Processing(t) => s = t

\* The lock does its work until it first rejects a stream: it is held exactly
\* by the one stream that processes, whatever was cancelled, torn or timed out.
ExclusiveUntilRejected ==
  (\A s \in Streams : reply[s] # "rejected") =>
    OneAtATime /\ (locked <=> \E s \in Streams : Processing(s))

\* The registered task and the registered queue are those of a stream that is
\* still there to pass its events on, even when streams overlap.
NoStaleRegistration ==
  \A s \in Streams : registered = s \/ queueOf = s => agent[s] # "none" /\ Processing(s)

\* Until a stream is rejected an agent that runs is the one a later stream
\* would find and cancel, or has been cancelled already.
NoForgottenAgent ==
  (\A s \in Streams : reply[s] # "rejected") =>
    \A s \in Streams : Running(s) /\ stream[s] \in {"loop", "hangup"} => registered = s

\* Every request is answered or dropped, and its generator ends.
EveryStreamEnds == \A s \in Streams : stream[s] # "new" ~> stream[s] = "over"

\* When all streams are over the session does not claim to be running.
StatusSettled ==
  (\A s \in Streams : stream[s] \in {"new", "over"}) => runStatus # "running"

\* Streams are interchangeable.
Symmetry == Permutations(Streams)
=============================================================================
