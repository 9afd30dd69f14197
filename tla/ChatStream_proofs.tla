------------------------- MODULE ChatStream_proofs -------------------------
(***************************************************************************)
(* What is proved of ChatStream: for any number of streams and stops and   *)
(* every set of faults, the last part for those without "raise".           *)
(***************************************************************************)
EXTENDS ChatStream, TLAPS

-----------------------------------------------------------------------------
(***************************************************************************)
(* The streams use the coordinator as its specification allows.            *)
(***************************************************************************)

LEMMA CoordinatorStep ==
  ASSUME Next
  PROVE  Coord!Next \/ UNCHANGED coordVars
<1>1. ASSUME NEW s \in Streams, StreamStep(s)
      PROVE  UNCHANGED coordVars
  BY <1>1 DEF StreamStep, TryLock, Rejected, LookForOld, Evicted, MarkStart, Launch,
              HangUp, SeesDone, TakeResult, Settle, Answered, Reaped, MarkStopped
<1>2. ASSUME NEW s \in Streams, StreamFault(s)
      PROVE  UNCHANGED coordVars
  BY <1>2 DEF StreamFault, SeesDisconnect, SettleFails, WaitTimesOut, Torn, TornWhileEvicting,
              TornInFinally
<1>3. ASSUME NEW a \in Streams, AgentStep(a)
      PROVE  Coord!Next \/ UNCHANGED coordVars
  <2>1. CASE AgentEnters(a)
    BY <2>1 DEF AgentEnters, Coord!Next
  <2>2. CASE AgentGoesOn(a)
    BY <2>2 DEF AgentGoesOn, Coord!Next
  <2>3. CASE AgentCancelled(a)
    BY <2>3 DEF AgentCancelled, Coord!Next
  <2>4. CASE AgentEnds(a) \/ AgentCutShort(a)
    BY <2>4 DEF AgentEnds, AgentCutShort
  <2> QED
    BY <1>3, <2>1, <2>2, <2>3, <2>4 DEF AgentStep
<1>4. ASSUME NEW a \in Streams, NEW n \in {1, 2}, ProcessorEnds(a, n)
      PROVE  Coord!Next
  BY <1>4 DEF ProcessorEnds, Coord!Next
<1>5. ASSUME NEW p \in Stops, Stop(p)
      PROVE  UNCHANGED coordVars
  BY <1>5 DEF Stop
<1> QED
  BY <1>1, <1>2, <1>3, <1>4, <1>5 DEF Next

\* The theorems about the coordinator, for the agents of this module.
CP == INSTANCE SessionCoordinator_proofs
        WITH Callers <- Streams, Sessions <- {Session}, MaxConcurrent <- 0,
             Faults <- {"cancel"} \cup (Faults \cap {"fail"})

LEMMA CoordinatorConstants == CP!CoordinatorAssumption
BY ChatAssumption DEF ChatAssumption, FaultKinds, CP!CoordinatorAssumption, CP!FaultKinds

\* Every action conjoins a step of the coordinator or leaves its variables
\* alone, so what is proved of the coordinator holds in the server.
LEMMA ServerRefinesProved == Spec => CP!Spec
<1>1. Init => CP!Init
  BY DEF Init, Coord!Init, CP!Init, Coord!AllFree, CP!AllFree
<1>2. Coord!Next <=> CP!Next
  <2>card. ASSUME NEW S PROVE Coord!Cardinality(S) = CP!Cardinality(S)
    BY DEF Coord!Cardinality, CP!Cardinality
  <2>join. ASSUME NEW pool, NEW c PROVE Coord!Join(pool, c, 1) = CP!Join(pool, c, 1)
    BY <2>card DEF Coord!Join, Coord!CanEnter, CP!Join, CP!CanEnter
  <2>leave. ASSUME NEW pool, NEW c PROVE Coord!Leave(pool, c) = CP!Leave(pool, c)
    BY DEF Coord!Leave, Coord!Release, Coord!StepOut, CP!Leave, CP!Release, CP!StepOut
  <2>can. ASSUME NEW pool PROVE Coord!CanEnter(pool, 1) <=> CP!CanEnter(pool, 1)
    BY <2>card DEF Coord!CanEnter, CP!CanEnter
  <2>enter. ASSUME NEW c, NEW s, NEW n, NEW pool PROVE Coord!EnterLoop(c, s, n, pool) <=> CP!EnterLoop(c, s, n, pool)
    BY <2>join, <2>can DEF Coord!EnterLoop, Coord!Loop, Coord!Turn, Coord!InLoop,
           CP!EnterLoop, CP!Loop, CP!Turn, CP!InLoop
  <2>admit. ASSUME NEW c, NEW s, NEW pool PROVE Coord!Admit(c, s, pool) <=> CP!Admit(c, s, pool)
    BY <2>enter, <2>join, <2>leave, <2>can DEF Coord!Admit, Coord!Return, CP!Admit,
           CP!Return
  <2>finally. ASSUME NEW c, NEW how PROVE Coord!Finally(c, how) <=> CP!Finally(c, how)
    BY <2>enter, <2>leave DEF Coord!Finally, Coord!InLoop, CP!Finally, CP!InLoop
  <2>1. ASSUME NEW c \in Streams, NEW s \in {Session} PROVE Coord!Call(c, s) <=> CP!Call(c, s)
    BY <2>admit DEF Coord!Call, Coord!Limited, CP!Call, CP!Limited
  <2>2. ASSUME NEW c \in Streams PROVE Coord!SlotGranted(c) <=> CP!SlotGranted(c)
    BY <2>admit DEF Coord!SlotGranted, CP!SlotGranted
  <2>3. ASSUME NEW c \in Streams PROVE Coord!QueuedGranted(c) <=> CP!QueuedGranted(c)
    BY DEF Coord!QueuedGranted, Coord!Release, Coord!Leave, Coord!StepOut, Coord!Return,
           CP!QueuedGranted, CP!Release, CP!Leave, CP!StepOut, CP!Return
  <2>4. ASSUME NEW c \in Streams, NEW n \in {1, 2} PROVE Coord!TurnGranted(c, n) <=> CP!TurnGranted(c, n)
    BY DEF Coord!TurnGranted, Coord!Turn, Coord!Loop, CP!TurnGranted, CP!Turn, CP!Loop
  <2>5. ASSUME NEW c \in Streams PROVE Coord!FirstLoopEnds(c) <=> CP!FirstLoopEnds(c)
    BY <2>finally DEF Coord!FirstLoopEnds, Coord!LoopResult, Coord!Outcomes,
           CP!FirstLoopEnds, CP!LoopResult, CP!Outcomes
  <2>6. ASSUME NEW c \in Streams PROVE Coord!SecondLoopEnds(c) <=> CP!SecondLoopEnds(c)
    BY DEF Coord!SecondLoopEnds, Coord!LoopResult, Coord!Release, CP!SecondLoopEnds,
           CP!LoopResult, CP!Release
  <2>7. ASSUME NEW c \in Streams, NEW n \in {1, 2} PROVE Coord!TaskEnds(c, n) <=> CP!TaskEnds(c, n)
    BY DEF Coord!TaskEnds, Coord!Loop, CP!TaskEnds, CP!Loop
  <2>8. ASSUME NEW s \in {Session} PROVE Coord!Interrupt(s) <=> CP!Interrupt(s)
    BY DEF Coord!Interrupt, CP!Interrupt
  <2>9. ASSUME NEW s \in {Session} PROVE Coord!Wake(s) <=> CP!Wake(s)
    BY DEF Coord!Wake, CP!Wake
  <2>10. ASSUME NEW c \in Streams PROVE Coord!CancelWaiting(c) <=> CP!CancelWaiting(c)
    BY DEF Coord!CancelWaiting, Coord!Leave, Coord!Release, Coord!StepOut, Coord!Return,
           CP!CancelWaiting, CP!Leave, CP!Release, CP!StepOut, CP!Return
  <2>11. ASSUME NEW c \in Streams PROVE Coord!CancelFirst(c) <=> CP!CancelFirst(c)
    BY <2>finally DEF Coord!CancelFirst, CP!CancelFirst
  <2>12. ASSUME NEW c \in Streams PROVE Coord!CancelSecond(c) <=> CP!CancelSecond(c)
    BY DEF Coord!CancelSecond, Coord!Leave, Coord!Release, Coord!StepOut, Coord!InLoop,
           Coord!Return, CP!CancelSecond, CP!Leave, CP!Release, CP!StepOut, CP!InLoop,
           CP!Return
  <2> QED
    BY <2>1, <2>2, <2>3, <2>4, <2>5, <2>6, <2>7, <2>8, <2>9, <2>10, <2>11, <2>12
       DEF Coord!Next, Coord!CallerStep, CP!Next, CP!CallerStep
<1>3. [Next]_vars => [CP!Next]_(CP!vars)
  BY CoordinatorStep, <1>2 DEF vars, coordVars, CP!vars
<1> QED
  BY <1>1, <1>3, PTL DEF Spec, CP!Spec

\* The coordinator's variables keep their types in the server.
LEMMA CoordinatorTyped == Spec => []Coord!TypeOK
<1>1. CP!TypeOK => Coord!TypeOK
  BY DEF CP!TypeOK, Coord!TypeOK, CP!States, Coord!States, CP!Places, Coord!Places,
         CP!Outcomes, Coord!Outcomes, CP!PermitPool, Coord!PermitPool
<1>2. CP!Spec => []CP!TypeOK
  BY CP!TypeCorrect, CoordinatorConstants
<1> QED
  BY <1>1, <1>2, ServerRefinesProved, PTL

\* Two agents of a session are never inside _process_loop at the same time:
\* the coordinator excludes them even when the lock of the streams does not.
THEOREM AgentsExclude == Spec => []Coord!LoopExclusive
<1>1. CP!LoopExclusive => Coord!LoopExclusive
  BY DEF CP!LoopExclusive, Coord!LoopExclusive, CP!InLoop, Coord!InLoop
<1>2. CP!Spec => []CP!LoopExclusive
  BY CP!LoopsExclude, CoordinatorConstants
<1> QED
  BY <1>1, <1>2, ServerRefinesProved, PTL
-----------------------------------------------------------------------------
(***************************************************************************)
(* The types of the server's own variables.                                *)
(***************************************************************************)
ServerTyped ==
  /\ stream     \in [Streams -> StreamPlaces]
  /\ agent      \in [Streams -> AgentPlaces]
  /\ kill       \in [Streams -> BOOLEAN]
  /\ verdict    \in [Streams -> Verdicts]
  /\ awaited    \in [Streams -> Streams \cup {NoStream}]
  /\ reply      \in [Streams -> {"none", "rejected", "complete", "empty", "error"}]
  /\ locked     \in BOOLEAN
  /\ registered \in Streams \cup {NoStream}
  /\ queueOf    \in Streams \cup {NoStream}
  /\ runStatus  \in {"idle", "running", "stopped", "errored", "completed"}
  /\ stopped    \subseteq Stops

\* A stream before its launch has no agent that runs, nor has one that takes
\* the result; one that settles was not cancelled.
Settling ==
  \A s \in Streams :
    /\ stream[s] \in {"new", "rejected", "title", "settle"} => ~Running(s)
    /\ stream[s] = "settle" => verdict[s] # "cancelled"

LEMMA CancelTyped ==
  ASSUME ServerTyped, NEW a, Cancel(a)
  PROVE  kill' \in [Streams -> BOOLEAN]
<1>1. Running(a) \in BOOLEAN
  BY DEF Running
<1> QED
  BY <1>1 DEF ServerTyped, Cancel

LEMMA FinishTyped ==
  ASSUME ServerTyped, NEW s \in Streams, Finish(s)
  PROVE  /\ stream' \in [Streams -> StreamPlaces]
         /\ kill' \in [Streams -> BOOLEAN]
         /\ locked' \in BOOLEAN
         /\ registered' \in Streams \cup {NoStream}
         /\ queueOf' \in Streams \cup {NoStream}
<1>1. stream' \in [Streams -> StreamPlaces]
  BY DEF ServerTyped, Finish, Goto, StreamPlaces
<1>2. kill' \in [Streams -> BOOLEAN]
  BY CancelTyped DEF Finish
<1> QED
  BY <1>1, <1>2 DEF ServerTyped, Finish

LEMMA StreamStepTyped ==
  ASSUME ServerTyped, Settling, NEW s \in Streams, StreamStep(s)
  PROVE  ServerTyped'
<1>1. CASE TryLock(s)
  <2>1. stream' \in [Streams -> StreamPlaces]
    BY <1>1 DEF ServerTyped, TryLock, Goto, StreamPlaces
  <2> QED
    BY <1>1, <2>1 DEF ServerTyped, TryLock, agentVars
<1>2. CASE Rejected(s) \/ HangUp(s) \/ Answered(s)
  BY <1>2, FinishTyped DEF ServerTyped, Rejected, HangUp, Answered
<1>3. CASE LookForOld(s)
  <2>1. ASSUME NEW old \in Streams, Cancel(old), Goto(s, "evict"),
               awaited' = [awaited EXCEPT ![s] = old]
        PROVE  /\ kill' \in [Streams -> BOOLEAN]
               /\ awaited' \in [Streams -> Streams \cup {NoStream}]
               /\ stream' \in [Streams -> StreamPlaces]
    BY <2>1, CancelTyped DEF ServerTyped, Goto, StreamPlaces
  <2>2. ASSUME Goto(s, "begin")
        PROVE  stream' \in [Streams -> StreamPlaces]
    BY <2>2 DEF ServerTyped, Goto, StreamPlaces
  <2> QED
    BY <1>3, <2>1, <2>2 DEF ServerTyped, LookForOld, serverVars
<1>4. CASE Evicted(s)
  <2>1. CASE verdict[awaited[s]] # "error"
    BY <1>4, <2>1 DEF ServerTyped, Evicted, Goto, StreamPlaces, serverVars
  <2>2. CASE verdict[awaited[s]] = "error"
    BY <1>4, <2>2, FinishTyped DEF ServerTyped, Evicted
  <2> QED
    BY <2>1, <2>2
<1>5. CASE MarkStart(s) \/ SeesDone(s) \/ Reaped(s) \/ MarkStopped(s)
  BY <1>5 DEF ServerTyped, MarkStart, SeesDone, Reaped, MarkStopped, Goto, StreamPlaces,
              agentVars, serverVars
<1>6. CASE Launch(s)
  BY <1>6 DEF ServerTyped, Launch, Goto, StreamPlaces, AgentPlaces
<1>7. CASE TakeResult(s)
  <2>1. CASE verdict[s] # "cancelled"
    BY <1>7, <2>1 DEF ServerTyped, TakeResult, Goto, StreamPlaces, serverVars
  <2>2. CASE verdict[s] = "cancelled"
    BY <1>7, <2>2, FinishTyped DEF ServerTyped, TakeResult
  <2> QED
    BY <2>1, <2>2
<1>8. CASE Settle(s)
  <2>1. verdict[s] \in {"none", "result", "empty", "error"}
    BY <1>8 DEF ServerTyped, Settling, Settle, Verdicts
  <2> QED
    BY <1>8, <2>1 DEF ServerTyped, Settle, Goto, StreamPlaces, agentVars, serverVars
<1> QED
  BY <1>1, <1>2, <1>3, <1>4, <1>5, <1>6, <1>7, <1>8 DEF StreamStep

LEMMA StreamFaultTyped ==
  ASSUME ServerTyped, NEW s \in Streams, StreamFault(s)
  PROVE  ServerTyped'
<1>1. CASE SeesDisconnect(s) \/ TornWhileEvicting(s) \/ TornInFinally(s)
  <2>1. stream' \in [Streams -> StreamPlaces]
    BY <1>1 DEF ServerTyped, SeesDisconnect, TornWhileEvicting, TornInFinally, Goto, StreamPlaces
  <2>2. kill' \in [Streams -> BOOLEAN]
    BY <1>1, CancelTyped DEF SeesDisconnect, TornWhileEvicting, TornInFinally
  <2> QED
    BY <1>1, <2>1, <2>2
       DEF ServerTyped, SeesDisconnect, TornWhileEvicting, TornInFinally, serverVars
<1>2. CASE WaitTimesOut(s)
  <2>1. kill' \in [Streams -> BOOLEAN]
    BY <1>2, CancelTyped DEF WaitTimesOut
  <2> QED
    BY <1>2, <2>1 DEF ServerTyped, WaitTimesOut, serverVars
<1>3. CASE Torn(s)
  BY <1>3, FinishTyped DEF ServerTyped, Torn
<1>4. CASE SettleFails(s)
  BY <1>4 DEF ServerTyped, SettleFails, Goto, StreamPlaces, agentVars, serverVars
<1> QED
  BY <1>1, <1>2, <1>3, <1>4 DEF StreamFault

LEMMA AgentStepTyped ==
  ASSUME ServerTyped, Coord!TypeOK, NEW a \in Streams, AgentStep(a)
  PROVE  ServerTyped'
<1>1. CASE AgentEnters(a) \/ AgentGoesOn(a)
  BY <1>1 DEF ServerTyped, AgentEnters, AgentGoesOn, LeavesCoordinator, AgentPlaces, serverVars
<1>2. CASE AgentEnds(a)
  <2>1. outcome[a] \in Coord!Outcomes
    BY DEF Coord!TypeOK
  <2>2. VerdictOf(outcome[a]) \subseteq Verdicts
    BY <2>1 DEF VerdictOf, Verdicts, Coord!Outcomes
  <2> QED
    BY <1>2, <2>2 DEF ServerTyped, AgentEnds, AgentPlaces, serverVars
<1>3. CASE AgentCutShort(a)
  BY <1>3 DEF ServerTyped, AgentCutShort, AgentPlaces, Verdicts, serverVars
<1>4. CASE AgentCancelled(a)
  BY <1>4 DEF ServerTyped, AgentCancelled, LeavesCoordinator, AgentPlaces, serverVars
<1> QED
  BY <1>1, <1>2, <1>3, <1>4 DEF AgentStep

LEMMA ServerStepTyped ==
  ASSUME ServerTyped, Settling, Coord!TypeOK, Next
  PROVE  ServerTyped'
<1>1. ASSUME NEW a \in Streams, NEW n \in {1, 2}, ProcessorEnds(a, n)
      PROVE  ServerTyped'
  BY <1>1 DEF ServerTyped, ProcessorEnds, agentVars, serverVars
<1>2. ASSUME NEW p \in Stops, Stop(p)
      PROVE  ServerTyped'
  BY <1>2 DEF ServerTyped, Stop, agentVars, serverVars
<1> QED
  BY <1>1, <1>2, StreamStepTyped, StreamFaultTyped, AgentStepTyped DEF Next

LEMMA SettlingStep ==
  ASSUME ServerTyped, Settling, Next
  PROVE  Settling'
<1>1. ASSUME NEW s \in Streams, StreamStep(s)
      PROVE  Settling'
  <2>1. CASE Launch(s)
    BY <1>1, <2>1 DEF ServerTyped, Settling, Launch, Goto, Running
  <2>2. CASE SeesDone(s)
    BY <1>1, <2>2 DEF ServerTyped, Settling, SeesDone, Goto, Running, agentVars
  <2>3. CASE TakeResult(s)
    BY <1>1, <2>3 DEF ServerTyped, Settling, TakeResult, Finish, Goto, Running
  <2>4. CASE ~(Launch(s) \/ SeesDone(s) \/ TakeResult(s))
    BY <1>1, <2>4
       DEF StreamStep, ServerTyped, Settling, TryLock, Rejected, LookForOld, Evicted,
           MarkStart, HangUp, Settle, Answered, Reaped, MarkStopped, Finish, Goto, Running,
           agentVars
  <2> QED
    BY <2>1, <2>2, <2>3, <2>4
<1>2. ASSUME NEW s \in Streams, StreamFault(s)
      PROVE  Settling'
  BY <1>2 DEF StreamFault, ServerTyped, Settling, SeesDisconnect, SettleFails, WaitTimesOut, Torn,
              agentVars,
              TornWhileEvicting, TornInFinally, Finish, Goto, Running
<1>3. ASSUME NEW a \in Streams, AgentStep(a)
      PROVE  Settling'
  <2>1. Running(a)
    BY <1>3 DEF AgentStep, AgentEnters, AgentGoesOn, AgentEnds, AgentCutShort,
                AgentCancelled, Running
  <2>2. /\ UNCHANGED stream
        /\ \A s \in Streams \ {a} : agent'[s] = agent[s] /\ verdict'[s] = verdict[s]
    BY <1>3 DEF AgentStep, ServerTyped, AgentEnters, AgentGoesOn, AgentEnds, AgentCutShort,
                AgentCancelled, LeavesCoordinator
  <2> QED
    BY <2>1, <2>2 DEF Settling, Running
<1>4. ASSUME NEW a \in Streams, NEW n \in {1, 2}, ProcessorEnds(a, n)
      PROVE  Settling'
  BY <1>4 DEF ProcessorEnds, Settling, Running, agentVars
<1>5. ASSUME NEW p \in Stops, Stop(p)
      PROVE  Settling'
  BY <1>5 DEF Stop, Settling, Running, agentVars
<1> QED
  BY <1>1, <1>2, <1>3, <1>4, <1>5 DEF Next

LEMMA ServerInvariance == Spec => [](ServerTyped /\ Settling)
<1>1. Init => ServerTyped /\ Settling
  <2> SUFFICES ASSUME Init PROVE ServerTyped /\ Settling
    OBVIOUS
  <2>1. ServerTyped
    BY DEF Init, ServerTyped, StreamPlaces, AgentPlaces, Verdicts
  <2>2. Settling
    BY DEF Init, Settling, Running
  <2> QED
    BY <2>1, <2>2
<1>2. UNCHANGED vars /\ ServerTyped /\ Settling => (ServerTyped /\ Settling)'
  BY DEF vars, agentVars, serverVars, ServerTyped, Settling, Running
<1>3. (ServerTyped /\ Settling) /\ Coord!TypeOK /\ [Next]_vars => (ServerTyped /\ Settling)'
  BY <1>2, ServerStepTyped, SettlingStep
<1> QED
  BY <1>1, <1>3, CoordinatorTyped, PTL DEF Spec

\* Every variable of the server and of its coordinator keeps its type.
THEOREM ChatTypeCorrect == Spec => []TypeOK
<1>1. ServerTyped /\ Coord!TypeOK => TypeOK
  BY DEF ServerTyped, TypeOK
<1> QED
  BY <1>1, ServerInvariance, CoordinatorTyped, PTL
-----------------------------------------------------------------------------
(***************************************************************************)
(* The lock.                                                               *)
(***************************************************************************)

\* A rejected stream has said so, and does nothing more than return.
RejectedReturns ==
  \A s \in Streams :
    /\ stream[s] = "rejected" => reply[s] = "rejected"
    /\ reply[s] = "rejected" => stream[s] \in {"rejected", "over"}

LockInv == RejectedReturns /\ ExclusiveUntilRejected

\* A stream moves without passing the lock in either direction.
LEMMA MoveKeepsLock ==
  ASSUME ServerTyped, LockInv, NEW s \in Streams, NEW place, Goto(s, place),
         place \in StreamPlaces \ {"new", "rejected"},
         stream[s] \notin {"new", "rejected", "over"},
         place \in {"over", "reap", "stopping"} <=> ~Processing(s),
         reply'[s] # "rejected",
         \A t \in Streams \ {s} : reply'[t] = reply[t],
         UNCHANGED locked
  PROVE  LockInv'
<1>1. \A t \in Streams : stream'[t] = IF t = s THEN place ELSE stream[t]
  BY DEF ServerTyped, Goto
<1>2. \A t \in Streams : Processing(t)' <=> Processing(t)
  BY <1>1 DEF Processing, StreamPlaces
<1>3. reply[s] # "rejected"
  BY DEF LockInv, RejectedReturns
<1>4. RejectedReturns'
  BY <1>1, <1>3 DEF LockInv, RejectedReturns
<1>5. ExclusiveUntilRejected'
  BY <1>2, <1>3 DEF LockInv, ExclusiveUntilRejected, OneAtATime
<1> QED
  BY <1>4, <1>5 DEF LockInv

\* The finally block of the one stream that processes frees the lock; after
\* that of a rejected stream nothing is claimed.
LEMMA FinishKeepsLock ==
  ASSUME ServerTyped, Settling, LockInv, NEW s \in Streams, Finish(s),
         Processing(s) \/ stream[s] = "rejected",
         \A t \in Streams : reply'[t] = "rejected" <=> reply[t] = "rejected"
  PROVE  LockInv'
<1>1. \A t \in Streams : t # s => stream'[t] = stream[t]
  BY DEF ServerTyped, Finish, Goto
<1>2. stream'[s] \in {"reap", "over"} /\ (stream[s] = "rejected" => stream'[s] = "over")
  BY DEF ServerTyped, Settling, Finish, Goto
<1>3. RejectedReturns'
  <2>1. CASE Processing(s)
    <3>1. reply[s] # "rejected"
      BY <2>1 DEF LockInv, RejectedReturns, Processing
    <3> QED
      BY <1>1, <1>2, <3>1 DEF LockInv, RejectedReturns
  <2>2. CASE stream[s] = "rejected"
    <3> QED
      BY <1>1, <1>2, <2>2 DEF LockInv, RejectedReturns
  <2> QED
    BY <2>1, <2>2
<1>4. ExclusiveUntilRejected'
  <2> SUFFICES ASSUME \A t \in Streams : reply[t] # "rejected"
               PROVE  OneAtATime' /\ (locked' <=> \E t \in Streams : Processing(t)')
    BY DEF ExclusiveUntilRejected
  <2>1. Processing(s)
    BY DEF LockInv, RejectedReturns
  <2>2. \A t \in Streams : ~Processing(t)'
    BY <1>1, <1>2, <2>1 DEF LockInv, ExclusiveUntilRejected, OneAtATime, Processing
  <2> QED
    BY <2>2 DEF OneAtATime, Finish
<1> QED
  BY <1>3, <1>4 DEF LockInv

LEMMA QuietKeepsLock ==
  ASSUME LockInv, UNCHANGED <<stream, reply, locked>>
  PROVE  LockInv'
BY DEF LockInv, RejectedReturns, ExclusiveUntilRejected, OneAtATime, Processing

LEMMA TryLockKeepsLock ==
  ASSUME ServerTyped, LockInv, NEW s \in Streams, TryLock(s)
  PROVE  LockInv'
<1>1. \A t \in Streams : t # s => stream'[t] = stream[t] /\ reply'[t] = reply[t]
  BY DEF ServerTyped, TryLock, Goto
<1>2. stream[s] = "new" /\ reply[s] # "rejected"
  BY DEF TryLock, LockInv, RejectedReturns
<1>3. CASE ~locked
  <2>1. stream'[s] = "setup" /\ reply'[s] = reply[s] /\ locked' = TRUE
    BY <1>3 DEF ServerTyped, TryLock, Goto
  <2>2. RejectedReturns'
    BY <1>1, <1>2, <2>1 DEF LockInv, RejectedReturns
  <2>3. ExclusiveUntilRejected'
    BY <1>1, <1>2, <1>3, <2>1 DEF LockInv, ExclusiveUntilRejected, OneAtATime, Processing
  <2> QED
    BY <2>2, <2>3 DEF LockInv
<1>4. CASE locked
  <2>1. stream'[s] = "rejected" /\ reply'[s] = "rejected"
    BY <1>4 DEF ServerTyped, TryLock, Goto
  <2>2. RejectedReturns'
    BY <1>1, <2>1 DEF LockInv, RejectedReturns
  <2>3. ExclusiveUntilRejected'
    BY <2>1 DEF ExclusiveUntilRejected
  <2> QED
    BY <2>2, <2>3 DEF LockInv
<1> QED
  BY <1>3, <1>4

LEMMA StreamStepKeepsLock ==
  ASSUME ServerTyped, Settling, LockInv, NEW s \in Streams, StreamStep(s)
  PROVE  LockInv'
<1>1. stream[s] # "rejected" => (stream[s] # "new" /\ stream[s] # "over" => reply[s] # "rejected")
  BY DEF LockInv, RejectedReturns
<1>2. CASE Rejected(s) \/ HangUp(s) \/ Answered(s)
  BY <1>2, FinishKeepsLock DEF Rejected, HangUp, Answered, Processing
<1>3. CASE LookForOld(s)
  <2>1. PICK place \in {"evict", "begin"} : Goto(s, place)
    BY <1>3 DEF LookForOld
  <2> QED
    BY <1>1, <1>3, <2>1, MoveKeepsLock DEF LookForOld, Processing, StreamPlaces, serverVars
<1>4. CASE Evicted(s)
  <2>1. CASE verdict[awaited[s]] # "error"
    BY <1>1, <1>4, <2>1, MoveKeepsLock DEF Evicted, Processing, StreamPlaces, serverVars
  <2>2. CASE verdict[awaited[s]] = "error"
    <3>1. stream[s] = "evict" /\ Finish(s) /\ reply' = [reply EXCEPT ![s] = "error"]
      BY <1>4, <2>2 DEF Evicted
    <3>2. \A t \in Streams : reply'[t] = "rejected" <=> reply[t] = "rejected"
      BY <1>1, <3>1 DEF ServerTyped
    <3> QED
      BY <3>1, <3>2, FinishKeepsLock DEF Processing
  <2> QED
    BY <2>1, <2>2
<1>5. CASE MarkStart(s)
  BY <1>1, <1>5, MoveKeepsLock DEF MarkStart, Processing, StreamPlaces, serverVars
<1>6. CASE Launch(s)
  BY <1>1, <1>6, MoveKeepsLock DEF Launch, Processing, StreamPlaces
<1>7. CASE SeesDone(s)
  BY <1>1, <1>7, MoveKeepsLock DEF SeesDone, Processing, StreamPlaces, serverVars
<1>8. CASE TakeResult(s)
  <2>1. CASE verdict[s] # "cancelled"
    BY <1>1, <1>8, <2>1, MoveKeepsLock DEF TakeResult, Processing, StreamPlaces, serverVars
  <2>2. CASE verdict[s] = "cancelled"
    BY <1>8, <2>2, FinishKeepsLock DEF TakeResult, Processing
  <2> QED
    BY <2>1, <2>2
<1>9. CASE Settle(s)
  <2>1. reply'[s] # "rejected" /\ \A t \in Streams \ {s} : reply'[t] = reply[t]
    BY <1>9 DEF ServerTyped, Settle, Verdicts
  <2> QED
    BY <1>9, <2>1, MoveKeepsLock DEF Settle, Processing, StreamPlaces, serverVars
<1>10. CASE Reaped(s)
  <2>1. PICK place \in {"over", "stopping"} : Goto(s, place)
    BY <1>10 DEF Reaped
  <2> QED
    BY <1>1, <1>10, <2>1, MoveKeepsLock DEF Reaped, Processing, StreamPlaces, serverVars
<1>11. CASE MarkStopped(s)
  BY <1>1, <1>11, MoveKeepsLock DEF MarkStopped, Processing, StreamPlaces, serverVars
<1> QED
  BY <1>2, <1>3, <1>4, <1>5, <1>6, <1>7, <1>8, <1>9, <1>10, <1>11, TryLockKeepsLock
     DEF StreamStep

LEMMA LockStep ==
  ASSUME ServerTyped, Settling, LockInv, Next
  PROVE  LockInv'
<1>1. ASSUME NEW s \in Streams, StreamFault(s)
      PROVE  LockInv'
  <2>1. stream[s] \notin {"new", "rejected", "over"} => reply[s] # "rejected"
    BY DEF LockInv, RejectedReturns
  <2>2. CASE SeesDisconnect(s)
    BY <2>1, <2>2, MoveKeepsLock DEF SeesDisconnect, Processing, StreamPlaces, serverVars
  <2>3. CASE WaitTimesOut(s)
    BY <2>3, QuietKeepsLock DEF WaitTimesOut, serverVars
  <2>4. CASE Torn(s)
    <3>1. \A t \in Streams : reply'[t] = "rejected" <=> reply[t] = "rejected"
      BY <2>1, <2>4 DEF ServerTyped, Torn
    <3> QED
      BY <2>4, <3>1, FinishKeepsLock DEF Torn, Processing
  <2>5. CASE TornWhileEvicting(s)
    BY <2>1, <2>5, MoveKeepsLock DEF TornWhileEvicting, Processing, StreamPlaces, serverVars
  <2>6. CASE TornInFinally(s)
    BY <2>1, <2>6, MoveKeepsLock DEF TornInFinally, Processing, StreamPlaces, serverVars
  <2>7. CASE SettleFails(s)
    <3>1. reply'[s] # "rejected" /\ \A t \in Streams \ {s} : reply'[t] = reply[t]
      BY <2>7 DEF ServerTyped, SettleFails
    <3> QED
      BY <2>7, <3>1, MoveKeepsLock DEF SettleFails, Processing, StreamPlaces, serverVars
  <2> QED
    BY <1>1, <2>2, <2>3, <2>4, <2>5, <2>6, <2>7 DEF StreamFault
<1>2. ASSUME NEW a \in Streams, AgentStep(a)
      PROVE  LockInv'
  BY <1>2, QuietKeepsLock
     DEF AgentStep, AgentEnters, AgentGoesOn, AgentEnds, AgentCutShort, AgentCancelled, serverVars
<1>3. ASSUME NEW a \in Streams, NEW n \in {1, 2}, ProcessorEnds(a, n)
      PROVE  LockInv'
  BY <1>3, QuietKeepsLock DEF ProcessorEnds, serverVars
<1>4. ASSUME NEW p \in Stops, Stop(p)
      PROVE  LockInv'
  BY <1>4, QuietKeepsLock DEF Stop, serverVars
<1> QED
  BY <1>1, <1>2, <1>3, <1>4, StreamStepKeepsLock DEF Next

\* Until a stream is rejected, the lock of the session is held by exactly the
\* one stream that processes, whatever is cancelled, torn or timed out.
THEOREM LockExcludes == Spec => []ExclusiveUntilRejected
<1>1. Init => LockInv
  BY DEF Init, LockInv, RejectedReturns, ExclusiveUntilRejected, OneAtATime, Processing
<1>2. UNCHANGED vars /\ LockInv => LockInv'
  BY QuietKeepsLock DEF vars, serverVars
<1>3. LockInv /\ (ServerTyped /\ Settling) /\ [Next]_vars => LockInv'
  BY <1>2, LockStep
<1>4. LockInv => ExclusiveUntilRejected
  BY DEF LockInv
<1> QED
  BY <1>1, <1>3, <1>4, ServerInvariance, PTL DEF Spec
-----------------------------------------------------------------------------
(***************************************************************************)
(* The registries.                                                         *)
(***************************************************************************)

\* Nothing that is registered stops processing and no agent goes away.
LEMMA MoveKeepsRegistration ==
  ASSUME NoStaleRegistration, UNCHANGED <<registered, queueOf>>,
         \A s \in Streams : agent[s] # "none" => agent'[s] # "none",
         \A s \in Streams : Processing(s) => Processing(s)'
  PROVE  NoStaleRegistration'
BY DEF NoStaleRegistration

LEMMA FinishKeepsRegistration ==
  ASSUME ServerTyped, NoStaleRegistration, NEW s \in Streams, Finish(s), UNCHANGED agent
  PROVE  NoStaleRegistration'
<1>1. registered' # s /\ queueOf' # s
  BY ChatAssumption DEF Finish, NoStaleRegistration, ServerTyped, ChatAssumption
<1>2. \A t \in Streams : (registered' = t => registered = t) /\ (queueOf' = t => queueOf = t)
  BY ChatAssumption DEF Finish, ServerTyped, ChatAssumption
<1>3. \A t \in Streams : t # s => stream'[t] = stream[t]
  BY DEF ServerTyped, Finish, Goto
<1> QED
  BY <1>1, <1>2, <1>3 DEF NoStaleRegistration, Processing

LEMMA RegistrationStep ==
  ASSUME ServerTyped, NoStaleRegistration, Next
  PROVE  NoStaleRegistration'
<1>1. ASSUME NEW s \in Streams, NEW place, Goto(s, place), UNCHANGED <<agent, registered, queueOf>>,
             Processing(s) => place \in StreamPlaces \ {"new", "rejected", "reap", "stopping", "over"}
      PROVE  NoStaleRegistration'
  BY <1>1, MoveKeepsRegistration DEF ServerTyped, Goto, Processing, StreamPlaces
<1>2. ASSUME NEW s \in Streams, StreamStep(s)
      PROVE  NoStaleRegistration'
  <2>1. CASE Finish(s) /\ UNCHANGED agent
    BY <2>1, FinishKeepsRegistration
  <2>2. CASE Launch(s)
    BY <2>2 DEF Launch, Goto, ServerTyped, NoStaleRegistration, Processing
  <2>3. CASE TryLock(s) \/ LookForOld(s) \/ MarkStart(s) \/ SeesDone(s) \/ Settle(s)
             \/ Reaped(s) \/ MarkStopped(s)
    BY <2>3, <1>1 DEF TryLock, LookForOld, MarkStart, SeesDone, Settle, Reaped, MarkStopped,
                      Processing, StreamPlaces, agentVars, serverVars
  <2>4. CASE (Evicted(s) \/ TakeResult(s)) /\ ~Finish(s)
    BY <2>4, <1>1 DEF Evicted, TakeResult, Processing, StreamPlaces, serverVars
  <2> QED
    BY <1>2, <2>1, <2>2, <2>3, <2>4
       DEF StreamStep, Rejected, HangUp, Answered, Evicted, TakeResult
<1>3. ASSUME NEW s \in Streams, StreamFault(s)
      PROVE  NoStaleRegistration'
  <2>1. CASE Torn(s)
    BY <2>1, FinishKeepsRegistration DEF Torn
  <2>2. CASE WaitTimesOut(s)
    BY <2>2, MoveKeepsRegistration DEF WaitTimesOut, Processing, serverVars
  <2>3. CASE SeesDisconnect(s) \/ SettleFails(s) \/ TornWhileEvicting(s) \/ TornInFinally(s)
    BY <2>3, <1>1 DEF SeesDisconnect, SettleFails, TornWhileEvicting, TornInFinally,
                      Processing, StreamPlaces, agentVars, serverVars
  <2> QED
    BY <1>3, <2>1, <2>2, <2>3 DEF StreamFault
<1>4. ASSUME NEW a \in Streams, AgentStep(a)
      PROVE  NoStaleRegistration'
  <2>1. UNCHANGED <<stream, registered, queueOf>>
    BY <1>4 DEF AgentStep, AgentEnters, AgentGoesOn, AgentEnds, AgentCutShort, AgentCancelled,
                serverVars
  <2>2. \E next \in {"end", "coord", "over"} : agent' = [agent EXCEPT ![a] = next]
    BY <1>4 DEF AgentStep, AgentEnters, AgentGoesOn, AgentEnds, AgentCutShort, AgentCancelled,
                LeavesCoordinator
  <2> QED
    BY <2>1, <2>2, MoveKeepsRegistration DEF ServerTyped, Processing
<1>5. ASSUME NEW a \in Streams, NEW n \in {1, 2}, ProcessorEnds(a, n)
      PROVE  NoStaleRegistration'
  BY <1>5, MoveKeepsRegistration DEF ProcessorEnds, Processing, agentVars, serverVars
<1>6. ASSUME NEW p \in Stops, Stop(p)
      PROVE  NoStaleRegistration'
  BY <1>6, MoveKeepsRegistration DEF Stop, Processing, agentVars, serverVars
<1> QED
  BY <1>2, <1>3, <1>4, <1>5, <1>6 DEF Next

\* The registered task and queue always belong to a stream that still passes
\* its events on, even when streams of the session overlap.
THEOREM RegistrationsLive == Spec => []NoStaleRegistration
<1>1. Init => NoStaleRegistration
  BY ChatAssumption DEF Init, ChatAssumption, NoStaleRegistration
<1>2. UNCHANGED vars /\ NoStaleRegistration => NoStaleRegistration'
  BY DEF vars, agentVars, serverVars, NoStaleRegistration, Processing
<1>3. NoStaleRegistration /\ ServerTyped /\ [Next]_vars => NoStaleRegistration'
  BY <1>2, RegistrationStep
<1> QED
  BY <1>1, <1>3, ServerInvariance, PTL DEF Spec

\* Until a stream is rejected, the stream that passes events on is the
\* registered one.
LoopRegistered ==
  (\A s \in Streams : reply[s] # "rejected") =>
    \A s \in Streams :
      stream[s] \in {"loop", "hangup", "title", "settle", "answer"} => registered = s

\* A rejection is never taken back.
LEMMA RejectionStays ==
  ASSUME ServerTyped, LockInv, Next, NEW t \in Streams, reply[t] = "rejected"
  PROVE  reply'[t] = "rejected"
<1>1. stream[t] \in {"rejected", "over"}
  BY DEF LockInv, RejectedReturns
<1>2. ASSUME NEW s \in Streams, StreamStep(s)
      PROVE  reply'[t] = "rejected"
  BY <1>1, <1>2
     DEF ServerTyped, StreamStep, TryLock, Rejected, LookForOld, Evicted, MarkStart, Launch,
         HangUp, SeesDone, TakeResult, Settle, Answered, Reaped, MarkStopped
<1>3. ASSUME NEW s \in Streams, StreamFault(s)
      PROVE  reply'[t] = "rejected"
  BY <1>1, <1>3 DEF ServerTyped, StreamFault, SeesDisconnect, SettleFails, WaitTimesOut, Torn,
                    TornWhileEvicting, TornInFinally
<1>4. ASSUME NEW s \in Streams, AgentStep(s)
      PROVE  reply'[t] = "rejected"
  BY <1>4 DEF AgentStep, AgentEnters, AgentGoesOn, AgentEnds, AgentCutShort, AgentCancelled
<1> QED
  BY <1>2, <1>3, <1>4 DEF Next, ProcessorEnds, Stop

LEMMA LoopRegisteredStep ==
  ASSUME ServerTyped, LockInv, LoopRegistered, Next
  PROVE  LoopRegistered'
<1> SUFFICES ASSUME \A t \in Streams : reply'[t] # "rejected",
                    NEW s \in Streams,
                    stream'[s] \in {"loop", "hangup", "title", "settle", "answer"}
             PROVE  registered' = s
  BY DEF LoopRegistered
<1>1. \A t \in Streams : reply[t] # "rejected"
  BY RejectionStays
<1>2. \A t \in Streams : stream[t] \in {"loop", "hangup", "title", "settle", "answer"}
        => registered = t
  BY <1>1 DEF LoopRegistered
<1>3. \A t \in Streams : Processing(s) /\ Processing(t) => t = s
  BY <1>1 DEF LockInv, ExclusiveUntilRejected, OneAtATime
<1>4. ASSUME NEW r \in Streams, Launch(r)
      PROVE  registered' = s
  BY <1>3, <1>4 DEF ServerTyped, Launch, Goto, Processing
<1>5. ASSUME NEW r \in Streams, Finish(r), Processing(r) \/ stream[r] = "rejected"
      PROVE  registered' = s
  <2>1. stream'[r] \in {"reap", "over"} /\ \A t \in Streams : t # r => stream'[t] = stream[t]
    BY <1>5 DEF ServerTyped, Finish, Goto
  <2>2. s # r /\ registered = s
    BY <1>2, <2>1
  <2> QED
    BY <1>5, <2>2 DEF Finish
<1>6. ASSUME UNCHANGED registered, NEW r \in Streams, NEW place, Goto(r, place),
             place \in {"loop", "hangup", "title", "settle", "answer"}
               => stream[r] \in {"loop", "hangup", "title", "settle", "answer"}
      PROVE  registered' = s
  BY <1>2, <1>6 DEF ServerTyped, Goto
<1>7. ASSUME UNCHANGED <<registered, stream>>
      PROVE  registered' = s
  BY <1>2, <1>7
<1>8. ASSUME NEW r \in Streams, StreamStep(r)
      PROVE  registered' = s
  <2>1. CASE TryLock(r) \/ LookForOld(r) \/ MarkStart(r) \/ SeesDone(r) \/ Settle(r)
             \/ Reaped(r) \/ MarkStopped(r)
    BY <2>1, <1>6 DEF TryLock, LookForOld, MarkStart, SeesDone, Settle, Reaped, MarkStopped,
                      serverVars
  <2>2. CASE Rejected(r) \/ HangUp(r) \/ Answered(r)
    BY <2>2, <1>5 DEF Rejected, HangUp, Answered, Processing
  <2>3. CASE (Evicted(r) \/ TakeResult(r)) /\ Finish(r)
    BY <2>3, <1>5 DEF Evicted, TakeResult, Processing
  <2>4. CASE (Evicted(r) \/ TakeResult(r)) /\ ~Finish(r)
    BY <2>4, <1>6 DEF Evicted, TakeResult, serverVars
  <2> QED
    BY <1>4, <1>8, <2>1, <2>2, <2>3, <2>4 DEF StreamStep
<1>9. ASSUME NEW r \in Streams, StreamFault(r)
      PROVE  registered' = s
  <2>1. CASE Torn(r)
    BY <2>1, <1>5 DEF Torn, Processing
  <2>2. CASE WaitTimesOut(r)
    BY <2>2, <1>7 DEF WaitTimesOut, serverVars
  <2>3. CASE SeesDisconnect(r) \/ SettleFails(r) \/ TornWhileEvicting(r) \/ TornInFinally(r)
    BY <2>3, <1>6 DEF SeesDisconnect, SettleFails, TornWhileEvicting, TornInFinally, serverVars
  <2> QED
    BY <1>9, <2>1, <2>2, <2>3 DEF StreamFault
<1>10. ASSUME NEW r \in Streams, AgentStep(r)
       PROVE  registered' = s
  BY <1>7, <1>10 DEF AgentStep, AgentEnters, AgentGoesOn, AgentEnds, AgentCutShort,
                     AgentCancelled, serverVars
<1> QED
  BY <1>7, <1>8, <1>9, <1>10 DEF Next, ProcessorEnds, Stop, serverVars

\* Until a stream is rejected, an agent that runs is found by whoever looks
\* for the session's task, or its stream is already waiting for its end.
THEOREM AgentsFound == Spec => []NoForgottenAgent
<1>1. Init => LockInv /\ LoopRegistered
  BY DEF Init, LockInv, RejectedReturns, ExclusiveUntilRejected, OneAtATime, Processing,
         LoopRegistered
<1>2. UNCHANGED vars /\ LoopRegistered => LoopRegistered'
  BY DEF vars, serverVars, LoopRegistered
<1>3. UNCHANGED vars /\ LockInv => LockInv'
  BY QuietKeepsLock DEF vars, serverVars
<1>4. (LockInv /\ LoopRegistered) /\ (ServerTyped /\ Settling) /\ [Next]_vars
        => (LockInv /\ LoopRegistered)'
  BY <1>2, <1>3, LockStep, LoopRegisteredStep
<1>5. LoopRegistered => NoForgottenAgent
  BY DEF LoopRegistered, NoForgottenAgent
<1> QED
  BY <1>1, <1>4, <1>5, ServerInvariance, PTL DEF Spec
-----------------------------------------------------------------------------
(***************************************************************************)
(* The status of the session.                                              *)
(***************************************************************************)

\* A stream that was not launched has no agent yet.
Unlaunched ==
  \A s \in Streams :
    stream[s] \in {"new", "rejected", "setup", "evict", "begin", "launch"} =>
      agent[s] = "none" /\ verdict[s] = "none" /\ outcome[s] = "none" /\ ~kill[s]

\* The agent was cancelled, whether it has noticed or not.
Doomed(s) == kill[s] \/ outcome[s] = "cancelled"

\* Whoever cancels the agent of a stream that still polls waits for its end.
DoomedByEvictor ==
  \A s \in Streams :
    stream[s] = "loop" /\ Running(s) /\ Doomed(s) =>
      \E t \in Streams : stream[t] = "evict" /\ awaited[t] = s

\* The stream is going to mark the end of a run, or to start one: it polls and
\* its agent was not cut short, or it evicts an agent that has ended well.
WillMark(s) ==
  \/ stream[s] \in {"begin", "launch", "hangup"}
  \/ stream[s] \in {"loop", "title", "settle"} /\ verdict[s] # "cancelled"
  \/ /\ stream[s] = "evict" /\ awaited[s] \in Streams
     /\ agent[awaited[s]] = "over" /\ verdict[awaited[s]] # "error"

SomeoneMarks == runStatus = "running" => \E s \in Streams : WillMark(s)

StatusInv == Unlaunched /\ DoomedByEvictor /\ SomeoneMarks

\* What a step of a stream that is not torn does to its place and its agent.
StreamMove(s) ==
  /\ \A t \in Streams : t # s =>
       stream'[t] = stream[t] /\ awaited'[t] = awaited[t] /\ agent'[t] = agent[t]
  /\ UNCHANGED <<verdict, outcome>>
  /\ \A t \in Streams :
       \/ kill'[t] = kill[t]
       \/ ~kill'[t]
       \/ Running(t) /\ t = s /\ stream'[s] \in {"hangup", "reap"}
       \/ Running(t) /\ stream'[s] = "evict" /\ awaited'[s] = t
  /\ \/ agent'[s] = agent[s] /\ stream'[s] # "loop"
     \/ stream[s] = "launch" /\ stream'[s] = "loop" /\ agent'[s] = "start" /\ UNCHANGED kill
  /\ stream'[s] \in {"new", "rejected", "setup", "evict", "begin", "launch"} =>
       stream[s] \in {"new", "rejected", "setup", "evict", "begin", "launch"}

\* How it goes on with the mark.
MarkMove(s) ==
  /\ stream[s] = "begin"  => stream'[s] = "launch"
  /\ stream[s] = "launch" => stream'[s] = "loop"
  /\ stream[s] = "loop"   => stream'[s] \in {"hangup", "title"}
  /\ stream[s] = "title"  => stream'[s] = "settle" \/ verdict[s] = "cancelled"
  /\ stream[s] \in {"hangup", "settle"} => runStatus' # "running"
  /\ stream[s] = "evict"  =>
       \/ stream'[s] = "evict" /\ UNCHANGED awaited
       \/ ~Running(awaited[s]) /\ stream'[s] = "begin"
       \/ ~Running(awaited[s]) /\ verdict[awaited[s]] = "error"
  /\ runStatus' = "running" => runStatus = "running" \/ stream'[s] = "launch"

LEMMA FinishMoves ==
  ASSUME ServerTyped, NEW s \in Streams, Finish(s)
  PROVE  /\ stream'[s] = IF Running(s) THEN "reap" ELSE "over"
         /\ \A t \in Streams : t # s => stream'[t] = stream[t] /\ kill'[t] = kill[t]
         /\ kill'[s] = Running(s)
<1>1. /\ stream' = [stream EXCEPT ![s] = IF Running(s) THEN "reap" ELSE "over"]
      /\ kill' = [kill EXCEPT ![s] = Running(s)]
  BY DEF Finish, Goto, Cancel
<1>2. stream \in [Streams -> StreamPlaces] /\ kill \in [Streams -> BOOLEAN]
  BY DEF ServerTyped
<1>3. kill'[s] = Running(s) /\ \A t \in Streams : t # s => kill'[t] = kill[t]
  BY <1>1, <1>2, Zenon
<1> QED
  BY <1>1, <1>2, <1>3

LEMMA StreamMoves ==
  ASSUME ServerTyped, "raise" \notin Faults, NEW s \in Streams, StreamStep(s) \/ StreamFault(s)
  PROVE  StreamMove(s) /\ MarkMove(s)
<1>1. ASSUME UNCHANGED <<agent, verdict, outcome>>, Finish(s), stream[s] \notin {"begin", "launch", "loop"},
             UNCHANGED awaited
      PROVE  StreamMove(s)
  BY <1>1, FinishMoves DEF StreamMove
<1>2. CASE Rejected(s) \/ HangUp(s) \/ Answered(s)
  <2>1. UNCHANGED <<agent, verdict, outcome, awaited>> /\ Finish(s)
    BY <1>2 DEF Rejected, HangUp, Answered, coordVars
  <2>2. stream[s] \in {"rejected", "hangup", "answer"}
    BY <1>2 DEF Rejected, HangUp, Answered
  <2>3. MarkMove(s)
    BY <1>2, <2>1, <2>2, FinishMoves DEF MarkMove, Rejected, HangUp, Answered
  <2> QED
    BY <1>1, <2>1, <2>2, <2>3
<1>3. CASE TryLock(s) \/ MarkStart(s) \/ SeesDone(s) \/ Settle(s) \/ Reaped(s) \/ MarkStopped(s)
  <2>1. UNCHANGED <<agent, verdict, outcome, awaited, kill>>
    BY <1>3 DEF TryLock, MarkStart, SeesDone, Settle, Reaped, MarkStopped, agentVars, coordVars
  <2>2. \A t \in Streams : t # s => stream'[t] = stream[t]
    BY <1>3 DEF TryLock, MarkStart, SeesDone, Settle, Reaped, MarkStopped, Goto, ServerTyped
  <2>3. \/ stream[s] = "new" /\ stream'[s] \in {"setup", "rejected"} /\ UNCHANGED runStatus
        \/ stream[s] = "begin" /\ stream'[s] = "launch"
        \/ stream[s] = "loop" /\ stream'[s] = "title" /\ UNCHANGED runStatus
        \/ stream[s] = "settle" /\ stream'[s] = "answer" /\ runStatus' # "running"
        \/ stream[s] = "reap" /\ stream'[s] \in {"over", "stopping"} /\ UNCHANGED runStatus
        \/ stream[s] = "stopping" /\ stream'[s] = "over" /\ runStatus' # "running"
    BY <1>3 DEF TryLock, MarkStart, SeesDone, Settle, Reaped, MarkStopped, Goto, ServerTyped
  <2> QED
    BY <2>1, <2>2, <2>3 DEF StreamMove, MarkMove
<1>4. CASE Launch(s)
  BY <1>4 DEF Launch, Goto, ServerTyped, StreamMove, MarkMove, coordVars
<1>5. CASE LookForOld(s)
  <2>1. UNCHANGED <<agent, verdict, outcome, runStatus>> /\ stream[s] = "setup"
    BY <1>5 DEF LookForOld, coordVars
  <2>2. CASE stream'[s] = "begin"
    BY <1>5, <2>1, <2>2 DEF LookForOld, Goto, ServerTyped, StreamMove, MarkMove
  <2>3. CASE stream'[s] # "begin"
    <3>1. PICK old \in Streams : /\ Running(old) /\ Cancel(old) /\ Goto(s, "evict")
                                 /\ awaited' = [awaited EXCEPT ![s] = old]
      BY <1>5, <2>3 DEF LookForOld, Goto, ServerTyped
    <3>2. /\ stream'[s] = "evict" /\ awaited'[s] = old
          /\ \A t \in Streams : t # s => stream'[t] = stream[t] /\ awaited'[t] = awaited[t]
      BY <3>1 DEF Goto, ServerTyped
    <3>3. \A t \in Streams : t # old => kill'[t] = kill[t]
      BY <3>1, Zenon DEF Cancel, ServerTyped
    <3> QED
      BY <2>1, <3>1, <3>2, <3>3 DEF StreamMove, MarkMove
  <2> QED
    BY <2>2, <2>3
<1>6. CASE Evicted(s)
  <2>1. UNCHANGED <<agent, verdict, outcome, runStatus, awaited>> /\ stream[s] = "evict"
    BY <1>6 DEF Evicted, coordVars
  <2>2. CASE verdict[awaited[s]] # "error"
    BY <1>6, <2>1, <2>2 DEF Evicted, Goto, ServerTyped, StreamMove, MarkMove
  <2>3. CASE verdict[awaited[s]] = "error"
    <3>1. Finish(s) /\ ~Running(awaited[s])
      BY <1>6, <2>3 DEF Evicted
    <3> QED
      BY <1>1, <2>1, <2>3, <3>1 DEF MarkMove
  <2> QED
    BY <2>2, <2>3
<1>7. CASE TakeResult(s)
  <2>1. UNCHANGED <<agent, verdict, outcome, runStatus, awaited>> /\ stream[s] = "title"
    BY <1>7 DEF TakeResult, coordVars
  <2>2. CASE verdict[s] # "cancelled"
    BY <1>7, <2>1, <2>2 DEF TakeResult, Goto, ServerTyped, StreamMove, MarkMove
  <2>3. CASE verdict[s] = "cancelled"
    <3>1. Finish(s)
      BY <1>7, <2>3 DEF TakeResult
    <3> QED
      BY <1>1, <2>1, <2>3, <3>1 DEF MarkMove
  <2> QED
    BY <2>2, <2>3
<1>8. CASE SeesDisconnect(s)
  <2>1. /\ UNCHANGED <<agent, verdict, outcome, runStatus, awaited>> /\ stream[s] = "loop"
        /\ stream'[s] = "hangup" /\ \A t \in Streams : t # s => stream'[t] = stream[t]
    BY <1>8 DEF SeesDisconnect, coordVars, Goto, ServerTyped
  <2>2. kill'[s] = Running(s) /\ \A t \in Streams : t # s => kill'[t] = kill[t]
    BY <1>8, Zenon DEF SeesDisconnect, Cancel, ServerTyped
  <2> QED
    BY <2>1, <2>2 DEF StreamMove, MarkMove
<1>9. CASE WaitTimesOut(s)
  <2>1. /\ UNCHANGED <<stream, agent, verdict, outcome, runStatus, awaited>>
        /\ stream[s] \in {"evict", "reap"}
    BY <1>9 DEF WaitTimesOut, coordVars
  <2>2. PICK a : /\ Cancel(a)
                   /\ \/ a = s /\ stream[s] = "reap"
                      \/ a = awaited[s] /\ stream[s] = "evict"
    BY <1>9 DEF WaitTimesOut
  <2>3. \A t \in Streams : t # a => kill'[t] = kill[t]
    BY <2>2, Zenon DEF Cancel, ServerTyped
  <2>4. a \in Streams => kill'[a] = Running(a)
    BY <2>2, Zenon DEF Cancel, ServerTyped
  <2> QED
    BY <2>1, <2>2, <2>3, <2>4 DEF StreamMove, MarkMove
<1> QED
  BY <1>2, <1>3, <1>4, <1>5, <1>6, <1>7, <1>8, <1>9
     DEF StreamStep, StreamFault, SettleFails, Torn, TornWhileEvicting, TornInFinally

\* What a step of the agent of a stream does.
AgentMove(a) ==
  /\ UNCHANGED <<stream, awaited, runStatus>>
  /\ \A t \in Streams : t # a =>
       agent'[t] = agent[t] /\ verdict'[t] = verdict[t] /\ outcome'[t] = outcome[t]
         /\ kill'[t] = kill[t]
  /\ Running(a)
  /\ \/ agent'[a] \in {"coord", "end"} /\ verdict'[a] = verdict[a] /\ (Doomed(a)' => Doomed(a))
     \/ agent'[a] = "over" /\ (verdict'[a] = "cancelled" => Doomed(a))

LEMMA AgentMoves ==
  ASSUME ServerTyped, Coord!TypeOK, NEW a \in Streams, AgentStep(a)
  PROVE  AgentMove(a)
<1>0. /\ outcome \in [Streams -> Coord!Outcomes] /\ pc \in [Streams -> Coord!Places]
      /\ agent \in [Streams -> AgentPlaces] /\ verdict \in [Streams -> Verdicts]
      /\ kill \in [Streams -> BOOLEAN]
  BY DEF Coord!TypeOK, ServerTyped
<1>1. Running(a)
  BY DEF AgentStep, AgentEnters, AgentGoesOn, AgentEnds, AgentCutShort, AgentCancelled, Running
<1>2. ASSUME AgentEnters(a) \/ AgentGoesOn(a) \/ AgentCancelled(a)
      PROVE  /\ UNCHANGED <<stream, awaited, runStatus, verdict>>
             /\ \A t \in Streams : t # a => agent'[t] = agent[t]
             /\ agent'[a] \in {"coord", "end"}
  BY <1>0, <1>2 DEF AgentEnters, AgentGoesOn, AgentCancelled, LeavesCoordinator
<1>3. CASE AgentEnters(a) \/ AgentGoesOn(a)
  <2>1. UNCHANGED kill
    BY <1>3 DEF AgentEnters, AgentGoesOn
  <2>2. \E how \in {"skipped", "result", "empty", "error"} :
          outcome' = [outcome EXCEPT ![a] = how] \/ UNCHANGED outcome
    <3>1. CASE AgentEnters(a)
      BY <3>1 DEF AgentEnters, Coord!Call, Coord!Admit, Coord!Return
    <3>2. CASE Coord!SlotGranted(a) \/ Coord!QueuedGranted(a) \/ Coord!SecondLoopEnds(a)
      BY <3>2 DEF Coord!SlotGranted, Coord!QueuedGranted, Coord!SecondLoopEnds, Coord!Admit,
                  Coord!Return
    <3>3. CASE \E n \in {1, 2} : Coord!TurnGranted(a, n)
      BY <3>3 DEF Coord!TurnGranted
    <3>4. CASE Coord!FirstLoopEnds(a)
      BY <3>4 DEF Coord!FirstLoopEnds, Coord!LoopResult, Coord!Finally
    <3> QED
      BY <1>3, <3>1, <3>2, <3>3, <3>4 DEF AgentGoesOn, Coord!CallerStep
  <2>3. /\ \A t \in Streams : t # a => outcome'[t] = outcome[t]
        /\ outcome'[a] = "cancelled" => outcome[a] = "cancelled"
    BY <1>0, <2>2
  <2> QED
    BY <1>1, <1>2, <1>3, <2>1, <2>3 DEF AgentMove, Doomed
<1>4. CASE AgentCancelled(a)
  <2>1. kill[a] /\ \A t \in Streams : t # a => kill'[t] = kill[t]
    BY <1>0, <1>4, Zenon DEF AgentCancelled
  <2>2. \E how : outcome' = [outcome EXCEPT ![a] = how]
    BY <1>4 DEF AgentCancelled, Coord!CancelWaiting, Coord!CancelFirst, Coord!CancelSecond,
                Coord!Finally, Coord!Return
  <2>3. \A t \in Streams : t # a => outcome'[t] = outcome[t]
    BY <1>0, <2>2
  <2> QED
    BY <1>1, <1>2, <1>4, <2>1, <2>3 DEF AgentMove, Doomed
<1>5. CASE AgentEnds(a)
  <2>1. UNCHANGED <<stream, awaited, runStatus, kill, outcome>>
    BY <1>5 DEF AgentEnds, coordVars
  <2>2. PICK v \in VerdictOf(outcome[a]) : verdict' = [verdict EXCEPT ![a] = v]
    BY <1>5 DEF AgentEnds
  <2>3. v = "cancelled" => outcome[a] = "cancelled"
    BY <1>0, <2>2 DEF VerdictOf, Coord!Outcomes
  <2>4. agent'[a] = "over" /\ \A t \in Streams : t # a => agent'[t] = agent[t]
    BY <1>0, <1>5 DEF AgentEnds
  <2>5. verdict'[a] = v /\ \A t \in Streams : t # a => verdict'[t] = verdict[t]
    BY <1>0, <2>2
  <2> QED
    BY <1>1, <2>1, <2>3, <2>4, <2>5 DEF AgentMove, Doomed
<1>6. CASE AgentCutShort(a)
  <2>1. UNCHANGED <<stream, awaited, runStatus, outcome>>
    BY <1>6 DEF AgentCutShort, coordVars
  <2>2. kill[a] /\ \A t \in Streams : t # a => kill'[t] = kill[t]
    BY <1>0, <1>6, Zenon DEF AgentCutShort
  <2>3. /\ agent'[a] = "over" /\ verdict'[a] = "cancelled"
        /\ \A t \in Streams : t # a => agent'[t] = agent[t] /\ verdict'[t] = verdict[t]
    BY <1>0, <1>6 DEF AgentCutShort
  <2> QED
    BY <1>1, <2>1, <2>2, <2>3 DEF AgentMove, Doomed
<1> QED
  BY <1>3, <1>4, <1>5, <1>6 DEF AgentStep

LEMMA UnlaunchedKept ==
  ASSUME ServerTyped, Unlaunched,
         \/ \E s \in Streams : StreamMove(s) \/ AgentMove(s)
         \/ UNCHANGED <<stream, agent, verdict, kill, outcome>>
  PROVE  Unlaunched'
<1>1. ASSUME NEW s \in Streams, StreamMove(s)
      PROVE  Unlaunched'
  BY <1>1 DEF StreamMove, Unlaunched, Running
<1>2. ASSUME NEW a \in Streams, AgentMove(a)
      PROVE  Unlaunched'
  <2>1. stream[a] \notin {"new", "rejected", "setup", "evict", "begin", "launch"}
    BY <1>2 DEF AgentMove, Unlaunched, Running
  <2> QED
    BY <1>2, <2>1 DEF AgentMove, Unlaunched
<1> QED
  BY <1>1, <1>2 DEF Unlaunched

LEMMA DoomedByEvictorKept ==
  ASSUME ServerTyped, Unlaunched, DoomedByEvictor,
         \/ \E s \in Streams : StreamMove(s) /\ MarkMove(s)
         \/ \E a \in Streams : AgentMove(a)
         \/ UNCHANGED <<stream, awaited, agent, kill, outcome>>
  PROVE  DoomedByEvictor'
<1>1. ASSUME NEW s \in Streams, StreamMove(s), MarkMove(s)
      PROVE  DoomedByEvictor'
  <2> SUFFICES ASSUME NEW r \in Streams, stream'[r] = "loop", Running(r)', Doomed(r)'
               PROVE  \E t \in Streams : stream'[t] = "evict" /\ awaited'[t] = r
    BY DEF DoomedByEvictor
  <2>1. r # s
    BY <1>1 DEF StreamMove, Unlaunched, Doomed
  <2>2. stream[r] = "loop" /\ Running(r) /\ outcome'[r] = outcome[r]
    BY <1>1, <2>1 DEF StreamMove, Running
  <2>3. CASE Doomed(r)
    <3>1. PICK t \in Streams : stream[t] = "evict" /\ awaited[t] = r
      BY <2>2, <2>3 DEF DoomedByEvictor
    <3>2. CASE t = s
      BY <1>1, <2>2, <3>1, <3>2 DEF MarkMove
    <3>3. CASE t # s
      BY <1>1, <3>1, <3>3 DEF StreamMove
    <3> QED
      BY <3>2, <3>3
  <2>4. CASE ~Doomed(r)
    BY <1>1, <2>1, <2>2, <2>4 DEF StreamMove, Doomed
  <2> QED
    BY <2>3, <2>4
<1>2. ASSUME NEW a \in Streams, AgentMove(a)
      PROVE  DoomedByEvictor'
  BY <1>2 DEF AgentMove, DoomedByEvictor, Doomed, Running
<1> QED
  BY <1>1, <1>2 DEF DoomedByEvictor, Doomed, Running

LEMMA SomeoneMarksKept ==
  ASSUME ServerTyped, Settling, Unlaunched, DoomedByEvictor, SomeoneMarks,
         \/ \E s \in Streams : StreamMove(s) /\ MarkMove(s)
         \/ \E a \in Streams : AgentMove(a)
         \/ /\ UNCHANGED <<stream, awaited, agent, verdict>>
            /\ runStatus' \in {runStatus, "stopped"}
  PROVE  SomeoneMarks'
<1>1. ASSUME NEW s \in Streams, StreamMove(s), MarkMove(s)
      PROVE  SomeoneMarks'
  <2> SUFFICES ASSUME runStatus' = "running"
               PROVE  \E r \in Streams : WillMark(r)'
    BY DEF SomeoneMarks
  <2>1. CASE stream'[s] = "launch"
    BY <2>1 DEF WillMark
  <2>2. CASE stream'[s] # "launch"
    <3>1. PICK r \in Streams : WillMark(r)
      BY <1>1, <2>2 DEF MarkMove, SomeoneMarks
    <3>2. \A a \in Streams : agent[a] = "over" => agent'[a] = "over" /\ ~Running(a)
      BY <1>1 DEF StreamMove, Unlaunched, Running
    <3>3. CASE r # s
      BY <1>1, <3>1, <3>2, <3>3 DEF WillMark, StreamMove
    <3>4. CASE r = s
      <4>1. stream[s] = "launch" => verdict[s] = "none"
        BY DEF Unlaunched
      <4>2. CASE stream[s] = "evict"
        <5>1. (stream'[s] = "evict" /\ UNCHANGED awaited) \/ stream'[s] = "begin"
          BY <1>1, <3>1, <3>4, <4>2 DEF WillMark, MarkMove
        <5> QED
          BY <1>1, <3>1, <3>2, <3>4, <4>2, <5>1 DEF WillMark, StreamMove
      <4> QED
        BY <1>1, <3>1, <3>4, <4>1, <4>2 DEF WillMark, StreamMove, MarkMove
    <3> QED
      BY <3>3, <3>4
  <2> QED
    BY <2>1, <2>2
<1>2. ASSUME NEW a \in Streams, AgentMove(a)
      PROVE  SomeoneMarks'
  <2> SUFFICES ASSUME runStatus' = "running"
               PROVE  \E r \in Streams : WillMark(r)'
    BY DEF SomeoneMarks
  <2>1. PICK r \in Streams : WillMark(r)
    BY <1>2 DEF AgentMove, SomeoneMarks
  <2>2. CASE r # a \/ stream[r] \notin {"loop", "title", "settle"} \/ verdict'[a] # "cancelled"
    BY <1>2, <2>1, <2>2 DEF WillMark, AgentMove, Running
  <2>3. CASE r = a /\ stream[a] \in {"loop", "title", "settle"} /\ verdict'[a] = "cancelled"
    <3>1. verdict[a] # "cancelled"
      BY <2>1, <2>3 DEF WillMark
    <3>2. stream[a] = "loop"
      BY <1>2, <2>3 DEF AgentMove, Settling
    <3>3. agent'[a] = "over" /\ Doomed(a)
      BY <1>2, <2>3, <3>1 DEF AgentMove
    <3>4. PICK t \in Streams : stream[t] = "evict" /\ awaited[t] = a
      BY <1>2, <3>2, <3>3 DEF AgentMove, DoomedByEvictor
    <3>5. WillMark(t)'
      BY <1>2, <2>3, <3>3, <3>4 DEF AgentMove, WillMark
    <3> QED
      BY <3>5
  <2> QED
    BY <2>2, <2>3
<1>3. ASSUME UNCHANGED <<stream, awaited, agent, verdict>>, runStatus' \in {runStatus, "stopped"}
      PROVE  SomeoneMarks'
  BY <1>3 DEF SomeoneMarks, WillMark
<1> QED
  BY <1>1, <1>2, <1>3

LEMMA StatusStep ==
  ASSUME ServerTyped, Settling, Coord!TypeOK, StatusInv, [Next]_vars, "raise" \notin Faults
  PROVE  StatusInv'
<1>1. \/ \E s \in Streams : StreamMove(s) /\ MarkMove(s)
      \/ \E a \in Streams : AgentMove(a)
      \/ /\ UNCHANGED <<stream, awaited, agent, verdict, kill, outcome>>
         /\ runStatus' \in {runStatus, "stopped"}
  <2>1. ASSUME NEW a \in Streams, NEW n \in {1, 2}, ProcessorEnds(a, n)
        PROVE  UNCHANGED <<stream, awaited, agent, verdict, kill, outcome, runStatus>>
    BY <2>1 DEF ProcessorEnds, agentVars, Coord!TaskEnds
  <2>2. ASSUME NEW p \in Stops, Stop(p)
        PROVE  /\ UNCHANGED <<stream, awaited, agent, verdict, kill, outcome>>
               /\ runStatus' = "stopped"
    BY <2>2 DEF Stop, agentVars, coordVars
  <2>3. ASSUME UNCHANGED vars
        PROVE  UNCHANGED <<stream, awaited, agent, verdict, kill, outcome, runStatus>>
    BY <2>3 DEF vars, agentVars, coordVars
  <2> QED
    BY <2>1, <2>2, <2>3, StreamMoves, AgentMoves DEF Next
<1> QED
  BY <1>1, UnlaunchedKept, DoomedByEvictorKept, SomeoneMarksKept DEF StatusInv

\* When all streams are over the session does not claim to be running, however
\* streams overlap and evict each other's agents, clients go away, waits time
\* out and processors fail, as long as no stream is torn out of its generator.
THEOREM StatusSettles ==
  ASSUME "raise" \notin Faults
  PROVE  Spec => []StatusSettled
<1>1. Init => StatusInv
  <2> SUFFICES ASSUME Init PROVE StatusInv
    OBVIOUS
  <2>1. Unlaunched
    BY DEF Init, Unlaunched, Coord!Init
  <2>2. DoomedByEvictor /\ SomeoneMarks
    BY DEF Init, DoomedByEvictor, SomeoneMarks
  <2> QED
    BY <2>1, <2>2 DEF StatusInv
<1>2. StatusInv /\ ServerTyped /\ Settling /\ Coord!TypeOK /\ [Next]_vars => StatusInv'
  BY StatusStep
<1>3. StatusInv => StatusSettled
  BY DEF StatusInv, SomeoneMarks, WillMark, StatusSettled
<1> QED
  BY <1>1, <1>2, <1>3, ServerInvariance, CoordinatorTyped, PTL DEF Spec
=============================================================================
