------------------------- MODULE SessionCoordinator -------------------------
(***************************************************************************)
(* core/coordinator.py: the per-session state machine that serialises the  *)
(* processing of a session.  A caller is one invocation of run(); it runs  *)
(* on an event loop, so an action is the code between two awaits that can  *)
(* really suspend.  A call goes through                                    *)
(*                                                                         *)
(*   idle -> slot -> turn1 -> loop1 -> turn2 -> loop2 -> done              *)
(*                \-> queued -> done                                       *)
(*                                                                         *)
(* slot: waiting for the global semaphore; turnN: waiting for the lock of  *)
(* its session; loopN: inside _process_loop for the N-th time (2 is the    *)
(* re-drain of the finally block); queued: found the session DRAINING and  *)
(* waits for the lock only to let it go.                                   *)
(***************************************************************************)
EXTENDS FifoPermits

CONSTANTS
  Callers,        \* invocations of run()
  Sessions,
  MaxConcurrent,  \* 0: no global limit, as the server configures it
  NoSession,
  Faults          \* which of the environment's moves the run includes

\* What the environment of the coordinator may do: cancel the task that
\* awaits run(), call interrupt() or wake(), let a processor raise.
FaultKinds == {"cancel", "interrupt", "wake", "fail"}

ASSUME CoordinatorAssumption ==
  /\ MaxConcurrent \in Nat
  /\ NoSession \notin Sessions
  /\ Faults \subseteq FaultKinds

VARIABLES
  state,      \* _states
  completed,  \* _completion_events: is the event set
  cancelEvt,  \* _cancel_events: no entry, an entry, an entry that is set
  lock,       \* _locks
  slots,      \* _semaphore
  pc,         \* where each caller is suspended
  session,    \* the session each caller asked for
  ended,      \* how the processor of the caller's current loop ended
  outcome,    \* what run() gave its caller
  tasks       \* processor tasks that are alive: <<caller, loop number>>

vars == <<state, completed, cancelEvt, lock, slots, pc, session, ended,
          outcome, tasks>>

States   == {"IDLE", "DRAINING", "QUEUED"}
Places   == {"idle", "slot", "turn1", "loop1", "turn2", "loop2", "queued", "done"}
Outcomes == {"none", "result", "empty", "skipped", "error", "cancelled"}

TypeOK ==
  /\ state     \in [Sessions -> States]
  /\ completed \in [Sessions -> BOOLEAN]
  /\ cancelEvt \in [Sessions -> {"absent", "clear", "set"}]
  /\ lock      \in [Sessions -> PermitPool(Callers)]
  /\ slots     \in PermitPool(Callers)
  /\ pc        \in [Callers -> Places]
  /\ session   \in [Callers -> Sessions \cup {NoSession}]
  /\ ended     \in [Callers -> {"no", "ok", "error"}]
  /\ outcome   \in [Callers -> Outcomes]
  /\ tasks     \subseteq Callers \X {1, 2}

Init ==
  /\ state     = [s \in Sessions |-> "IDLE"]
  /\ completed = [s \in Sessions |-> TRUE]
  /\ cancelEvt = [s \in Sessions |-> "absent"]
  /\ lock      = [s \in Sessions |-> AllFree]
  /\ slots     = AllFree
  /\ pc        = [c \in Callers |-> "idle"]
  /\ session   = [c \in Callers |-> NoSession]
  /\ ended     = [c \in Callers |-> "no"]
  /\ outcome   = [c \in Callers |-> "none"]
  /\ tasks     = {}
-----------------------------------------------------------------------------
Limited == MaxConcurrent > 0

InLoop(c)  == pc[c] \in {"loop1", "loop2"}
Turn(n)    == IF n = 1 THEN "turn1" ELSE "turn2"
Loop(n)    == IF n = 1 THEN "loop1" ELSE "loop2"

\* `async with lock: _process_loop(...)` once pool is the state of the lock:
\* enter the loop at once when the lock is free, otherwise wait in line.
EnterLoop(c, s, n, pool) ==
  /\ lock' = [lock EXCEPT ![s] = Join(pool, c, 1)]
  /\ IF CanEnter(pool, 1)
     THEN /\ pc' = [pc EXCEPT ![c] = Loop(n)]
          /\ tasks' = tasks \cup {<<c, n>>}
          /\ cancelEvt' = [cancelEvt EXCEPT ![s] = "clear"]
     ELSE /\ pc' = [pc EXCEPT ![c] = Turn(n)]
          /\ tasks' = tasks
          /\ cancelEvt' = [cancelEvt EXCEPT ![s] = IF InLoop(c) THEN "absent" ELSE @]

\* Mutant of Return: the result is taken for the place.
ReturnSwapped(c, how) ==
  /\ pc' = [pc EXCEPT ![c] = how]
  /\ outcome' = [outcome EXCEPT ![c] = "none"]

Return(c, how) ==
  /\ pc' = [pc EXCEPT ![c] = "done"]
  /\ outcome' = [outcome EXCEPT ![c] = how]

\* run() from the read of the state to its next suspension; pool is the
\* semaphore as it is once c is past it.
Admit(c, s, pool) ==
  \/ /\ state[s] # "DRAINING"
     /\ state' = [state EXCEPT ![s] = "DRAINING"]
     /\ completed' = [completed EXCEPT ![s] = FALSE]
     /\ EnterLoop(c, s, 1, lock[s])
     /\ slots' = pool
     /\ UNCHANGED outcome
  \/ /\ state[s] = "DRAINING"
     /\ ~CanEnter(lock[s], 1)
     /\ state' = [state EXCEPT ![s] = "QUEUED"]
     /\ lock' = [lock EXCEPT ![s] = Join(@, c, 1)]
     /\ pc' = [pc EXCEPT ![c] = "queued"]
     /\ slots' = pool
     /\ UNCHANGED <<completed, cancelEvt, tasks, outcome>>
  \/ /\ state[s] = "DRAINING"
     /\ CanEnter(lock[s], 1)
     /\ state' = [state EXCEPT ![s] = "QUEUED"]
     /\ slots' = Leave(pool, c)
     /\ Return(c, "skipped")
     /\ UNCHANGED <<completed, cancelEvt, lock, tasks>>

\* run() is called: up to the semaphore, and past it when a slot is free.
Call(c, s) ==
  /\ pc[c] = "idle"
  /\ session' = [session EXCEPT ![c] = s]
  /\ \/ /\ ~Limited
        /\ Admit(c, s, slots)
     \/ /\ Limited
        /\ CanEnter(slots, MaxConcurrent)
        /\ Admit(c, s, Join(slots, c, MaxConcurrent))
     \/ /\ Limited
        /\ ~CanEnter(slots, MaxConcurrent)
        /\ slots' = Join(slots, c, MaxConcurrent)
        /\ pc' = [pc EXCEPT ![c] = "slot"]
        /\ UNCHANGED <<state, completed, cancelEvt, lock, tasks, outcome>>
  /\ UNCHANGED ended

\* The semaphore was handed to a waiting caller, which goes on.
SlotGranted(c) ==
  /\ pc[c] = "slot"
  /\ c \in slots.holders
  /\ Admit(c, session[c], slots)
  /\ UNCHANGED <<session, ended>>

\* Mutant of QueuedGranted: the queued caller forgets its slot.
QueuedKeepsSlot(c) ==
  LET s == session[c] IN
  /\ pc[c] = "queued"
  /\ c \in lock[s].holders
  /\ lock' = [lock EXCEPT ![s] = Release(@, c)]
  /\ Return(c, "skipped")
  /\ UNCHANGED <<state, completed, cancelEvt, slots, session, ended, tasks>>

\* A queued caller gets the lock: `async with lock: pass`, then return "".
QueuedGranted(c) ==
  LET s == session[c] IN
  /\ pc[c] = "queued"
  /\ c \in lock[s].holders
  /\ lock' = [lock EXCEPT ![s] = Release(@, c)]
  /\ slots' = Leave(slots, c)
  /\ Return(c, "skipped")
  /\ UNCHANGED <<state, completed, cancelEvt, session, ended, tasks>>

\* Mutant of TurnGranted: the loop starts before the lock is handed over.
TurnTaken(c, n) ==
  LET s == session[c] IN
  /\ pc[c] = Turn(n)
  /\ pc' = [pc EXCEPT ![c] = Loop(n)]
  /\ tasks' = tasks \cup {<<c, n>>}
  /\ cancelEvt' = [cancelEvt EXCEPT ![s] = "clear"]
  /\ UNCHANGED <<state, completed, lock, slots, session, ended, outcome>>

\* The lock was handed to a caller that waits to process: it starts its loop.
TurnGranted(c, n) ==
  LET s == session[c] IN
  /\ pc[c] = Turn(n)
  /\ c \in lock[s].holders
  /\ pc' = [pc EXCEPT ![c] = Loop(n)]
  /\ tasks' = tasks \cup {<<c, n>>}
  /\ cancelEvt' = [cancelEvt EXCEPT ![s] = "clear"]
  /\ UNCHANGED <<state, completed, lock, slots, session, ended, outcome>>

\* A processor task ends.  When its caller still waits for it in this loop
\* the caller will see how; a task that was left behind ends unseen.
TaskEnds(c, n) ==
  /\ <<c, n>> \in tasks
  /\ tasks' = tasks \ {<<c, n>>}
  /\ IF pc[c] = Loop(n)
     THEN \E how \in {"ok"} \cup (IF "fail" \in Faults THEN {"error"} ELSE {}) :
            ended' = [ended EXCEPT ![c] = how]
     ELSE UNCHANGED ended
  /\ UNCHANGED <<state, completed, cancelEvt, lock, slots, pc, session, outcome>>

\* Mutants of LoopResult: waiting for both tasks (ALL_COMPLETED), not waiting
\* for the processor at all, and an interrupt that counts as a result.
LoopResultOfBoth(c, how) ==
  ended[c] # "no" /\ cancelEvt[session[c]] = "set" /\ how = "result"
LoopResultAtOnce(c, how) ==
  ended[c] # "error" /\ how = "result"

LoopResultOfInterrupt(c, how) ==
  \/ ended[c] = "error" /\ how = "error"
  \/ ended[c] = "ok" /\ how = "result"
  \/ ended[c] # "error" /\ cancelEvt[session[c]] = "set" /\ how = "result"

\* asyncio.wait() is over for c, with how as the result of _process_loop.
\* The task is left to itself when the interrupt came first; when both are
\* done the result depends on the order of a set.
LoopResult(c, how) ==
  \/ ended[c] = "error" /\ how = "error"
  \/ ended[c] = "ok"    /\ how = "result"
  \/ ended[c] # "error" /\ cancelEvt[session[c]] = "set" /\ how = "empty"

\* The finally block of run() after the first loop, or after c gave up
\* waiting for it: the slot goes back, then the session either re-drains
\* (with c's own processor) or becomes idle.
Finally(c, how) ==
  LET s == session[c] IN
  /\ slots' = Leave(slots, c)
  /\ ended' = [ended EXCEPT ![c] = "no"]
  /\ outcome' = [outcome EXCEPT ![c] = how]
  /\ \/ /\ state[s] = "QUEUED"
        /\ state' = [state EXCEPT ![s] = "DRAINING"]
        /\ completed' = [completed EXCEPT ![s] = FALSE]
        /\ EnterLoop(c, s, 2, Leave(lock[s], c))
     \/ /\ state[s] # "QUEUED"
        /\ state' = [state EXCEPT ![s] = "IDLE"]
        /\ completed' = [completed EXCEPT ![s] = TRUE]
        /\ lock' = [lock EXCEPT ![s] = Leave(@, c)]
        /\ cancelEvt' = [cancelEvt EXCEPT ![s] = IF InLoop(c) THEN "absent" ELSE @]
        /\ pc' = [pc EXCEPT ![c] = "done"]
        /\ tasks' = tasks
  /\ UNCHANGED session

\* The first loop returns or raises.
FirstLoopEnds(c) ==
  /\ pc[c] = "loop1"
  /\ \E how \in Outcomes : LoopResult(c, how) /\ Finally(c, how)

\* The re-drain ends.  Its result is dropped; only when it did not raise are
\* the state and the completion event restored.
SecondLoopEnds(c) ==
  LET s == session[c] IN
  /\ pc[c] = "loop2"
  /\ lock' = [lock EXCEPT ![s] = Release(@, c)]
  /\ cancelEvt' = [cancelEvt EXCEPT ![s] = "absent"]
  /\ ended' = [ended EXCEPT ![c] = "no"]
  /\ pc' = [pc EXCEPT ![c] = "done"]
  /\ \/ /\ \E how \in {"result", "empty"} : LoopResult(c, how)
        /\ state' = [state EXCEPT ![s] = "IDLE"]
        /\ completed' = [completed EXCEPT ![s] = TRUE]
        /\ UNCHANGED outcome
     \/ /\ LoopResult(c, "error")
        /\ outcome' = [outcome EXCEPT ![c] = "error"]
        /\ UNCHANGED <<state, completed>>
  /\ UNCHANGED <<slots, session, tasks>>

\* interrupt(): sets the event of the loop that runs, if there is one.
Interrupt(s) ==
  /\ "interrupt" \in Faults
  /\ cancelEvt[s] = "clear"
  /\ cancelEvt' = [cancelEvt EXCEPT ![s] = "set"]
  /\ UNCHANGED <<state, completed, lock, slots, pc, session, ended, outcome, tasks>>

\* Mutant of Wake: an idle session is marked as well.
WakeAlways(s) ==
  /\ "wake" \in Faults
  /\ state' = [state EXCEPT ![s] = "QUEUED"]
  /\ UNCHANGED <<completed, cancelEvt, lock, slots, pc, session, ended, outcome, tasks>>

\* wake(): asks for another run when the session is draining.
Wake(s) ==
  /\ "wake" \in Faults
  /\ state[s] = "DRAINING"
  /\ state' = [state EXCEPT ![s] = "QUEUED"]
  /\ UNCHANGED <<completed, cancelEvt, lock, slots, pc, session, ended, outcome, tasks>>

\* The task that awaits run() is cancelled while it waits for a slot or, as
\* a queued caller, for the lock: no try block covers those two awaits, so
\* the second one keeps its slot.
CancelWaiting(c) ==
  LET s == session[c] IN
  /\ "cancel" \in Faults
  /\ \/ /\ pc[c] = "slot"
        /\ slots' = Leave(slots, c)
        /\ UNCHANGED lock
     \/ /\ pc[c] = "queued"
        /\ lock' = [lock EXCEPT ![s] = Leave(@, c)]
        /\ UNCHANGED slots
  /\ Return(c, "cancelled")
  /\ UNCHANGED <<state, completed, cancelEvt, session, ended, tasks>>

\* Cancelled inside the try block: asyncio.wait() does not cancel the
\* processor task, which lives on, and the finally block runs.
CancelFirst(c) ==
  /\ "cancel" \in Faults
  /\ pc[c] \in {"turn1", "loop1"}
  /\ Finally(c, "cancelled")

\* Cancelled inside the finally block: nothing restores the state.
CancelSecond(c) ==
  LET s == session[c] IN
  /\ "cancel" \in Faults
  /\ pc[c] \in {"turn2", "loop2"}
  /\ lock' = [lock EXCEPT ![s] = Leave(@, c)]
  /\ cancelEvt' = [cancelEvt EXCEPT ![s] = IF InLoop(c) THEN "absent" ELSE @]
  /\ ended' = [ended EXCEPT ![c] = "no"]
  /\ Return(c, "cancelled")
  /\ UNCHANGED <<state, completed, slots, session, tasks>>

CallerStep(c) ==
  \/ SlotGranted(c)
  \/ QueuedGranted(c)
  \/ \E n \in {1, 2} : TurnGranted(c, n)
  \/ FirstLoopEnds(c)
  \/ SecondLoopEnds(c)

Next ==
  \/ \E c \in Callers : CallerStep(c)
  \/ \E c \in Callers, s \in Sessions : Call(c, s)
  \/ \E c \in Callers, n \in {1, 2} : TaskEnds(c, n)
  \/ \E s \in Sessions : Interrupt(s) \/ Wake(s)
  \/ \E c \in Callers : CancelWaiting(c) \/ CancelFirst(c) \/ CancelSecond(c)

Spec == Init /\ [][Next]_vars

\* The event loop runs every task that is ready, and processors terminate.
Fairness ==
  /\ \A c \in Callers : WF_vars(CallerStep(c))
  /\ \A c \in Callers, n \in {1, 2} : WF_vars(TaskEnds(c, n))

FairSpec == Spec /\ Fairness
-----------------------------------------------------------------------------
(***************************************************************************)
(* What the coordinator is for.                                            *)
(***************************************************************************)

\* A caller that is in its loop holds the lock of its session, and a lock has
\* at most one holder: the invariant that makes LoopExclusive inductive.
LockProtects ==
  /\ \A c \in Callers : InLoop(c) => c \in lock[session[c]].holders
  /\ \A s \in Sessions : \A c, d \in lock[s].holders : c = d

\* Two calls of run() are never inside _process_loop for one session at the
\* same time, whatever is cancelled, interrupted or raised.
LoopExclusive ==
  \A c, d \in Callers :
    InLoop(c) /\ InLoop(d) /\ session[c] = session[d] => c = d

\* One processor task at most is alive per session: what the refinement below
\* comes down to.
OneChain ==
  \A t, u \in tasks : session[t[1]] = session[u[1]] => t = u

\* "Each session has at most one active processing chain": the processor tasks
\* of the program are the chains of the abstract specification.  It holds as
\* long as no caller is cancelled and no loop interrupted.
Serial == INSTANCE SerialChains
            WITH Chains <- Callers \X {1, 2},
                 alive  <- [s \in Sessions |-> {t \in tasks : session[t[1]] = s}]

ImplementsSerialChains == Serial!Spec

\* With cancellations and interrupts a processor can outlive its call and
\* overlap with the next one of the session, but only one that was given up: a
\* processor of a first loop that nobody waits for belongs to a call that gave
\* its caller no result of it (the error is one of the re-drain), and one of a
\* re-drain to a call that is over.  Nobody is told a result while the
\* processor that computes it is alive.
OrphansWereGivenUp ==
  \A c \in Callers :
    /\ <<c, 1>> \in tasks /\ pc[c] # "loop1" =>
         outcome[c] \in {"empty", "cancelled"} \/ (outcome[c] = "error" /\ pc[c] = "done")
    /\ <<c, 2>> \in tasks /\ pc[c] # "loop2" => pc[c] = "done"

\* A slot is held by a call that is still going to release it: none leaks.
NoLeakedSlot ==
  \A c \in slots.holders : pc[c] \in {"slot", "turn1", "loop1", "queued"}

\* When no call is in progress everything is back where it started, so the
\* next run() is not taken for a queued one and nobody waits for a
\* completion that was never signalled.
QuiescentIdle ==
  (\A c \in Callers : pc[c] \in {"idle", "done"}) =>
    /\ slots = AllFree
    /\ \A s \in Sessions :
         state[s] = "IDLE" /\ completed[s] /\ cancelEvt[s] = "absent" /\ lock[s] = AllFree

\* Every call of run() comes back to its caller.
EveryCallReturns == \A c \in Callers : pc[c] # "idle" ~> pc[c] = "done"
-----------------------------------------------------------------------------
(***************************************************************************)
(* What the docstrings of core/coordinator.py say and the code does not do *)
(***************************************************************************)

\* A session that was marked active is eventually signalled complete.
EventuallyComplete == \A s \in Sessions : ~completed[s] ~> completed[s]
=============================================================================
