---------------------- MODULE SessionCoordinator_proofs ----------------------
(***************************************************************************)
(* Proofs about SessionCoordinator, for every number of callers and        *)
(* sessions, every limit and every combination of faults.                  *)
(***************************************************************************)
EXTENDS SessionCoordinator, SharedTheorems

\* A call that was made is for a session.
SessionKnown == \A c \in Callers : pc[c] # "idle" => session[c] \in Sessions

\* The inductive invariant.
IInv == TypeOK /\ SessionKnown /\ LockProtects

LEMMA NamesAreTyped ==
  ASSUME NEW n \in {1, 2}
  PROVE  Turn(n) \in {"turn1", "turn2"} /\ Loop(n) \in {"loop1", "loop2"}
BY DEF Turn, Loop

-----------------------------------------------------------------------------
(***************************************************************************)
(* Type correctness.                                                       *)
(***************************************************************************)
LEMMA EnterLoopType ==
  ASSUME TypeOK, NEW c \in Callers, NEW s \in Sessions, NEW n \in {1, 2},
         NEW pool \in PermitPool(Callers), EnterLoop(c, s, n, pool)
  PROVE  /\ lock' \in [Sessions -> PermitPool(Callers)]
         /\ pc' \in [Callers -> Places]
         /\ tasks' \subseteq Callers \X {1, 2}
         /\ cancelEvt' \in [Sessions -> {"absent", "clear", "set"}]
<1>1. Join(pool, c, 1) \in PermitPool(Callers)
  BY PoolType
<1>2. Loop(n) \in Places /\ Turn(n) \in Places
  BY DEF Loop, Turn, Places
<1>3. lock' \in [Sessions -> PermitPool(Callers)]
  BY <1>1 DEF EnterLoop, TypeOK
<1>4. CASE CanEnter(pool, 1)
  BY <1>2, <1>3, <1>4 DEF EnterLoop, TypeOK
<1>5. CASE ~CanEnter(pool, 1)
  BY <1>2, <1>3, <1>5 DEF EnterLoop, TypeOK
<1> QED
  BY <1>4, <1>5

LEMMA AdmitType ==
  ASSUME TypeOK, NEW c \in Callers, NEW s \in Sessions,
         NEW pool \in PermitPool(Callers), Admit(c, s, pool)
  PROVE  /\ state' \in [Sessions -> States]
         /\ completed' \in [Sessions -> BOOLEAN]
         /\ cancelEvt' \in [Sessions -> {"absent", "clear", "set"}]
         /\ lock' \in [Sessions -> PermitPool(Callers)]
         /\ slots' \in PermitPool(Callers)
         /\ pc' \in [Callers -> Places]
         /\ outcome' \in [Callers -> Outcomes]
         /\ tasks' \subseteq Callers \X {1, 2}
<1>1. lock[s] \in PermitPool(Callers)
  BY DEF TypeOK
<1>2. Join(lock[s], c, 1) \in PermitPool(Callers) /\ Leave(pool, c) \in PermitPool(Callers)
  BY <1>1, PoolType
<1>3. CASE state[s] # "DRAINING"
  <2>1. EnterLoop(c, s, 1, lock[s])
    BY <1>3 DEF Admit
  <2> QED
    BY <1>3, <2>1, <1>1, EnterLoopType DEF Admit, TypeOK, States
<1>4. CASE state[s] = "DRAINING" /\ ~CanEnter(lock[s], 1)
  BY <1>4, <1>2 DEF Admit, TypeOK, States, Places
<1>5. CASE state[s] = "DRAINING" /\ CanEnter(lock[s], 1)
  BY <1>5, <1>2 DEF Admit, Return, TypeOK, States, Places, Outcomes
<1> QED
  BY <1>3, <1>4, <1>5

LEMMA FinallyType ==
  ASSUME TypeOK, SessionKnown, NEW c \in Callers, pc[c] # "idle",
         NEW how \in Outcomes, Finally(c, how)
  PROVE  TypeOK'
<1> DEFINE s == session[c]
<1>1. s \in Sessions
  BY DEF SessionKnown
<1>2. lock[s] \in PermitPool(Callers) /\ slots \in PermitPool(Callers)
  BY <1>1 DEF TypeOK
<1>3. Leave(lock[s], c) \in PermitPool(Callers) /\ Leave(slots, c) \in PermitPool(Callers)
  BY <1>2, PoolType
<1>4. CASE state[s] = "QUEUED"
  <2>1. EnterLoop(c, s, 2, Leave(lock[s], c))
    BY <1>4 DEF Finally
  <2>2. /\ lock' \in [Sessions -> PermitPool(Callers)]
        /\ pc' \in [Callers -> Places]
        /\ tasks' \subseteq Callers \X {1, 2}
        /\ cancelEvt' \in [Sessions -> {"absent", "clear", "set"}]
    BY <2>1, <1>1, <1>3, EnterLoopType
  <2> QED
    BY <1>1, <1>3, <1>4, <2>2 DEF Finally, TypeOK, States
<1>5. CASE state[s] # "QUEUED"
  <2>1. state' \in [Sessions -> States]
    BY <1>1, <1>5 DEF Finally, TypeOK, States
  <2>4. completed' \in [Sessions -> BOOLEAN]
    BY <1>1, <1>5 DEF Finally, TypeOK
  <2>5. lock' \in [Sessions -> PermitPool(Callers)]
    BY <1>1, <1>3, <1>5 DEF Finally, TypeOK
  <2>2. cancelEvt' \in [Sessions -> {"absent", "clear", "set"}]
    BY <1>1, <1>5 DEF Finally, TypeOK
  <2>3. /\ slots' \in PermitPool(Callers)
        /\ pc' \in [Callers -> Places]
        /\ session' \in [Callers -> Sessions \cup {NoSession}]
        /\ ended' \in [Callers -> {"no", "ok", "error"}]
        /\ outcome' \in [Callers -> Outcomes]
        /\ tasks' \subseteq Callers \X {1, 2}
    BY <1>1, <1>3, <1>5 DEF Finally, TypeOK, Places
  <2> QED
    BY <2>1, <2>2, <2>3, <2>4, <2>5 DEF TypeOK
<1> QED
  BY <1>4, <1>5

\* Whatever a caller does, the state stays well typed.
LEMMA NextType ==
  ASSUME TypeOK, SessionKnown, Next
  PROVE  TypeOK'
<1>1. ASSUME NEW c \in Callers, NEW s \in Sessions, Call(c, s)
      PROVE  TypeOK'
  <2>1. slots \in PermitPool(Callers) /\ Join(slots, c, MaxConcurrent) \in PermitPool(Callers)
    BY PoolType DEF TypeOK
  <2>2. session' \in [Callers -> Sessions \cup {NoSession}] /\ ended' = ended
    BY <1>1 DEF Call, TypeOK
  <2>3. CASE Admit(c, s, slots) \/ Admit(c, s, Join(slots, c, MaxConcurrent))
    BY <2>1, <2>2, <2>3, AdmitType DEF TypeOK
  <2>4. CASE /\ slots' = Join(slots, c, MaxConcurrent)
             /\ pc' = [pc EXCEPT ![c] = "slot"]
             /\ UNCHANGED <<state, completed, cancelEvt, lock, tasks, outcome>>
    BY <2>1, <2>2, <2>4 DEF TypeOK, Places
  <2> QED
    BY <1>1, <2>3, <2>4 DEF Call
<1>2. ASSUME NEW c \in Callers, SlotGranted(c)
      PROVE  TypeOK'
  <2>1. session[c] \in Sessions /\ slots \in PermitPool(Callers)
    BY <1>2 DEF SlotGranted, SessionKnown, TypeOK
  <2>2. Admit(c, session[c], slots) /\ UNCHANGED <<session, ended>>
    BY <1>2 DEF SlotGranted
  <2> QED
    BY <2>1, <2>2, AdmitType DEF TypeOK
<1>3. ASSUME NEW c \in Callers, QueuedGranted(c)
      PROVE  TypeOK'
  <2>1. session[c] \in Sessions
    BY <1>3 DEF QueuedGranted, SessionKnown
  <2>2. Release(lock[session[c]], c) \in PermitPool(Callers) /\ Leave(slots, c) \in PermitPool(Callers)
    BY <2>1, PoolType DEF TypeOK
  <2> QED
    BY <1>3, <2>1, <2>2 DEF QueuedGranted, Return, TypeOK, Places, Outcomes
<1>4. ASSUME NEW c \in Callers, NEW n \in {1, 2}, TurnGranted(c, n)
      PROVE  TypeOK'
  <2>1. session[c] \in Sessions
    BY <1>4, NamesAreTyped DEF TurnGranted, SessionKnown
  <2>2. Loop(n) \in Places
    BY DEF Loop, Places
  <2> QED
    BY <1>4, <2>1, <2>2 DEF TurnGranted, TypeOK
<1>5. ASSUME NEW c \in Callers, FirstLoopEnds(c)
      PROVE  TypeOK'
  BY <1>5, FinallyType DEF FirstLoopEnds
<1>6. ASSUME NEW c \in Callers, SecondLoopEnds(c)
      PROVE  TypeOK'
  <2>1. session[c] \in Sessions
    BY <1>6 DEF SecondLoopEnds, SessionKnown
  <2>2. Release(lock[session[c]], c) \in PermitPool(Callers)
    BY <2>1, PoolType DEF TypeOK
  <2>3. /\ lock' \in [Sessions -> PermitPool(Callers)]
        /\ cancelEvt' \in [Sessions -> {"absent", "clear", "set"}]
        /\ ended' \in [Callers -> {"no", "ok", "error"}]
        /\ pc' \in [Callers -> Places]
    BY <1>6, <2>1, <2>2 DEF SecondLoopEnds, TypeOK, Places
  <2>4. /\ state' \in [Sessions -> States]
        /\ outcome' \in [Callers -> Outcomes]
    BY <1>6, <2>1 DEF SecondLoopEnds, TypeOK, States, Outcomes
  <2>5. completed' \in [Sessions -> BOOLEAN]
    BY <1>6, <2>1 DEF SecondLoopEnds, TypeOK
  <2>6. UNCHANGED <<slots, session, tasks>>
    BY <1>6 DEF SecondLoopEnds
  <2> QED
    BY <2>3, <2>4, <2>5, <2>6 DEF TypeOK
<1>7. ASSUME NEW c \in Callers, NEW n \in {1, 2}, TaskEnds(c, n)
      PROVE  TypeOK'
  <2>1. ended' \in [Callers -> {"no", "ok", "error"}]
    <3>1. CASE pc[c] = Loop(n)
      <4>1. PICK how \in {"ok", "error"} : ended' = [ended EXCEPT ![c] = how]
        BY <1>7, <3>1 DEF TaskEnds
      <4> QED
        BY <4>1 DEF TypeOK
    <3>2. CASE pc[c] # Loop(n)
      BY <1>7, <3>2 DEF TaskEnds, TypeOK
    <3> QED
      BY <3>1, <3>2
  <2>2. /\ tasks' = tasks \ {<<c, n>>}
        /\ UNCHANGED <<state, completed, cancelEvt, lock, slots, pc, session, outcome>>
    BY <1>7 DEF TaskEnds
  <2> QED
    BY <2>1, <2>2 DEF TypeOK
<1>8. ASSUME NEW s \in Sessions, Interrupt(s) \/ Wake(s)
      PROVE  TypeOK'
  BY <1>8 DEF Interrupt, Wake, TypeOK, States
<1>9. ASSUME NEW c \in Callers, CancelWaiting(c)
      PROVE  TypeOK'
  <2>1. session[c] \in Sessions
    BY <1>9 DEF CancelWaiting, SessionKnown
  <2>2. Leave(lock[session[c]], c) \in PermitPool(Callers) /\ Leave(slots, c) \in PermitPool(Callers)
    BY <2>1, PoolType DEF TypeOK
  <2> QED
    BY <1>9, <2>1, <2>2 DEF CancelWaiting, Return, TypeOK, Places, Outcomes
<1>10. ASSUME NEW c \in Callers, CancelFirst(c)
       PROVE  TypeOK'
  BY <1>10, FinallyType DEF CancelFirst, Outcomes
<1>11. ASSUME NEW c \in Callers, CancelSecond(c)
       PROVE  TypeOK'
  <2>1. session[c] \in Sessions
    BY <1>11 DEF CancelSecond, SessionKnown
  <2>2. Leave(lock[session[c]], c) \in PermitPool(Callers)
    BY <2>1, PoolType DEF TypeOK
  <2> QED
    BY <1>11, <2>1, <2>2 DEF CancelSecond, Return, TypeOK, Places, Outcomes
<1> QED
  BY <1>1, <1>2, <1>3, <1>4, <1>5, <1>6, <1>7, <1>8, <1>9, <1>10, <1>11
     DEF Next, CallerStep
-----------------------------------------------------------------------------
(***************************************************************************)
(* The lock of a session protects its loops.                               *)
(***************************************************************************)

\* How a step of one caller c in session s keeps the protection: it leaves
\* the other callers where they are and the other holders their permits, and
\* c is in a loop afterwards only as a holder.
LEMMA LockStep ==
  ASSUME TypeOK, LockProtects,
         NEW c \in Callers, NEW s \in Sessions,
         NEW pool \in PermitPool(Callers), Sole(pool),
         \A d \in lock[s].holders : d # c => d \in pool.holders,
         lock' = [lock EXCEPT ![s] = pool],
         \A d \in Callers : d # c => pc'[d] = pc[d] /\ session'[d] = session[d],
         pc'[c] \in {"loop1", "loop2"} => session'[c] = s /\ c \in pool.holders,
         session[c] = s \/ pc[c] \notin {"loop1", "loop2"}
  PROVE  LockProtects'
<1>1. ASSUME NEW d \in Callers, pc'[d] \in {"loop1", "loop2"}
      PROVE  d \in lock'[session'[d]].holders
  <2>1. CASE d = c
    BY <1>1, <2>1 DEF TypeOK
  <2>2. CASE d # c
    <3>1. pc[d] \in {"loop1", "loop2"} /\ session'[d] = session[d]
      BY <1>1, <2>2
    <3>2. d \in lock[session[d]].holders
      BY <3>1 DEF LockProtects, InLoop
    <3> QED
      BY <2>2, <3>1, <3>2 DEF TypeOK
  <2> QED
    BY <2>1, <2>2
<1>2. ASSUME NEW r \in Sessions, NEW d \in lock'[r].holders, NEW e \in lock'[r].holders
      PROVE  d = e
  BY DEF LockProtects, Sole, TypeOK
<1> QED
  BY <1>1, <1>2 DEF LockProtects, InLoop

LEMMA EnterLoopProtects ==
  ASSUME TypeOK, LockProtects,
         NEW c \in Callers, NEW s \in Sessions, NEW n \in {1, 2},
         NEW pool \in PermitPool(Callers), Sole(pool),
         \A d \in lock[s].holders : d # c => d \in pool.holders,
         EnterLoop(c, s, n, pool),
         session'[c] = s,
         \A d \in Callers : d # c => session'[d] = session[d],
         session[c] = s \/ pc[c] \notin {"loop1", "loop2"}
  PROVE  LockProtects'
<1> DEFINE joined == Join(pool, c, 1)
<1>1. joined \in PermitPool(Callers) /\ Sole(joined)
  BY PoolType, SoleJoin
<1>2. lock' = [lock EXCEPT ![s] = joined]
  BY DEF EnterLoop
<1>3. \A d \in pool.holders : d \in joined.holders
  BY DEF Join
<1>4. \A d \in Callers : d # c => pc'[d] = pc[d]
  <2>1. CASE CanEnter(pool, 1)
    BY <2>1 DEF EnterLoop, TypeOK
  <2>2. CASE ~CanEnter(pool, 1)
    BY <2>2 DEF EnterLoop, TypeOK
  <2> QED
    BY <2>1, <2>2
<1>5. ASSUME pc'[c] \in {"loop1", "loop2"} PROVE c \in joined.holders
  <2>1. CASE CanEnter(pool, 1)
    BY <2>1, SoleJoin
  <2>2. CASE ~CanEnter(pool, 1)
    BY <1>5, <2>2 DEF EnterLoop, TypeOK, Turn
  <2> QED
    BY <2>1, <2>2
<1> HIDE DEF joined
<1> QED
  BY <1>1, <1>2, <1>3, <1>4, <1>5, LockStep

LEMMA AdmitProtects ==
  ASSUME IInv, NEW c \in Callers, NEW s \in Sessions, NEW pool,
         pc[c] \in {"idle", "slot"}, Admit(c, s, pool),
         session'[c] = s,
         \A d \in Callers : d # c => session'[d] = session[d]
  PROVE  LockProtects'
<1> USE DEF IInv
<1>1. lock[s] \in PermitPool(Callers) /\ Sole(lock[s])
  BY DEF TypeOK, LockProtects, Sole
<1>2. CASE state[s] # "DRAINING"
  <2>1. EnterLoop(c, s, 1, lock[s])
    BY <1>2 DEF Admit
  <2> QED
    BY <1>1, <2>1, EnterLoopProtects
<1>3. CASE state[s] = "DRAINING" /\ ~CanEnter(lock[s], 1)
  <2>1. Join(lock[s], c, 1) \in PermitPool(Callers) /\ Sole(Join(lock[s], c, 1))
    BY <1>1, PoolType, SoleJoin
  <2>2. lock' = [lock EXCEPT ![s] = Join(lock[s], c, 1)] /\ pc' = [pc EXCEPT ![c] = "queued"]
    BY <1>3 DEF Admit
  <2>3. \A d \in lock[s].holders : d \in Join(lock[s], c, 1).holders
    BY DEF Join
  <2> QED
    BY <2>1, <2>2, <2>3, LockStep DEF TypeOK
<1>4. CASE state[s] = "DRAINING" /\ CanEnter(lock[s], 1)
  BY <1>4 DEF Admit, Return, TypeOK, LockProtects, InLoop
<1> QED
  BY <1>2, <1>3, <1>4

LEMMA FinallyProtects ==
  ASSUME IInv, NEW c \in Callers, pc[c] # "idle", NEW how, Finally(c, how)
  PROVE  LockProtects'
<1> USE DEF IInv
<1> DEFINE s == session[c]
<1>1. s \in Sessions /\ session' = session
  BY DEF SessionKnown, Finally
<1>2. lock[s] \in PermitPool(Callers) /\ Sole(lock[s])
  BY <1>1 DEF TypeOK, LockProtects, Sole
<1>3. /\ Leave(lock[s], c) \in PermitPool(Callers)
      /\ Sole(Leave(lock[s], c))
      /\ \A d \in lock[s].holders : d # c => d \in Leave(lock[s], c).holders
  BY <1>2, PoolType, SoleLeave
<1>4. CASE state[s] = "QUEUED"
  <2>1. EnterLoop(c, s, 2, Leave(lock[s], c))
    BY <1>4 DEF Finally
  <2> QED
    BY <1>1, <1>3, <2>1, EnterLoopProtects
<1>5. CASE state[s] # "QUEUED"
  <2>1. lock' = [lock EXCEPT ![s] = Leave(lock[s], c)] /\ pc' = [pc EXCEPT ![c] = "done"]
    BY <1>5 DEF Finally
  <2> HIDE DEF s
  <2> QED
    BY <1>1, <1>3, <2>1, LockStep DEF TypeOK, s
<1> QED
  BY <1>4, <1>5

LEMMA NextProtects ==
  ASSUME IInv, Next
  PROVE  LockProtects'
<1> USE DEF IInv
<1>1. ASSUME NEW c \in Callers, NEW s \in Sessions, Call(c, s)
      PROVE  LockProtects'
  <2>1. /\ pc[c] = "idle"
        /\ session'[c] = s
        /\ \A d \in Callers : d # c => session'[d] = session[d]
    BY <1>1 DEF Call, TypeOK
  <2>2. ASSUME NEW pool, Admit(c, s, pool)
        PROVE  LockProtects'
    BY <2>1, <2>2, AdmitProtects
  <2>3. CASE lock' = lock /\ pc' = [pc EXCEPT ![c] = "slot"]
    BY <2>1, <2>3 DEF TypeOK, LockProtects, InLoop
  <2> QED
    BY <1>1, <2>2, <2>3 DEF Call
<1>2. ASSUME NEW c \in Callers, SlotGranted(c)
      PROVE  LockProtects'
  BY <1>2, AdmitProtects DEF SlotGranted, SessionKnown
<1>3. ASSUME NEW c \in Callers, NEW n \in {1, 2}, TurnGranted(c, n)
      PROVE  LockProtects'
  BY <1>3 DEF TurnGranted, TypeOK, LockProtects, InLoop
<1>4. ASSUME NEW c \in Callers, FirstLoopEnds(c) \/ CancelFirst(c)
      PROVE  LockProtects'
  BY <1>4, FinallyProtects DEF FirstLoopEnds, CancelFirst
<1>5. ASSUME NEW c \in Callers,
             QueuedGranted(c) \/ SecondLoopEnds(c) \/ CancelSecond(c) \/ CancelWaiting(c)
      PROVE  LockProtects'
  <2> DEFINE s == session[c]
  <2>1. s \in Sessions /\ session' = session
    BY <1>5 DEF QueuedGranted, SecondLoopEnds, CancelSecond, CancelWaiting, SessionKnown
  <2>2. lock[s] \in PermitPool(Callers) /\ Sole(lock[s])
    BY <2>1 DEF TypeOK, LockProtects, Sole
  <2>3. /\ Leave(lock[s], c) \in PermitPool(Callers)
        /\ Sole(Leave(lock[s], c))
        /\ \A d \in lock[s].holders : d # c => d \in Leave(lock[s], c).holders
        /\ c \in lock[s].holders => Leave(lock[s], c) = Release(lock[s], c)
    BY <2>2, PoolType, SoleLeave
  <2>4. pc' = [pc EXCEPT ![c] = "done"]
    BY <1>5 DEF QueuedGranted, SecondLoopEnds, CancelSecond, CancelWaiting, Return
  <2>5. pc[c] = "loop2" => c \in lock[s].holders
    BY DEF LockProtects, InLoop
  <2>6. CASE lock' = [lock EXCEPT ![s] = Leave(lock[s], c)]
    <3> HIDE DEF s
    <3> QED
      BY <2>1, <2>3, <2>4, <2>6, LockStep DEF TypeOK, s
  <2>7. CASE lock' = lock
    BY <2>1, <2>4, <2>7 DEF TypeOK, LockProtects, InLoop
  <2> QED
    BY <1>5, <2>3, <2>5, <2>6, <2>7
       DEF QueuedGranted, SecondLoopEnds, CancelSecond, CancelWaiting
<1>6. ASSUME NEW c \in Callers, NEW n \in {1, 2}, TaskEnds(c, n)
      PROVE  LockProtects'
  BY <1>6 DEF TaskEnds, LockProtects, InLoop
<1>7. ASSUME NEW s \in Sessions, Interrupt(s) \/ Wake(s)
      PROVE  LockProtects'
  BY <1>7 DEF Interrupt, Wake, LockProtects, InLoop
<1> QED
  BY <1>1, <1>2, <1>3, <1>4, <1>5, <1>6, <1>7 DEF Next, CallerStep

\* A call keeps its session, and one that is made names one.
LEMMA NextKnown ==
  ASSUME TypeOK, SessionKnown, Next
  PROVE  SessionKnown'
<1>1. ASSUME NEW c \in Callers, NEW s \in Sessions, Call(c, s)
      PROVE  SessionKnown'
  <2>1. session' = [session EXCEPT ![c] = s]
    BY <1>1 DEF Call
  <2>2. \A d \in Callers : d # c => pc'[d] = pc[d]
    BY <1>1 DEF Call, Admit, EnterLoop, Return, TypeOK
  <2> QED
    BY <2>1, <2>2 DEF SessionKnown, TypeOK
<1>2. ASSUME UNCHANGED session, \A d \in Callers : pc'[d] # "idle" => pc[d] # "idle"
      PROVE  SessionKnown'
  BY <1>2 DEF SessionKnown
<1>3. ASSUME NEW c \in Callers, CallerStep(c)
      PROVE  UNCHANGED session /\ \A d \in Callers : pc'[d] # "idle" => pc[d] # "idle"
  <2>1. CASE SlotGranted(c)
    BY <2>1 DEF SlotGranted, Admit, EnterLoop, Return, TypeOK
  <2>2. CASE QueuedGranted(c)
    BY <2>2 DEF QueuedGranted, Return, TypeOK
  <2>3. ASSUME NEW n \in {1, 2}, TurnGranted(c, n)
        PROVE  UNCHANGED session /\ \A d \in Callers : pc'[d] # "idle" => pc[d] # "idle"
    BY <2>3 DEF TurnGranted, TypeOK, Turn
  <2>4. CASE FirstLoopEnds(c)
    BY <2>4 DEF FirstLoopEnds, Finally, EnterLoop, TypeOK
  <2>5. CASE SecondLoopEnds(c)
    BY <2>5 DEF SecondLoopEnds, TypeOK
  <2> QED
    BY <1>3, <2>1, <2>2, <2>3, <2>4, <2>5 DEF CallerStep
<1>4. ASSUME NEW c \in Callers, CancelWaiting(c) \/ CancelFirst(c) \/ CancelSecond(c)
      PROVE  UNCHANGED session /\ \A d \in Callers : pc'[d] # "idle" => pc[d] # "idle"
  <2>1. CASE CancelFirst(c)
    BY <2>1 DEF CancelFirst, Finally, EnterLoop, TypeOK
  <2>2. CASE CancelWaiting(c) \/ CancelSecond(c)
    BY <2>2 DEF CancelWaiting, CancelSecond, Return, TypeOK
  <2> QED
    BY <1>4, <2>1, <2>2
<1>5. ASSUME NEW c \in Callers, NEW n \in {1, 2}, TaskEnds(c, n)
      PROVE  SessionKnown'
  BY <1>5 DEF TaskEnds, SessionKnown
<1>6. ASSUME NEW s \in Sessions, Interrupt(s) \/ Wake(s)
      PROVE  SessionKnown'
  BY <1>6 DEF Interrupt, Wake, SessionKnown
<1> QED
  BY <1>1, <1>2, <1>3, <1>4, <1>5, <1>6 DEF Next

\* The inductive invariant holds in every reachable state.
THEOREM Invariance == Spec => []IInv
<1>1. Init => IInv
  <2> SUFFICES ASSUME Init PROVE IInv
    OBVIOUS
  <2>1. AllFree \in PermitPool(Callers) /\ AllFree.holders = {}
    BY EmptySeq DEF AllFree, PermitPool
  <2> QED
    BY <2>1 DEF Init, IInv, TypeOK, SessionKnown, LockProtects, InLoop,
                States, Places, Outcomes
<1>2. IInv /\ [Next]_vars => IInv'
  <2>1. ASSUME IInv, Next PROVE IInv'
    BY <2>1, NextType, NextKnown, NextProtects DEF IInv
  <2>2. ASSUME IInv, UNCHANGED vars PROVE IInv'
    BY <2>2 DEF vars, IInv, TypeOK, SessionKnown, LockProtects, InLoop
  <2> QED
    BY <2>1, <2>2
<1> QED
  BY <1>1, <1>2, PTL DEF Spec

\* Every variable keeps its type, whatever the environment does.
THEOREM TypeCorrect == Spec => []TypeOK
BY Invariance, PTL DEF IInv

\* Two calls of run() are never inside _process_loop of one session together:
\* no cancellation, interrupt, wake-up or exception can make the finally
\* block of run() or a queued caller break the lock.
THEOREM LoopsExclude == Spec => []LoopExclusive
<1>1. IInv => LoopExclusive
  BY DEF IInv, TypeOK, SessionKnown, LockProtects, LoopExclusive, InLoop
<1> QED
  BY <1>1, Invariance, PTL
-----------------------------------------------------------------------------
(***************************************************************************)
(* Processors that nobody waits for were given up.                         *)
(***************************************************************************)

\* What is true of one call: it has no result of a processor that is alive, and
\* an outcome only once it is through with its first loop.
NoLostResult(c) ==
  /\ <<c, 1>> \in tasks /\ pc[c] # "loop1" =>
       outcome[c] \in {"empty", "cancelled"} \/ (outcome[c] = "error" /\ pc[c] = "done")
  /\ <<c, 2>> \in tasks /\ pc[c] # "loop2" => pc[c] = "done"
  /\ ended[c] # "no" => \/ pc[c] = "loop1" /\ <<c, 1>> \notin tasks
                        \/ pc[c] = "loop2" /\ <<c, 2>> \notin tasks
  /\ pc[c] \in {"idle", "slot", "turn1", "loop1", "queued"} => outcome[c] = "none"

\* A step of one caller leaves the others as they are.
OthersStay(c) ==
  \A d \in Callers \ {c} :
    /\ pc'[d] = pc[d] /\ ended'[d] = ended[d] /\ outcome'[d] = outcome[d]
    /\ \A n \in {1, 2} : <<d, n>> \in tasks' <=> <<d, n>> \in tasks

LEMMA OneCallMoves ==
  ASSUME \A d \in Callers : NoLostResult(d), NEW c \in Callers, OthersStay(c), NoLostResult(c)'
  PROVE  \A d \in Callers : NoLostResult(d)'
<1> SUFFICES ASSUME NEW d \in Callers, d # c PROVE NoLostResult(d)'
  OBVIOUS
<1>1. /\ pc'[d] = pc[d] /\ ended'[d] = ended[d] /\ outcome'[d] = outcome[d]
      /\ <<d, 1>> \in tasks' <=> <<d, 1>> \in tasks
      /\ <<d, 2>> \in tasks' <=> <<d, 2>> \in tasks
  BY DEF OthersStay
<1>2. NoLostResult(d)
  OBVIOUS
<1> QED
  BY <1>1, <1>2 DEF NoLostResult

\* Entering a loop, or the line for it, moves one call.
LEMMA EnterLoopMoves ==
  ASSUME TypeOK, NEW c \in Callers, NEW s \in Sessions, NEW n \in {1, 2}, NEW pool,
         EnterLoop(c, s, n, pool)
  PROVE  /\ \/ pc'[c] = Loop(n) /\ tasks' = tasks \cup {<<c, n>>}
            \/ pc'[c] = Turn(n) /\ tasks' = tasks
         /\ \A d \in Callers \ {c} : pc'[d] = pc[d]
BY DEF EnterLoop, TypeOK

LEMMA AdmitKeepsResults ==
  ASSUME TypeOK, NEW c \in Callers, NEW s \in Sessions, NEW pool, NoLostResult(c),
         pc[c] \in {"idle", "slot"}, Admit(c, s, pool), UNCHANGED ended
  PROVE  OthersStay(c) /\ NoLostResult(c)'
<1>1. outcome[c] = "none" /\ ended[c] = "no" /\ <<c, 1>> \notin tasks /\ <<c, 2>> \notin tasks
  BY DEF NoLostResult
<1>2. CASE state[s] # "DRAINING"
  <2>1. UNCHANGED outcome /\ EnterLoop(c, s, 1, lock[s])
    BY <1>2 DEF Admit
  <2> QED
    BY <1>1, <2>1, EnterLoopMoves DEF NoLostResult, OthersStay, Loop, Turn
<1>3. CASE state[s] = "DRAINING" /\ ~CanEnter(lock[s], 1)
  BY <1>1, <1>3 DEF Admit, NoLostResult, OthersStay, TypeOK
<1>4. CASE state[s] = "DRAINING" /\ CanEnter(lock[s], 1)
  BY <1>1, <1>4 DEF Admit, Return, NoLostResult, OthersStay, TypeOK
<1> QED
  BY <1>2, <1>3, <1>4

LEMMA FinallyKeepsResults ==
  ASSUME TypeOK, NEW c \in Callers, session[c] \in Sessions, NEW how, NoLostResult(c),
         pc[c] \in {"turn1", "loop1"}, Finally(c, how),
         <<c, 1>> \in tasks => how \in {"empty", "cancelled"}
  PROVE  OthersStay(c) /\ NoLostResult(c)'
<1>1. /\ <<c, 2>> \notin tasks
      /\ ended' = [ended EXCEPT ![c] = "no"] /\ outcome' = [outcome EXCEPT ![c] = how]
  BY DEF NoLostResult, Finally
<1>2. CASE state[session[c]] = "QUEUED"
  <2>1. EnterLoop(c, session[c], 2, Leave(lock[session[c]], c))
    BY <1>2 DEF Finally
  <2> QED
    BY <1>1, <2>1, EnterLoopMoves DEF NoLostResult, OthersStay, Loop, Turn, TypeOK
<1>3. CASE state[session[c]] # "QUEUED"
  <2>1. pc' = [pc EXCEPT ![c] = "done"] /\ tasks' = tasks
    BY <1>3 DEF Finally
  <2> QED
    BY <1>1, <2>1 DEF NoLostResult, OthersStay, TypeOK
<1> QED
  BY <1>2, <1>3

LEMMA NextKeepsResults ==
  ASSUME IInv, \A d \in Callers : NoLostResult(d), Next
  PROVE  \A d \in Callers : NoLostResult(d)'
<1> USE DEF IInv
<1>1. ASSUME NEW c \in Callers, NEW s \in Sessions, Call(c, s)
      PROVE  OthersStay(c) /\ NoLostResult(c)'
  <2>1. pc[c] = "idle" /\ UNCHANGED ended /\ NoLostResult(c)
    BY <1>1 DEF Call
  <2>2. CASE \E pool : Admit(c, s, pool)
    BY <2>1, <2>2, AdmitKeepsResults
  <2>3. CASE pc' = [pc EXCEPT ![c] = "slot"] /\ UNCHANGED <<tasks, outcome>>
    BY <2>1, <2>3 DEF NoLostResult, OthersStay, TypeOK
  <2> QED
    BY <1>1, <2>2, <2>3 DEF Call
<1>2. ASSUME NEW c \in Callers, SlotGranted(c)
      PROVE  OthersStay(c) /\ NoLostResult(c)'
  <2>1. session[c] \in Sessions
    BY <1>2 DEF SlotGranted, SessionKnown
  <2> QED
    BY <1>2, <2>1, AdmitKeepsResults DEF SlotGranted
<1>3. ASSUME NEW c \in Callers, QueuedGranted(c) \/ CancelWaiting(c)
      PROVE  OthersStay(c) /\ NoLostResult(c)'
  <2>1. /\ pc[c] \in {"slot", "queued"} /\ UNCHANGED <<ended, tasks>>
        /\ \E how : Return(c, how)
    BY <1>3 DEF QueuedGranted, CancelWaiting
  <2> QED
    BY <2>1 DEF Return, NoLostResult, OthersStay, TypeOK
<1>4. ASSUME NEW c \in Callers, NEW n \in {1, 2}, TurnGranted(c, n)
      PROVE  OthersStay(c) /\ NoLostResult(c)'
  <2>1. /\ pc[c] = Turn(n) /\ UNCHANGED <<ended, outcome>>
        /\ pc' = [pc EXCEPT ![c] = Loop(n)] /\ tasks' = tasks \cup {<<c, n>>}
    BY <1>4 DEF TurnGranted
  <2>2. /\ pc'[c] = Loop(n) /\ Loop(n) \in {"loop1", "loop2"} /\ Turn(n) \in {"turn1", "turn2"}
        /\ \A d \in Callers \ {c} : pc'[d] = pc[d]
    BY <2>1, NamesAreTyped DEF TypeOK
  <2>3. OthersStay(c)
    BY <2>1, <2>2 DEF OthersStay
  <2>4. NoLostResult(c)
    OBVIOUS
  <2>5. CASE n = 1
    <3>1. pc[c] = "turn1" /\ pc'[c] = "loop1" /\ tasks' = tasks \cup {<<c, 1>>}
      BY <2>1, <2>2, <2>5 DEF Turn, Loop
    <3>2. ended[c] = "no" /\ outcome[c] = "none" /\ <<c, 2>> \notin tasks'
      BY <2>4, <3>1 DEF NoLostResult
    <3>3. NoLostResult(c)'
      BY <2>1, <3>1, <3>2 DEF NoLostResult
    <3> QED
      BY <2>3, <3>3
  <2>6. CASE n = 2
    <3>1. pc[c] = "turn2" /\ pc'[c] = "loop2" /\ tasks' = tasks \cup {<<c, 2>>}
      BY <2>1, <2>2, <2>6 DEF Turn, Loop
    <3>2. ended[c] = "no" /\ (<<c, 1>> \in tasks' => <<c, 1>> \in tasks)
      BY <2>4, <3>1 DEF NoLostResult
    <3>3. <<c, 1>> \in tasks => outcome[c] \in {"empty", "cancelled"}
      BY <2>4, <3>1 DEF NoLostResult
    <3>4. NoLostResult(c)'
      BY <2>1, <3>1, <3>2, <3>3 DEF NoLostResult
    <3> QED
      BY <2>3, <3>4
  <2> QED
    BY <2>5, <2>6
<1>5. ASSUME NEW c \in Callers, FirstLoopEnds(c)
      PROVE  OthersStay(c) /\ NoLostResult(c)'
  <2>1. PICK how \in Outcomes : LoopResult(c, how) /\ Finally(c, how)
    BY <1>5 DEF FirstLoopEnds
  <2>2. pc[c] = "loop1" /\ NoLostResult(c) /\ session[c] \in Sessions
    BY <1>5 DEF FirstLoopEnds, SessionKnown
  <2>3. <<c, 1>> \in tasks => how = "empty"
    BY <2>1, <2>2 DEF LoopResult, NoLostResult
  <2> QED
    BY <2>1, <2>2, <2>3, FinallyKeepsResults
<1>6. ASSUME NEW c \in Callers, SecondLoopEnds(c)
      PROVE  OthersStay(c) /\ NoLostResult(c)'
  <2>1. /\ pc[c] = "loop2" /\ UNCHANGED tasks
        /\ ended' = [ended EXCEPT ![c] = "no"] /\ pc' = [pc EXCEPT ![c] = "done"]
        /\ UNCHANGED outcome \/ outcome' = [outcome EXCEPT ![c] = "error"]
    BY <1>6 DEF SecondLoopEnds
  <2> QED
    BY <2>1 DEF NoLostResult, OthersStay, TypeOK
<1>7. ASSUME NEW c \in Callers, NEW n \in {1, 2}, TaskEnds(c, n)
      PROVE  OthersStay(c) /\ NoLostResult(c)'
  <2>1. /\ <<c, n>> \in tasks /\ tasks' = tasks \ {<<c, n>>} /\ UNCHANGED <<pc, outcome>>
        /\ \/ pc[c] = Loop(n) /\ \E how : ended' = [ended EXCEPT ![c] = how]
           \/ pc[c] # Loop(n) /\ UNCHANGED ended
    BY <1>7 DEF TaskEnds
  <2>2. CASE n = 1
    BY <2>1, <2>2 DEF NoLostResult, OthersStay, TypeOK, Loop
  <2>3. CASE n = 2
    BY <2>1, <2>3 DEF NoLostResult, OthersStay, TypeOK, Loop
  <2> QED
    BY <2>2, <2>3
<1>8. ASSUME NEW s \in Sessions, Interrupt(s) \/ Wake(s)
      PROVE  \A d \in Callers : NoLostResult(d)'
  BY <1>8 DEF Interrupt, Wake, NoLostResult
<1>9. ASSUME NEW c \in Callers, CancelFirst(c)
      PROVE  OthersStay(c) /\ NoLostResult(c)'
  <2>1. session[c] \in Sessions
    BY <1>9 DEF CancelFirst, SessionKnown
  <2> QED
    BY <1>9, <2>1, FinallyKeepsResults DEF CancelFirst
<1>10. ASSUME NEW c \in Callers, CancelSecond(c)
       PROVE  OthersStay(c) /\ NoLostResult(c)'
  <2>1. /\ pc[c] \in {"turn2", "loop2"} /\ UNCHANGED tasks
        /\ ended' = [ended EXCEPT ![c] = "no"] /\ pc' = [pc EXCEPT ![c] = "done"]
        /\ outcome' = [outcome EXCEPT ![c] = "cancelled"]
    BY <1>10 DEF CancelSecond, Return
  <2> QED
    BY <2>1 DEF NoLostResult, OthersStay, TypeOK
<1> QED
  BY <1>1, <1>2, <1>3, <1>4, <1>5, <1>6, <1>7, <1>8, <1>9, <1>10, OneCallMoves DEF Next, CallerStep

(***************************************************************************)
(* Whatever is cancelled, interrupted or raised, a processor that nobody   *)
(* waits for belongs to a call that did not get its result from it         *)
(* (coordinator.py, 224-236), for any number of calls and sessions.        *)
(***************************************************************************)
THEOREM OrphansGivenUp == Spec => []OrphansWereGivenUp
<1> DEFINE Kept == \A c \in Callers : NoLostResult(c)
<1>1. Init => Kept
  BY DEF Init, NoLostResult
<1>2. IInv /\ Kept /\ [Next]_vars => Kept'
  <2>1. ASSUME Kept, UNCHANGED vars PROVE Kept'
    BY <2>1 DEF vars, NoLostResult
  <2>2. ASSUME IInv, Kept, Next PROVE Kept'
    BY <2>2, NextKeepsResults
  <2> QED
    BY <2>1, <2>2
<1>3. Kept => OrphansWereGivenUp
  BY DEF NoLostResult, OrphansWereGivenUp
<1> QED
  BY <1>1, <1>2, <1>3, Invariance, PTL DEF Spec
-----------------------------------------------------------------------------
(***************************************************************************)
(* One chain per session, as long as nothing is cancelled or interrupted.  *)
(***************************************************************************)

\* Nothing leaves a processor task behind: a living task is the one its caller
\* waits for in its current loop, and a result is only kept inside a loop.
NoStray ==
  /\ \A c \in Callers : ended[c] # "no" => InLoop(c)
  /\ \A t \in tasks : pc[t[1]] = Loop(t[2]) /\ ended[t[1]] = "no"
  /\ \A s \in Sessions : cancelEvt[s] # "set"

\* How a step of one caller c keeps that: the tasks of c are checked, those of
\* the others are as they were.
LEMMA StrayStep ==
  ASSUME TypeOK, NoStray, NEW c \in Callers,
         \A d \in Callers : d # c => pc'[d] = pc[d] /\ ended'[d] = ended[d],
         \A t \in tasks' : t[1] # c => t \in tasks,
         \A t \in tasks' : t[1] = c => pc'[c] = Loop(t[2]) /\ ended'[c] = "no",
         ended'[c] # "no" => pc'[c] \in {"loop1", "loop2"},
         tasks' \subseteq Callers \X {1, 2},
         \A s \in Sessions : cancelEvt'[s] # "set"
  PROVE  NoStray'
<1>1. ASSUME NEW d \in Callers, ended'[d] # "no" PROVE pc'[d] \in {"loop1", "loop2"}
  BY <1>1 DEF NoStray, InLoop
<1>2. ASSUME NEW t \in tasks' PROVE pc'[t[1]] = Loop(t[2]) /\ ended'[t[1]] = "no"
  <2>1. t[1] \in Callers
    BY <1>2
  <2> QED
    BY <1>2, <2>1 DEF NoStray
<1> QED
  BY <1>1, <1>2 DEF NoStray, InLoop, Loop

LEMMA EnterLoopNoStray ==
  ASSUME TypeOK, NoStray,
         NEW c \in Callers, NEW s \in Sessions, NEW n \in {1, 2}, NEW pool,
         EnterLoop(c, s, n, pool),
         \A t \in tasks : t[1] # c,
         ended' \in [Callers -> {"no", "ok", "error"}],
         ended'[c] = "no", \A d \in Callers : d # c => ended'[d] = ended[d]
  PROVE  NoStray'
<1>1. CASE CanEnter(pool, 1)
  <2>1. /\ pc' = [pc EXCEPT ![c] = Loop(n)]
        /\ tasks' = tasks \cup {<<c, n>>}
        /\ cancelEvt' = [cancelEvt EXCEPT ![s] = "clear"]
    BY <1>1 DEF EnterLoop
  <2>2. \A r \in Sessions : cancelEvt'[r] # "set"
    BY <2>1 DEF TypeOK, NoStray
  <2>3. \A t \in tasks' : t[1] = c => pc'[c] = Loop(t[2]) /\ ended'[c] = "no"
    BY <2>1 DEF TypeOK
  <2> QED
    BY <2>1, <2>2, <2>3, StrayStep DEF TypeOK
<1>2. CASE ~CanEnter(pool, 1)
  <2>1. /\ pc' = [pc EXCEPT ![c] = Turn(n)]
        /\ tasks' = tasks
    BY <1>2 DEF EnterLoop
  <2>2. \A r \in Sessions : cancelEvt'[r] # "set"
    BY <1>2 DEF EnterLoop, TypeOK, NoStray
  <2> QED
    BY <2>1, <2>2, StrayStep DEF TypeOK
<1> QED
  BY <1>1, <1>2

LEMMA AdmitNoStray ==
  ASSUME TypeOK, NoStray,
         NEW c \in Callers, NEW s \in Sessions, NEW pool, Admit(c, s, pool),
         pc[c] \in {"idle", "slot"}, UNCHANGED ended
  PROVE  NoStray'
<1>1. ended[c] = "no" /\ \A t \in tasks : t[1] # c
  BY DEF NoStray, InLoop, Loop, TypeOK
<1>2. CASE state[s] # "DRAINING"
  BY <1>1, <1>2, EnterLoopNoStray DEF Admit, TypeOK
<1>3. CASE state[s] = "DRAINING"
  <2>1. /\ pc' = [pc EXCEPT ![c] = "queued"] \/ pc' = [pc EXCEPT ![c] = "done"]
        /\ tasks' = tasks /\ cancelEvt' = cancelEvt
    BY <1>3 DEF Admit, Return
  <2>2. \A r \in Sessions : cancelEvt'[r] # "set"
    BY <2>1 DEF NoStray
  <2> QED
    BY <1>1, <2>1, <2>2, StrayStep DEF TypeOK
<1> QED
  BY <1>2, <1>3

LEMMA NextNoStray ==
  ASSUME IInv, NoStray, Next, "cancel" \notin Faults, "interrupt" \notin Faults
  PROVE  NoStray'
<1> USE DEF IInv
<1>1. ASSUME NEW c \in Callers, NEW s \in Sessions, Call(c, s)
      PROVE  NoStray'
  <2>1. pc[c] = "idle" /\ ended' = ended
    BY <1>1 DEF Call
  <2>2. ASSUME NEW pool, Admit(c, s, pool) PROVE NoStray'
    BY <2>1, <2>2, AdmitNoStray
  <2>3. CASE pc' = [pc EXCEPT ![c] = "slot"] /\ UNCHANGED <<cancelEvt, tasks>>
    BY <2>1, <2>3 DEF NoStray, InLoop, Loop, TypeOK
  <2> QED
    BY <1>1, <2>2, <2>3 DEF Call
<1>2. ASSUME NEW c \in Callers, SlotGranted(c)
      PROVE  NoStray'
  BY <1>2, AdmitNoStray DEF SlotGranted, SessionKnown
<1>3. ASSUME NEW c \in Callers, QueuedGranted(c)
      PROVE  NoStray'
  BY <1>3 DEF QueuedGranted, Return, NoStray, InLoop, Loop, TypeOK
<1>4. ASSUME NEW c \in Callers, NEW n \in {1, 2}, TurnGranted(c, n)
      PROVE  NoStray'
  <2>1. ended[c] = "no" /\ \A t \in tasks : t[1] # c
    BY <1>4 DEF TurnGranted, NoStray, InLoop, Loop, Turn, TypeOK
  <2>2. \A r \in Sessions : cancelEvt'[r] # "set"
    BY <1>4 DEF TurnGranted, NoStray, TypeOK
  <2>3. /\ pc' = [pc EXCEPT ![c] = Loop(n)] /\ ended' = ended
        /\ tasks' = tasks \cup {<<c, n>>}
    BY <1>4 DEF TurnGranted
  <2>4. \A t \in tasks' : t[1] = c => pc'[c] = Loop(t[2]) /\ ended'[c] = "no"
    BY <2>1, <2>3 DEF TypeOK
  <2> QED
    BY <2>1, <2>2, <2>3, <2>4, StrayStep DEF TypeOK
<1>5. ASSUME NEW c \in Callers, FirstLoopEnds(c)
      PROVE  NoStray'
  <2>1. session[c] \in Sessions /\ pc[c] = "loop1"
    BY <1>5 DEF FirstLoopEnds, SessionKnown
  <2>2. PICK how \in Outcomes : LoopResult(c, how) /\ Finally(c, how)
    BY <1>5 DEF FirstLoopEnds
  <2>3. \A t \in tasks : t[1] # c
    BY <2>1, <2>2 DEF LoopResult, NoStray
  <2>4. ended' = [ended EXCEPT ![c] = "no"]
    BY <2>2 DEF Finally
  <2>5. CASE state[session[c]] = "QUEUED"
    BY <2>1, <2>2, <2>3, <2>4, <2>5, EnterLoopNoStray DEF Finally, TypeOK
  <2>6. CASE state[session[c]] # "QUEUED"
    <3>1. /\ pc' = [pc EXCEPT ![c] = "done"] /\ tasks' = tasks
      BY <2>2, <2>6 DEF Finally
    <3>2. \A r \in Sessions : cancelEvt'[r] # "set"
      BY <2>1, <2>2, <2>6 DEF Finally, NoStray, TypeOK
    <3> QED
      BY <2>3, <2>4, <3>1, <3>2, StrayStep DEF TypeOK
  <2> QED
    BY <2>5, <2>6
<1>6. ASSUME NEW c \in Callers, SecondLoopEnds(c)
      PROVE  NoStray'
  <2>1. session[c] \in Sessions /\ pc[c] = "loop2"
    BY <1>6 DEF SecondLoopEnds, SessionKnown
  <2>2. \A t \in tasks : t[1] # c
    BY <1>6, <2>1 DEF SecondLoopEnds, LoopResult, NoStray
  <2>3. /\ pc' = [pc EXCEPT ![c] = "done"] /\ tasks' = tasks
        /\ ended' = [ended EXCEPT ![c] = "no"]
        /\ cancelEvt' = [cancelEvt EXCEPT ![session[c]] = "absent"]
    BY <1>6 DEF SecondLoopEnds
  <2>4. \A r \in Sessions : cancelEvt'[r] # "set"
    BY <2>1, <2>3 DEF NoStray, TypeOK
  <2> QED
    BY <2>2, <2>3, <2>4, StrayStep DEF TypeOK
<1>7. ASSUME NEW c \in Callers, NEW n \in {1, 2}, TaskEnds(c, n)
      PROVE  NoStray'
  <2>1. pc[c] = Loop(n)
    BY <1>7 DEF TaskEnds, NoStray
  <2>2. /\ pc' = pc /\ cancelEvt' = cancelEvt /\ tasks' = tasks \ {<<c, n>>}
        /\ \E how : ended' = [ended EXCEPT ![c] = how]
    BY <1>7, <2>1 DEF TaskEnds
  <2>3. \A t \in tasks' : t[1] # c
    <3> SUFFICES ASSUME NEW t \in tasks, t[1] = c, t # <<c, n>> PROVE FALSE
      BY <2>2
    <3>1. t = <<c, t[2]>> /\ t[2] \in {1, 2} /\ Loop(t[2]) = Loop(n)
      BY <2>1 DEF NoStray, TypeOK
    <3> QED
      BY <3>1 DEF Loop
  <2> QED
    BY <2>1, <2>2, <2>3, StrayStep, NamesAreTyped DEF TypeOK, NoStray
<1>8. ASSUME NEW s \in Sessions, Wake(s)
      PROVE  NoStray'
  BY <1>8 DEF Wake, NoStray, InLoop
<1> QED
  BY <1>1, <1>2, <1>3, <1>4, <1>5, <1>6, <1>7, <1>8
     DEF Next, CallerStep, Interrupt, CancelWaiting, CancelFirst, CancelSecond

\* The two invariants give the docstring's promise.
LEMMA ChainFromInv == IInv /\ NoStray => OneChain
<1> SUFFICES ASSUME IInv, NoStray, NEW t \in tasks, NEW u \in tasks,
                    session[t[1]] = session[u[1]]
             PROVE  t = u
  BY DEF OneChain
<1>1. /\ t = <<t[1], t[2]>> /\ t[1] \in Callers /\ t[2] \in {1, 2}
      /\ u = <<u[1], u[2]>> /\ u[1] \in Callers /\ u[2] \in {1, 2}
  BY DEF IInv, TypeOK
<1>2. pc[t[1]] = Loop(t[2]) /\ pc[u[1]] = Loop(u[2])
  BY DEF NoStray
<1>3. t[1] = u[1]
  BY <1>1, <1>2 DEF IInv, LockProtects, InLoop, Loop, SessionKnown, TypeOK
<1>4. t[2] = u[2]
  BY <1>1, <1>2, <1>3 DEF Loop
<1> QED
  BY <1>1, <1>3, <1>4

\* The stronger invariant of a run without cancellations and interrupts.
LEMMA ChainInvariance ==
  ASSUME "cancel" \notin Faults, "interrupt" \notin Faults
  PROVE  Spec => [](IInv /\ NoStray)
<1>1. Init => NoStray
  BY DEF Init, NoStray, InLoop
<1>2. IInv /\ NoStray /\ [Next]_vars => NoStray'
  <2>1. ASSUME NoStray, UNCHANGED vars PROVE NoStray'
    BY <2>1 DEF vars, NoStray, InLoop
  <2> QED
    BY <2>1, NextNoStray
<1> QED
  BY <1>1, <1>2, Invariance, PTL DEF Spec

-----------------------------------------------------------------------------
(***************************************************************************)
(* The coordinator implements the abstract specification.                  *)
(***************************************************************************)

\* One processor task at most starts or ends.
OneTaskMoves ==
  \/ tasks' = tasks
  \/ \E c \in Callers, n \in {1, 2} :
       tasks' = tasks \cup {<<c, n>>} \/ tasks' = tasks \ {<<c, n>>}

\* A step starts or ends one processor task at most, and moves the task of no
\* caller to another session.
LEMMA TaskStep ==
  ASSUME IInv, NoStray, Next
  PROVE  OneTaskMoves /\ \A t \in tasks : session'[t[1]] = session[t[1]]
<1> USE DEF IInv
<1>1. \A t \in tasks : t[1] \in Callers /\ pc[t[1]] \in {"loop1", "loop2"}
  BY DEF NoStray, TypeOK, Loop
<1>2. ASSUME NEW c \in Callers, NEW s \in Sessions, Call(c, s)
      PROVE  \A t \in tasks : session'[t[1]] = session[t[1]]
  BY <1>1, <1>2 DEF Call, TypeOK
<1>3. ASSUME ~\E c \in Callers, s \in Sessions : Call(c, s)
      PROVE  session' = session
  BY <1>3 DEF Next, CallerStep, SlotGranted, QueuedGranted, TurnGranted, FirstLoopEnds,
     SecondLoopEnds, Finally, TaskEnds, Interrupt, Wake, CancelWaiting, CancelFirst, CancelSecond
<1>4. ASSUME NEW c \in Callers, NEW n \in {1, 2}, NEW s, NEW pool, EnterLoop(c, s, n, pool)
      PROVE  OneTaskMoves
  BY <1>4 DEF EnterLoop, OneTaskMoves
<1>5. ASSUME NEW c \in Callers, NEW s, NEW pool, Admit(c, s, pool)
      PROVE  OneTaskMoves
  BY <1>4, <1>5 DEF Admit, OneTaskMoves
<1>6. ASSUME NEW c \in Callers, NEW how, Finally(c, how)
      PROVE  OneTaskMoves
  BY <1>4, <1>6 DEF Finally, OneTaskMoves
<1>7. OneTaskMoves
  <2>1. ASSUME NEW c \in Callers, NEW s \in Sessions, Call(c, s) PROVE OneTaskMoves
    BY <1>5, <2>1 DEF Call, OneTaskMoves
  <2>2. ASSUME NEW c \in Callers, CallerStep(c) PROVE OneTaskMoves
    BY <1>5, <1>6, <2>2 DEF CallerStep, SlotGranted, QueuedGranted, TurnGranted,
                            FirstLoopEnds, SecondLoopEnds, OneTaskMoves
  <2>3. ASSUME NEW c \in Callers, NEW n \in {1, 2}, TaskEnds(c, n) PROVE OneTaskMoves
    BY <2>3 DEF TaskEnds, OneTaskMoves
  <2>4. ASSUME NEW c \in Callers, CancelWaiting(c) \/ CancelFirst(c) \/ CancelSecond(c)
        PROVE OneTaskMoves
    BY <1>6, <2>4 DEF CancelWaiting, CancelFirst, CancelSecond, OneTaskMoves
  <2>5. ASSUME NEW s \in Sessions, Interrupt(s) \/ Wake(s) PROVE OneTaskMoves
    BY <2>5 DEF Interrupt, Wake, OneTaskMoves
  <2> QED
    BY <2>1, <2>2, <2>3, <2>4, <2>5 DEF Next
<1> QED
  BY <1>2, <1>3, <1>7

\* The processor tasks of one session: the value the mapping gives to the
\* chains of the abstract specification.
Mapped == [s \in Sessions |-> {t \in tasks : session[t[1]] = s}]

\* Under the mapping a step of the program is a step of SerialChains.
LEMMA StepRefines ==
  ASSUME IInv, NoStray, IInv', NoStray', Next
  PROVE  Serial!Next \/ Mapped' = Mapped
<1> USE DEF IInv
<1>0. OneChain /\ OneChain'
  <2>1. OneChain
    BY ChainFromInv
  <2>2. OneChain'
    BY ChainFromInv, PTL
  <2> QED
    BY <2>1, <2>2
<1>1. \A t \in tasks : session'[t[1]] = session[t[1]]
  BY TaskStep
<1>2. CASE tasks' = tasks
  BY <1>1, <1>2 DEF Mapped
<1>3. ASSUME NEW c \in Callers, NEW n \in {1, 2}, <<c, n>> \notin tasks,
             tasks' = tasks \cup {<<c, n>>}
      PROVE  Serial!Next
  <2> DEFINE s == session'[c]
             k == <<c, n>>
  <2>1. s \in Sessions /\ k \in Callers \X {1, 2}
    BY <1>3 DEF NoStray, SessionKnown, Loop, TypeOK
  <2>2. \A t \in tasks : session[t[1]] # s
    BY <1>0, <1>1, <1>3 DEF OneChain
  <2>3. Mapped[s] = {}
    BY <2>1, <2>2 DEF Mapped
  <2>4. Mapped' = [Mapped EXCEPT ![s] = {k}]
    <3>1. \A t \in tasks' : session'[t[1]] = s => t = k
      BY <1>1, <1>3, <2>2
    <3>2. Mapped'[s] = {k}
      BY <1>3, <2>1, <3>1 DEF Mapped
    <3>3. ASSUME NEW r \in Sessions, r # s PROVE Mapped'[r] = Mapped[r]
      BY <1>1, <1>3, <3>3 DEF Mapped
    <3> HIDE DEF s, k
    <3> QED
      BY <2>1, <3>2, <3>3 DEF Mapped
  <2>5. Serial!Start(s, k)
    BY <2>3, <2>4 DEF Serial!Start, Mapped
  <2> HIDE DEF s, k
  <2> QED
    BY <2>1, <2>5 DEF Serial!Next, Serial!Start, Serial!End
<1>4. ASSUME NEW c \in Callers, NEW n \in {1, 2}, <<c, n>> \in tasks,
             tasks' = tasks \ {<<c, n>>}
      PROVE  Serial!Next
  <2> DEFINE s == session[c]
             k == <<c, n>>
  <2>1. s \in Sessions /\ k \in Callers \X {1, 2}
    BY <1>4 DEF NoStray, SessionKnown, Loop, TypeOK
  <2>2. \A t \in tasks : session[t[1]] = s => t = k
    BY <1>0, <1>4 DEF OneChain
  <2>3. Mapped[s] = {k}
    BY <1>4, <2>1, <2>2 DEF Mapped
  <2>4. Mapped' = [Mapped EXCEPT ![s] = {}]
    BY <1>1, <1>4, <2>1, <2>2 DEF Mapped
  <2>5. Serial!End(s, k)
    BY <2>3, <2>4 DEF Serial!End, Mapped
  <2> HIDE DEF s, k
  <2> QED
    BY <2>1, <2>5 DEF Serial!Next, Serial!Start, Serial!End
<1>5. ASSUME NEW c \in Callers, NEW n \in {1, 2},
             tasks' = tasks \cup {<<c, n>>} \/ tasks' = tasks \ {<<c, n>>}
      PROVE  Serial!Next \/ Mapped' = Mapped
  <2>1. CASE tasks' = tasks
    BY <1>2, <2>1
  <2>2. CASE tasks' # tasks
    BY <1>3, <1>4, <1>5, <2>2
  <2> QED
    BY <2>1, <2>2
<1> QED
  BY <1>2, <1>5, TaskStep DEF OneTaskMoves

\* Processor tasks behave as the chains of the abstract specification: one
\* starts only in a session where none is alive.
THEOREM CoordinatorRefines ==
  ASSUME "cancel" \notin Faults, "interrupt" \notin Faults
  PROVE  Spec => ImplementsSerialChains
<1>1. Init => Serial!Init
  BY DEF Init, Serial!Init
<1>2. ASSUME IInv, NoStray, IInv', NoStray', [Next]_vars
      PROVE  Serial!Next \/ Mapped' = Mapped
  BY <1>2, StepRefines DEF vars, Mapped
<1>3. (IInv /\ NoStray) /\ (IInv /\ NoStray)' /\ [Next]_vars
        => [Serial!Next]_([s \in Sessions |-> {t \in tasks : session[t[1]] = s}])
  BY <1>2 DEF Mapped
<1> QED
  BY <1>1, <1>3, ChainInvariance, PTL DEF Spec, ImplementsSerialChains, Serial!Spec
-----------------------------------------------------------------------------
(***************************************************************************)
(* What a call takes it gives back.                                        *)
(***************************************************************************)
Processing == {"turn1", "loop1", "turn2", "loop2"}
AtLock     == Processing \cup {"queued"}
AtSlot     == {"slot", "turn1", "loop1", "queued"}

\* Those at the lock of a session are calls for it that have come that far.
LockUsers ==
  \A s \in Sessions :
    /\ OrderlyPool(lock[s])
    /\ \A c \in Callers : Uses(lock[s], c) => session[c] = s /\ pc[c] \in AtLock

\* The event of a session belongs to a loop that runs.
EventUsed ==
  \A s \in Sessions :
    cancelEvt[s] # "absent" => \E c \in Callers : InLoop(c) /\ session[c] = s

\* Whoever waits for the completion of an idle session returns, and of no other.
SignalTrue == \A s \in Sessions : completed[s] = (state[s] = "IDLE")

\* A loop ends with an error only where processors may raise.
FailuresAllowed == "fail" \notin Faults => \A c \in Callers : ended[c] # "error"

\* Those at the semaphore are calls before the end of their first loop; who
\* stands in line has not gone on.
SlotUsers ==
  /\ OrderlyPool(slots)
  /\ \A c \in Callers : Uses(slots, c) => pc[c] \in AtSlot
  /\ \A c \in Callers : InLine(slots.queue, c) => pc[c] = "slot"

\* A session that is not idle has a call that will see to it.
SomeoneProcesses ==
  \A s \in Sessions :
    state[s] # "IDLE" => \E c \in Callers : session[c] = s /\ pc[c] \in Processing

\* What a step of caller c leaves alone: the other callers and sessions.
MovesAlone(c, s) ==
  /\ session'[c] = s /\ (session[c] = s \/ pc[c] = "idle")
  /\ \A d \in Callers : d # c => pc'[d] = pc[d] /\ session'[d] = session[d]
  /\ \A r \in Sessions : r # s =>
       /\ state'[r] = state[r] /\ completed'[r] = completed[r]
       /\ cancelEvt'[r] = cancelEvt[r] /\ lock'[r] = lock[r]

\* How such a step treats the lock and the event of its session, the pair of
\* state and completion, and the semaphore.
LockMove(c, s) ==
  \/ lock'[s] = lock[s] /\ (pc[c] \in AtLock => pc'[c] \in AtLock)
  \/ lock'[s] = Join(lock[s], c, 1) /\ pc[c] \in {"idle", "slot"} /\ pc'[c] \in AtLock
  \/ lock'[s] = Leave(lock[s], c)
  \/ lock'[s] = Join(Leave(lock[s], c), c, 1) /\ pc'[c] \in AtLock

EventMove(c, s) ==
  \/ pc'[c] \in {"loop1", "loop2"}
  \/ cancelEvt'[s] = cancelEvt[s] /\ ~InLoop(c)
  \/ cancelEvt'[s] = "absent"

StateMove(s) ==
  \/ state'[s] # "IDLE" /\ completed'[s] = FALSE
  \/ state'[s] = "IDLE" /\ completed'[s] = TRUE
  \/ state'[s] = state[s] /\ completed'[s] = completed[s]
  \/ state[s] = "DRAINING" /\ state'[s] = "QUEUED" /\ completed'[s] = completed[s]

WorkMove(c, s) ==
  \/ pc'[c] \in Processing
  \/ state'[s] = "IDLE"
  \/ pc[c] \notin Processing /\ (state'[s] # "IDLE" => state[s] # "IDLE")

SlotMove(c) ==
  \/ /\ slots' = slots
     /\ pc[c] \in AtSlot => pc'[c] \in AtSlot
     /\ pc[c] = "slot" => c \in slots.holders
  \/ /\ slots' = Join(slots, c, MaxConcurrent) /\ pc[c] = "idle"
     /\ pc'[c] = "slot" \/ (pc'[c] \in AtSlot /\ CanEnter(slots, MaxConcurrent))
  \/ slots' = Leave(slots, c)
  \/ slots' = Leave(Join(slots, c, MaxConcurrent), c) /\ pc[c] = "idle"

\* The shape of every step of a caller.
Shape(c, s) ==
  /\ MovesAlone(c, s) /\ LockMove(c, s) /\ EventMove(c, s) /\ StateMove(s)
  /\ ("cancel" \notin Faults => SlotMove(c))
  /\ ("cancel" \notin Faults /\ "fail" \notin Faults => WorkMove(c, s))

LEMMA AdmitShape ==
  ASSUME IInv, NEW c \in Callers, NEW s \in Sessions, NEW pool, Admit(c, s, pool),
         pc[c] \in {"idle", "slot"}, session'[c] = s, session[c] = s \/ pc[c] = "idle",
         \A d \in Callers : d # c => session'[d] = session[d]
  PROVE  /\ MovesAlone(c, s) /\ LockMove(c, s) /\ EventMove(c, s) /\ StateMove(s)
         /\ WorkMove(c, s)
         /\ \/ slots' = pool /\ pc'[c] \in AtSlot \ {"slot"}
            \/ slots' = Leave(pool, c)
<1> USE DEF IInv, AtLock, AtSlot, Processing
<1>1. CASE state[s] # "DRAINING"
  <2>1. /\ lock'[s] = Join(lock[s], c, 1)
        /\ pc'[c] \in {"loop1", "turn1"}
        /\ \A d \in Callers : d # c => pc'[d] = pc[d]
        /\ state' = [state EXCEPT ![s] = "DRAINING"]
        /\ slots' = pool
    BY <1>1 DEF Admit, EnterLoop, Loop, Turn, TypeOK
  <2>2. completed'[s] = FALSE /\ \A r \in Sessions : r # s => completed'[r] = completed[r]
    BY <1>1 DEF Admit, TypeOK
  <2>3. \A r \in Sessions : r # s => cancelEvt'[r] = cancelEvt[r] /\ lock'[r] = lock[r]
    BY <1>1 DEF Admit, EnterLoop, TypeOK
  <2>4. EventMove(c, s)
    BY <1>1 DEF Admit, EnterLoop, Loop, Turn, TypeOK, EventMove, InLoop
  <2> QED
    BY <2>1, <2>2, <2>3, <2>4 DEF MovesAlone, LockMove, StateMove, WorkMove, TypeOK
<1>2. CASE state[s] = "DRAINING" /\ ~CanEnter(lock[s], 1)
  <2>1. /\ lock' = [lock EXCEPT ![s] = Join(lock[s], c, 1)]
        /\ pc' = [pc EXCEPT ![c] = "queued"]
        /\ state' = [state EXCEPT ![s] = "QUEUED"]
        /\ slots' = pool /\ UNCHANGED <<completed, cancelEvt>>
    BY <1>2 DEF Admit
  <2> QED
    BY <1>2, <2>1 DEF MovesAlone, LockMove, EventMove, StateMove, WorkMove, TypeOK, InLoop
<1>3. CASE state[s] = "DRAINING" /\ CanEnter(lock[s], 1)
  <2>1. /\ lock' = lock
        /\ pc' = [pc EXCEPT ![c] = "done"]
        /\ state' = [state EXCEPT ![s] = "QUEUED"]
        /\ slots' = Leave(pool, c) /\ UNCHANGED <<completed, cancelEvt>>
    BY <1>3 DEF Admit, Return
  <2> QED
    BY <1>3, <2>1 DEF MovesAlone, LockMove, EventMove, StateMove, WorkMove, TypeOK, InLoop
<1> QED
  BY <1>1, <1>2, <1>3

LEMMA FinallyShape ==
  ASSUME IInv, NEW c \in Callers, pc[c] \in {"turn1", "loop1"}, NEW how, Finally(c, how)
  PROVE  Shape(c, session[c])
<1> DEFINE s == session[c]
<1>1. s \in Sessions /\ session' = session /\ slots' = Leave(slots, c)
  BY DEF IInv, SessionKnown, Finally
<1> HIDE DEF s
<1> USE DEF IInv, AtLock, AtSlot, Processing
<1>2. CASE state[s] = "QUEUED"
  <2>1. /\ lock'[s] = Join(Leave(lock[s], c), c, 1)
        /\ pc'[c] \in {"loop2", "turn2"}
        /\ \A d \in Callers : d # c => pc'[d] = pc[d]
        /\ state' = [state EXCEPT ![s] = "DRAINING"]
    BY <1>1, <1>2 DEF Finally, EnterLoop, Loop, Turn, TypeOK, s
  <2>2. completed'[s] = FALSE /\ \A r \in Sessions : r # s => completed'[r] = completed[r]
    BY <1>1, <1>2 DEF Finally, TypeOK, s
  <2>3. \A r \in Sessions : r # s => cancelEvt'[r] = cancelEvt[r] /\ lock'[r] = lock[r]
    BY <1>1, <1>2 DEF Finally, EnterLoop, TypeOK, s
  <2>4. EventMove(c, s)
    BY <1>1, <1>2 DEF Finally, EnterLoop, Loop, Turn, TypeOK, EventMove, InLoop, s
  <2>5. MovesAlone(c, s)
    BY <1>1, <2>1, <2>2, <2>3 DEF MovesAlone, TypeOK, s
  <2>6. LockMove(c, s) /\ StateMove(s) /\ WorkMove(c, s) /\ SlotMove(c)
    BY <1>1, <2>1, <2>2 DEF LockMove, StateMove, WorkMove, SlotMove, TypeOK
  <2> QED
    BY <2>4, <2>5, <2>6 DEF Shape, s
<1>3. CASE state[s] # "QUEUED"
  <2>1. /\ lock' = [lock EXCEPT ![s] = Leave(lock[s], c)]
        /\ pc' = [pc EXCEPT ![c] = "done"]
        /\ state' = [state EXCEPT ![s] = "IDLE"]
        /\ cancelEvt' = [cancelEvt EXCEPT ![s] = IF InLoop(c) THEN "absent" ELSE cancelEvt[s]]
    BY <1>1, <1>3 DEF Finally, s
  <2>2. completed'[s] = TRUE /\ \A r \in Sessions : r # s => completed'[r] = completed[r]
    BY <1>1, <1>3 DEF Finally, TypeOK, s
  <2>3. MovesAlone(c, s)
    BY <1>1, <2>1, <2>2 DEF MovesAlone, TypeOK, s
  <2>4. LockMove(c, s) /\ EventMove(c, s) /\ StateMove(s) /\ WorkMove(c, s) /\ SlotMove(c)
    BY <1>1, <2>1, <2>2
       DEF LockMove, EventMove, StateMove, WorkMove, SlotMove, TypeOK
  <2> QED
    BY <2>3, <2>4 DEF Shape, s
<1> QED
  BY <1>2, <1>3

\* Calls, and callers that go on or are cancelled, have that shape.
LEMMA CallShaped ==
  ASSUME IInv, NEW c \in Callers, NEW s \in Sessions, Call(c, s)
  PROVE  Shape(c, s)
<1> USE DEF IInv
<1>1. pc[c] = "idle" /\ session' = [session EXCEPT ![c] = s]
  BY DEF Call
<1>2. session'[c] = s /\ \A d \in Callers : d # c => session'[d] = session[d]
  BY <1>1 DEF TypeOK
<1>3. ASSUME NEW pool, Admit(c, s, pool),
             pool = slots \/ (pool = Join(slots, c, MaxConcurrent) /\ CanEnter(slots, MaxConcurrent))
      PROVE  Shape(c, s)
  <2>1. /\ MovesAlone(c, s) /\ LockMove(c, s) /\ EventMove(c, s) /\ StateMove(s)
        /\ WorkMove(c, s)
        /\ \/ slots' = pool /\ pc'[c] \in AtSlot \ {"slot"}
           \/ slots' = Leave(pool, c)
    BY <1>1, <1>2, <1>3, AdmitShape
  <2>2. SlotMove(c)
    BY <1>1, <1>3, <2>1 DEF SlotMove, AtSlot
  <2> QED
    BY <2>1, <2>2 DEF Shape
<1>4. CASE /\ slots' = Join(slots, c, MaxConcurrent)
           /\ pc' = [pc EXCEPT ![c] = "slot"]
           /\ UNCHANGED <<state, completed, cancelEvt, lock>>
  BY <1>1, <1>2, <1>4
     DEF Shape, MovesAlone, LockMove, EventMove, StateMove, WorkMove, SlotMove, TypeOK,
         AtLock, AtSlot, Processing, InLoop
<1> QED
  BY <1>1, <1>3, <1>4 DEF Call

LEMMA CallerShaped ==
  ASSUME IInv, FailuresAllowed, NEW c \in Callers,
         CallerStep(c) \/ CancelWaiting(c) \/ CancelFirst(c) \/ CancelSecond(c)
  PROVE  session[c] \in Sessions /\ Shape(c, session[c])
<1> DEFINE s == session[c]
<1> USE DEF IInv
<1>0. s \in Sessions
  BY DEF CallerStep, SlotGranted, QueuedGranted, TurnGranted, Turn, FirstLoopEnds,
         SecondLoopEnds, CancelWaiting, CancelFirst, CancelSecond, SessionKnown
<1>1. CASE SlotGranted(c)
  <2>1. Admit(c, s, slots) /\ session' = session /\ pc[c] = "slot" /\ c \in slots.holders
    BY <1>1 DEF SlotGranted
  <2>2. /\ MovesAlone(c, s) /\ LockMove(c, s) /\ EventMove(c, s) /\ StateMove(s)
        /\ WorkMove(c, s)
        /\ \/ slots' = slots /\ pc'[c] \in AtSlot \ {"slot"}
           \/ slots' = Leave(slots, c)
    BY <1>0, <2>1, AdmitShape
  <2>3. SlotMove(c)
    BY <2>1, <2>2 DEF SlotMove
  <2> QED
    BY <1>0, <2>2, <2>3 DEF Shape
<1>2. CASE QueuedGranted(c)
  <2>1. /\ pc[c] = "queued" /\ session' = session
        /\ lock' = [lock EXCEPT ![s] = Leave(lock[s], c)]
        /\ pc' = [pc EXCEPT ![c] = "done"]
        /\ slots' = Leave(slots, c)
        /\ UNCHANGED <<state, completed, cancelEvt>>
    BY <1>2 DEF QueuedGranted, Return, Leave
  <2> HIDE DEF s
  <2> QED
    BY <1>0, <2>1
       DEF Shape, MovesAlone, LockMove, EventMove, StateMove, WorkMove, SlotMove, TypeOK,
           AtLock, AtSlot, Processing, InLoop, s
<1>3. ASSUME NEW n \in {1, 2}, TurnGranted(c, n)
      PROVE  Shape(c, s)
  <2>1. /\ pc[c] = Turn(n) /\ session' = session
        /\ pc' = [pc EXCEPT ![c] = Loop(n)]
        /\ cancelEvt' = [cancelEvt EXCEPT ![s] = "clear"]
        /\ UNCHANGED <<state, completed, lock, slots>>
    BY <1>3 DEF TurnGranted
  <2> HIDE DEF s
  <2> QED
    BY <1>0, <2>1
       DEF Shape, MovesAlone, LockMove, EventMove, StateMove, WorkMove, SlotMove, TypeOK,
           AtLock, AtSlot, Processing, Turn, Loop, s
<1>4. CASE FirstLoopEnds(c) \/ CancelFirst(c)
  BY <1>0, <1>4, FinallyShape DEF FirstLoopEnds, CancelFirst
<1>5. CASE SecondLoopEnds(c)
  <2>1. c \in lock[s].holders
    BY <1>5 DEF SecondLoopEnds, LockProtects, InLoop
  <2>2. /\ pc[c] = "loop2" /\ session' = session /\ slots' = slots
        /\ lock' = [lock EXCEPT ![s] = Leave(lock[s], c)]
        /\ pc' = [pc EXCEPT ![c] = "done"]
        /\ cancelEvt' = [cancelEvt EXCEPT ![s] = "absent"]
    BY <1>5, <2>1 DEF SecondLoopEnds, Leave
  <2>3. /\ \/ state' = [state EXCEPT ![s] = "IDLE"] /\ completed' = [completed EXCEPT ![s] = TRUE]
           \/ UNCHANGED <<state, completed>> /\ ended[c] = "error"
    BY <1>5 DEF SecondLoopEnds, LoopResult
  <2> HIDE DEF s
  <2>4. StateMove(s) /\ \A r \in Sessions : r # s => completed'[r] = completed[r]
    BY <1>0, <2>3 DEF StateMove, TypeOK
  <2>5. MovesAlone(c, s) /\ LockMove(c, s) /\ EventMove(c, s) /\ SlotMove(c)
    BY <1>0, <2>2, <2>3, <2>4 DEF MovesAlone, LockMove, EventMove, SlotMove, TypeOK, AtSlot, s
  <2>6. "fail" \notin Faults => WorkMove(c, s)
    BY <1>0, <2>3 DEF WorkMove, TypeOK, FailuresAllowed
  <2> QED
    BY <1>0, <2>4, <2>5, <2>6 DEF Shape, s
<1>6. CASE CancelWaiting(c)
  <2>1. /\ session' = session /\ "cancel" \in Faults
        /\ pc' = [pc EXCEPT ![c] = "done"]
        /\ \/ lock' = lock /\ pc[c] = "slot"
           \/ lock' = [lock EXCEPT ![s] = Leave(lock[s], c)] /\ pc[c] = "queued"
        /\ UNCHANGED <<state, completed, cancelEvt>>
    BY <1>6 DEF CancelWaiting, Return
  <2> HIDE DEF s
  <2> QED
    BY <1>0, <2>1
       DEF Shape, MovesAlone, LockMove, EventMove, StateMove, TypeOK, AtLock, Processing, InLoop, s
<1>7. CASE CancelSecond(c)
  <2>1. /\ session' = session /\ "cancel" \in Faults
        /\ pc' = [pc EXCEPT ![c] = "done"]
        /\ lock' = [lock EXCEPT ![s] = Leave(lock[s], c)]
        /\ cancelEvt' = [cancelEvt EXCEPT ![s] = IF InLoop(c) THEN "absent" ELSE cancelEvt[s]]
        /\ UNCHANGED <<state, completed>>
    BY <1>7 DEF CancelSecond, Return
  <2> HIDE DEF s
  <2> QED
    BY <1>0, <2>1 DEF Shape, MovesAlone, LockMove, EventMove, StateMove, TypeOK, s
<1> QED
  BY <1>0, <1>1, <1>2, <1>3, <1>4, <1>5, <1>6, <1>7 DEF CallerStep

\* What the other steps, which are those of the tasks and of interrupt() and
\* wake(), leave alone.
LEMMA OtherSteps ==
  ASSUME IInv,
         \/ \E c \in Callers, n \in {1, 2} : TaskEnds(c, n)
         \/ \E s \in Sessions : Interrupt(s) \/ Wake(s)
         \/ UNCHANGED vars
  PROVE  /\ UNCHANGED <<pc, session, lock, slots, completed>>
         /\ \A s \in Sessions : cancelEvt'[s] # "absent" => cancelEvt[s] # "absent"
         /\ \A s \in Sessions : (state'[s] = "IDLE") = (state[s] = "IDLE")
<1>1. CASE \E c \in Callers, n \in {1, 2} : TaskEnds(c, n)
  BY <1>1 DEF TaskEnds
<1>2. CASE \E s \in Sessions : Interrupt(s) \/ Wake(s)
  BY <1>2 DEF IInv, TypeOK, Interrupt, Wake
<1>3. CASE UNCHANGED vars
  BY <1>3 DEF vars
<1> QED
  BY <1>1, <1>2, <1>3

LEMMA FailuresAllowedKept ==
  ASSUME TypeOK, FailuresAllowed, [Next]_vars
  PROVE  FailuresAllowed'
<1> SUFFICES ASSUME "fail" \notin Faults, NEW d \in Callers PROVE ended'[d] # "error"
  BY DEF FailuresAllowed
<1>1. ended[d] # "error"
  BY DEF FailuresAllowed
<1>2. ASSUME NEW c \in Callers, NEW n \in {1, 2}, TaskEnds(c, n) PROVE ended'[d] # "error"
  BY <1>1, <1>2 DEF TaskEnds, TypeOK
<1>3. CASE \/ ended' = ended
           \/ \E c \in Callers : ended' = [ended EXCEPT ![c] = "no"]
  BY <1>1, <1>3 DEF TypeOK
<1> QED
  BY <1>2, <1>3
     DEF Next, CallerStep, Call, SlotGranted, QueuedGranted, TurnGranted, FirstLoopEnds,
         SecondLoopEnds, Finally, Interrupt, Wake, CancelWaiting, CancelFirst, CancelSecond, vars

LEMMA LockUsersKept ==
  ASSUME IInv, LockUsers, NEW c \in Callers, NEW s \in Sessions, MovesAlone(c, s), LockMove(c, s)
  PROVE  LockUsers'
<1>1. ASSUME NEW r \in Sessions, r # s
      PROVE  /\ OrderlyPool(lock'[r])
             /\ \A d \in Callers : Uses(lock'[r], d) => session'[d] = r /\ pc'[d] \in AtLock
  <2>1. lock'[r] = lock[r]
    BY <1>1 DEF MovesAlone
  <2>2. OrderlyPool(lock[r]) /\ \A d \in Callers : Uses(lock[r], d) => session[d] = r /\ pc[d] \in AtLock
    BY DEF LockUsers
  <2>3. ~Uses(lock[r], c)
    BY <1>1, <2>2 DEF MovesAlone, AtLock, Processing
  <2> QED
    BY <2>1, <2>2, <2>3 DEF MovesAlone
<1> DEFINE pool == lock[s]
<1>2. pool \in PermitPool(Callers) /\ OrderlyPool(pool)
  BY DEF IInv, TypeOK, LockUsers
<1>3. \A d \in Callers : Uses(pool, d) => session[d] = s /\ pc[d] \in AtLock
  BY DEF LockUsers
<1>4. pc[c] \in {"idle", "slot"} => ~Uses(pool, c)
  BY <1>3 DEF AtLock, Processing
<1>5. Leave(pool, c) \in PermitPool(Callers) /\ OrderlyPool(Leave(pool, c))
  BY <1>2, PoolType, OrderlyLeave
<1>6. \A d : Uses(Leave(pool, c), d) <=> Uses(pool, d) /\ d # c
  BY <1>2, OrderlyLeave
<1>7. ~Uses(Leave(pool, c), c)
  BY <1>6
<1>8. /\ OrderlyPool(lock'[s])
      /\ \A d \in Callers : Uses(lock'[s], d) => (Uses(pool, d) /\ d # c) \/ (d = c /\ pc'[c] \in AtLock)
  <2> HIDE DEF pool
  <2>1. CASE lock'[s] = pool /\ (pc[c] \in AtLock => pc'[c] \in AtLock)
    BY <1>2, <1>3, <2>1
  <2>2. CASE lock'[s] = Join(pool, c, 1) /\ pc[c] \in {"idle", "slot"} /\ pc'[c] \in AtLock
    <3>1. OrderlyPool(Join(pool, c, 1)) /\ \A d : Uses(Join(pool, c, 1), d) <=> Uses(pool, d) \/ d = c
      BY <1>2, <1>4, <2>2, OrderlyJoin
    <3> QED
      BY <2>2, <3>1
  <2>3. CASE lock'[s] = Leave(pool, c)
    BY <1>5, <1>6, <2>3
  <2>4. CASE lock'[s] = Join(Leave(pool, c), c, 1) /\ pc'[c] \in AtLock
    <3> DEFINE left == Leave(pool, c)
    <3>1. left \in PermitPool(Callers) /\ OrderlyPool(left) /\ ~Uses(left, c)
      BY <1>5, <1>7
    <3>2. \A d : Uses(left, d) <=> Uses(pool, d) /\ d # c
      BY <1>6
    <3> HIDE DEF left
    <3>3. OrderlyPool(Join(left, c, 1)) /\ \A d : Uses(Join(left, c, 1), d) <=> Uses(left, d) \/ d = c
      BY <3>1, OrderlyJoin
    <3> QED
      BY <2>4, <3>2, <3>3 DEF left
  <2> QED
    BY <2>1, <2>2, <2>3, <2>4 DEF LockMove, pool
<1>9. \A d \in Callers : Uses(lock'[s], d) => session'[d] = s /\ pc'[d] \in AtLock
  BY <1>3, <1>8 DEF MovesAlone
<1> QED
  BY <1>1, <1>8, <1>9 DEF LockUsers

LEMMA EventUsedKept ==
  ASSUME IInv, EventUsed, NEW c \in Callers, NEW s \in Sessions, MovesAlone(c, s), EventMove(c, s)
  PROVE  EventUsed'
<1> SUFFICES ASSUME NEW r \in Sessions, cancelEvt'[r] # "absent"
             PROVE  \E d \in Callers : pc'[d] \in {"loop1", "loop2"} /\ session'[d] = r
  BY DEF EventUsed, InLoop
<1>1. CASE r = s /\ pc'[c] \in {"loop1", "loop2"}
  BY <1>1 DEF MovesAlone
<1>2. CASE r = s /\ cancelEvt'[s] = cancelEvt[s] /\ ~InLoop(c)
  <2>1. PICK d \in Callers : InLoop(d) /\ session[d] = s
    BY <1>2 DEF EventUsed
  <2> QED
    BY <1>2, <2>1 DEF MovesAlone, InLoop
<1>3. CASE r # s
  <2>1. PICK d \in Callers : InLoop(d) /\ session[d] = r
    BY <1>3 DEF EventUsed, MovesAlone
  <2>2. d # c
    BY <1>3, <2>1 DEF MovesAlone, InLoop
  <2> QED
    BY <2>1, <2>2 DEF MovesAlone, InLoop
<1> QED
  BY <1>1, <1>2, <1>3 DEF EventMove

LEMMA SignalTrueKept ==
  ASSUME TypeOK, TypeOK', SignalTrue, NEW c \in Callers, NEW s \in Sessions, MovesAlone(c, s), StateMove(s)
  PROVE  SignalTrue'
<1>1. \A r \in Sessions : completed[r] \in BOOLEAN
  BY DEF TypeOK
<1>2. ASSUME NEW r \in Sessions, r # s PROVE completed'[r] = (state'[r] = "IDLE")
  BY <1>2, Zenon DEF SignalTrue, MovesAlone
<1>3. completed'[s] = (state'[s] = "IDLE")
  <2>1. CASE state'[s] # "IDLE" /\ completed'[s] = FALSE
    BY <2>1
  <2>2. CASE state'[s] = "IDLE" /\ completed'[s] = TRUE
    BY <2>2
  <2>3. CASE state'[s] = state[s] /\ completed'[s] = completed[s]
    BY <2>3 DEF SignalTrue
  <2>4. CASE state[s] = "DRAINING" /\ state'[s] = "QUEUED" /\ completed'[s] = completed[s]
    <3>1. completed[s] = (state[s] = "IDLE")
      BY DEF SignalTrue
    <3> QED
      BY <2>4, <3>1
  <2> QED
    BY <2>1, <2>2, <2>3, <2>4 DEF StateMove
<1> QED
  BY <1>2, <1>3 DEF SignalTrue

\* The books of the coordinator are right, whatever is cancelled or fails.
BooksKept == LockUsers /\ EventUsed /\ SignalTrue /\ FailuresAllowed

LEMMA BooksInvariance == Spec => [](IInv /\ BooksKept)
<1>1. Init => BooksKept
  <2> SUFFICES ASSUME Init PROVE BooksKept
    OBVIOUS
  <2>1. OrderlyPool(AllFree) /\ \A c : ~Uses(AllFree, c)
    BY EmptySeq DEF AllFree, OrderlyPool, Uses, InLine
  <2>2. LockUsers /\ EventUsed /\ FailuresAllowed
    BY <2>1 DEF Init, LockUsers, EventUsed, FailuresAllowed
  <2>3. SignalTrue
    BY DEF Init, SignalTrue
  <2> QED
    BY <2>2, <2>3 DEF BooksKept
<1>2. ASSUME IInv, IInv', BooksKept, NEW c \in Callers, NEW s \in Sessions, Shape(c, s), [Next]_vars
      PROVE  BooksKept'
  BY <1>2, LockUsersKept, EventUsedKept, SignalTrueKept, FailuresAllowedKept
     DEF BooksKept, Shape, IInv
<1>3. ASSUME IInv, BooksKept, [Next]_vars,
             /\ UNCHANGED <<pc, session, lock, slots, completed>>
             /\ \A s \in Sessions : cancelEvt'[s] # "absent" => cancelEvt[s] # "absent"
             /\ \A s \in Sessions : (state'[s] = "IDLE") = (state[s] = "IDLE")
      PROVE  BooksKept'
  <2>1. LockUsers'
    BY <1>3 DEF BooksKept, LockUsers
  <2>2. EventUsed'
    BY <1>3 DEF BooksKept, EventUsed, InLoop
  <2>3. SignalTrue'
    BY <1>3, Zenon DEF BooksKept, SignalTrue
  <2>4. FailuresAllowed'
    BY <1>3, FailuresAllowedKept DEF BooksKept, IInv
  <2> QED
    BY <2>1, <2>2, <2>3, <2>4 DEF BooksKept
<1>4. IInv /\ IInv' /\ BooksKept /\ [Next]_vars => BooksKept'
  <2> SUFFICES ASSUME IInv, IInv', BooksKept, [Next]_vars PROVE BooksKept'
    OBVIOUS
  <2>1. ASSUME NEW c \in Callers, NEW s \in Sessions, Call(c, s) PROVE BooksKept'
    BY <1>2, <2>1, CallShaped
  <2>2. ASSUME NEW c \in Callers,
               CallerStep(c) \/ CancelWaiting(c) \/ CancelFirst(c) \/ CancelSecond(c)
        PROVE  BooksKept'
    BY <1>2, <2>2, CallerShaped DEF BooksKept
  <2>3. CASE \/ \E c \in Callers, n \in {1, 2} : TaskEnds(c, n)
             \/ \E s \in Sessions : Interrupt(s) \/ Wake(s)
             \/ UNCHANGED vars
    BY <1>3, <2>3, OtherSteps
  <2> QED
    BY <2>1, <2>2, <2>3 DEF Next
<1> QED
  BY <1>1, <1>4, Invariance, PTL DEF Spec

LEMMA SlotUsersKept ==
  ASSUME IInv, SlotUsers, NEW c \in Callers, NEW s \in Sessions, MovesAlone(c, s), SlotMove(c)
  PROVE  SlotUsers'
<1>1. slots \in PermitPool(Callers) /\ OrderlyPool(slots)
  BY DEF IInv, TypeOK, SlotUsers
<1>2. ASSUME slots' = slots,
             pc[c] \in AtSlot => pc'[c] \in AtSlot,
             pc[c] = "slot" => c \in slots.holders
      PROVE  SlotUsers'
  <2>1. ~InLine(slots.queue, c)
    BY <1>2 DEF SlotUsers, OrderlyPool, InLine
  <2> QED
    BY <1>2, <2>1 DEF SlotUsers, MovesAlone
<1>3. Leave(slots, c) \in PermitPool(Callers) /\ OrderlyPool(Leave(slots, c))
  BY <1>1, PoolType, OrderlyLeave
<1>4. \A d : Uses(Leave(slots, c), d) <=> Uses(slots, d) /\ d # c
  BY <1>1, OrderlyLeave
<1>5. \A d : InLine(Leave(slots, c).queue, d) => InLine(slots.queue, d)
  BY <1>1, LineLeave
<1>6. CASE slots' = Leave(slots, c)
  <2>1. ASSUME NEW d \in Callers, Uses(slots', d) PROVE pc'[d] \in AtSlot
    BY <1>4, <1>6, <2>1 DEF SlotUsers, MovesAlone
  <2>2. ASSUME NEW d \in Callers, InLine(slots'.queue, d) PROVE pc'[d] = "slot"
    <3>1. Uses(slots', d) /\ d # c
      BY <1>4, <1>6, <2>2 DEF Uses
    <3> QED
      BY <1>5, <1>6, <2>2, <3>1 DEF SlotUsers, MovesAlone
  <2> QED
    BY <1>3, <1>6, <2>1, <2>2 DEF SlotUsers
<1> DEFINE joined == Join(slots, c, MaxConcurrent)
<1>7. ASSUME pc[c] = "idle"
      PROVE  /\ joined \in PermitPool(Callers) /\ OrderlyPool(joined)
             /\ \A d : Uses(joined, d) <=> Uses(slots, d) \/ d = c
             /\ \A d \in Callers : d # c /\ InLine(joined.queue, d) => pc[d] = "slot"
             /\ CanEnter(slots, MaxConcurrent) => joined.queue = <<>>
  <2>1. ~Uses(slots, c)
    BY <1>7 DEF SlotUsers, AtSlot
  <2>2. \A d : InLine(joined.queue, d) => InLine(slots.queue, d) \/ d = c
    BY <1>1, LineJoin
  <2> QED
    BY <1>1, <2>1, <2>2, PoolType, OrderlyJoin DEF SlotUsers, Join, CanEnter
<1>8. CASE /\ slots' = joined /\ pc[c] = "idle"
           /\ pc'[c] = "slot" \/ (pc'[c] \in AtSlot /\ CanEnter(slots, MaxConcurrent))
  <2> HIDE DEF joined
  <2>1. ASSUME NEW d \in Callers, Uses(slots', d) PROVE pc'[d] \in AtSlot
    BY <1>7, <1>8, <2>1 DEF SlotUsers, MovesAlone, AtSlot
  <2>2. ASSUME NEW d \in Callers, InLine(slots'.queue, d) PROVE pc'[d] = "slot"
    <3>1. CanEnter(slots, MaxConcurrent) => FALSE
      BY <1>7, <1>8, <2>2, EmptySeq DEF InLine
    <3> QED
      BY <1>7, <1>8, <2>2, <3>1 DEF MovesAlone
  <2> QED
    BY <1>7, <1>8, <2>1, <2>2 DEF SlotUsers
<1>9. CASE slots' = Leave(joined, c) /\ pc[c] = "idle"
  <2> HIDE DEF joined
  <2>1. /\ OrderlyPool(Leave(joined, c))
        /\ \A d : Uses(Leave(joined, c), d) <=> Uses(joined, d) /\ d # c
        /\ \A d : InLine(Leave(joined, c).queue, d) => InLine(joined.queue, d)
    BY <1>7, <1>9, OrderlyLeave, LineLeave
  <2>2. ASSUME NEW d \in Callers, Uses(slots', d) PROVE pc'[d] \in AtSlot
    BY <1>7, <1>9, <2>1, <2>2 DEF SlotUsers, MovesAlone
  <2>3. ASSUME NEW d \in Callers, InLine(slots'.queue, d) PROVE pc'[d] = "slot"
    <3>1. Uses(slots', d) /\ d # c
      BY <1>9, <2>1, <2>3 DEF Uses
    <3> QED
      BY <1>7, <1>9, <2>1, <2>3, <3>1 DEF MovesAlone
  <2> QED
    BY <1>9, <2>1, <2>2, <2>3 DEF SlotUsers
<1> QED
  BY <1>2, <1>6, <1>8, <1>9 DEF SlotMove

LEMMA SomeoneProcessesKept ==
  ASSUME IInv, SomeoneProcesses, NEW c \in Callers, NEW s \in Sessions, MovesAlone(c, s), WorkMove(c, s)
  PROVE  SomeoneProcesses'
<1> SUFFICES ASSUME NEW r \in Sessions, state'[r] # "IDLE"
             PROVE  \E d \in Callers : session'[d] = r /\ pc'[d] \in Processing
  BY DEF SomeoneProcesses
<1>1. CASE r = s /\ pc'[c] \in Processing
  BY <1>1 DEF MovesAlone
<1>2. CASE r = s /\ pc[c] \notin Processing /\ state[s] # "IDLE"
  <2>1. PICK d \in Callers : session[d] = s /\ pc[d] \in Processing
    BY <1>2 DEF SomeoneProcesses
  <2> QED
    BY <1>2, <2>1 DEF MovesAlone
<1>3. CASE r # s
  <2>1. PICK d \in Callers : session[d] = r /\ pc[d] \in Processing
    BY <1>3 DEF SomeoneProcesses, MovesAlone
  <2>2. d # c
    BY <1>3, <2>1 DEF MovesAlone, Processing
  <2> QED
    BY <2>1, <2>2 DEF MovesAlone
<1> QED
  BY <1>1, <1>2, <1>3 DEF WorkMove

\* Without cancellations a slot is given back by everyone who took it.
LEMMA SlotsInvariance ==
  ASSUME "cancel" \notin Faults
  PROVE  Spec => []SlotUsers
<1>1. Init => SlotUsers
  <2>1. OrderlyPool(AllFree) /\ \A c : ~Uses(AllFree, c) /\ ~InLine(AllFree.queue, c)
    BY EmptySeq DEF AllFree, OrderlyPool, Uses, InLine
  <2> QED
    BY <2>1 DEF Init, SlotUsers
<1>2. IInv /\ BooksKept /\ SlotUsers /\ [Next]_vars => SlotUsers'
  <2> SUFFICES ASSUME IInv, BooksKept, SlotUsers, [Next]_vars PROVE SlotUsers'
    OBVIOUS
  <2>1. ASSUME NEW c \in Callers, NEW s \in Sessions, Shape(c, s) PROVE SlotUsers'
    BY <2>1, SlotUsersKept DEF Shape
  <2>2. CASE UNCHANGED <<pc, session, lock, slots, completed>>
    BY <2>2 DEF SlotUsers
  <2> QED
    BY <2>1, <2>2, CallShaped, CallerShaped, OtherSteps DEF Next, BooksKept
<1> QED
  BY <1>1, <1>2, BooksInvariance, PTL DEF Spec

LEMMA WorkInvariance ==
  ASSUME "cancel" \notin Faults, "fail" \notin Faults
  PROVE  Spec => []SomeoneProcesses
<1>1. Init => SomeoneProcesses
  BY DEF Init, SomeoneProcesses
<1>2. IInv /\ BooksKept /\ SomeoneProcesses /\ [Next]_vars => SomeoneProcesses'
  <2> SUFFICES ASSUME IInv, BooksKept, SomeoneProcesses, [Next]_vars PROVE SomeoneProcesses'
    OBVIOUS
  <2>1. ASSUME NEW c \in Callers, NEW s \in Sessions, Shape(c, s) PROVE SomeoneProcesses'
    BY <2>1, SomeoneProcessesKept DEF Shape
  <2>2. CASE /\ UNCHANGED <<pc, session, lock, slots, completed>>
             /\ \A s \in Sessions : (state'[s] = "IDLE") = (state[s] = "IDLE")
    BY <2>2 DEF SomeoneProcesses
  <2> QED
    BY <2>1, <2>2, CallShaped, CallerShaped, OtherSteps DEF Next, BooksKept
<1> QED
  BY <1>1, <1>2, BooksInvariance, PTL DEF Spec

\* No slot of the global semaphore leaks: whoever holds one is before the end
\* of its first loop, which gives it back however it ends, by a result, an
\* error or an interrupt.  Only a caller that is cancelled while it is queued
\* keeps its slot for good.
THEOREM SlotsComeBack ==
  ASSUME "cancel" \notin Faults
  PROVE  Spec => []NoLeakedSlot
<1>1. SlotUsers => NoLeakedSlot \/ ~TypeOK
  BY DEF SlotUsers, NoLeakedSlot, Uses, AtSlot, TypeOK, PermitPool
<1>2. IInv => TypeOK
  BY DEF IInv
<1> QED
  BY <1>1, <1>2, SlotsInvariance, Invariance, PTL

\* A pool that nobody uses is free.
LEMMA UnusedIsFree ==
  ASSUME NEW P, NEW pool \in PermitPool(P), \A x \in P : ~Uses(pool, x)
  PROVE  pool = AllFree
<1>1. pool = [holders |-> pool.holders, queue |-> pool.queue]
      /\ pool.holders \subseteq P /\ pool.queue \in Seq(P)
  BY DEF PermitPool
<1>2. pool.holders = {}
  BY <1>1 DEF Uses
<1>3. pool.queue = <<>>
  <2> SUFFICES ASSUME pool.queue # <<>> PROVE FALSE
    OBVIOUS
  <2>1. Len(pool.queue) \in Nat \ {0}
    BY <1>1, EmptySeq
  <2>2. 1 \in 1 .. Len(pool.queue)
    BY <2>1
  <2>3. pool.queue[1] \in P
    BY <1>1, <2>2, ElementOfSeq
  <2> QED
    BY <2>2, <2>3 DEF Uses, InLine
<1> QED
  BY <1>1, <1>2, <1>3 DEF AllFree

\* When no call of run() is in progress, every session is idle and signalled,
\* no event is left, and all locks and slots are free, whatever was
\* interrupted or woken: the next run() starts at once and waits for nobody.
\* It needs that no caller is cancelled and no processor raises.
THEOREM QuietIsIdle ==
  ASSUME "cancel" \notin Faults, "fail" \notin Faults
  PROVE  Spec => []QuiescentIdle
<1>1. IInv /\ BooksKept /\ SlotUsers /\ SomeoneProcesses => QuiescentIdle
  <2> SUFFICES ASSUME IInv, BooksKept, SlotUsers, SomeoneProcesses,
                      \A c \in Callers : pc[c] \in {"idle", "done"}
               PROVE  /\ slots = AllFree
                      /\ \A s \in Sessions :
                           /\ state[s] = "IDLE" /\ completed[s]
                           /\ cancelEvt[s] = "absent" /\ lock[s] = AllFree
    BY DEF QuiescentIdle
  <2>1. slots = AllFree
    BY UnusedIsFree DEF IInv, TypeOK, SlotUsers, AtSlot
  <2> SUFFICES ASSUME NEW s \in Sessions
               PROVE  /\ state[s] = "IDLE" /\ completed[s]
                      /\ cancelEvt[s] = "absent" /\ lock[s] = AllFree
    BY <2>1
  <2>2. lock[s] = AllFree
    BY UnusedIsFree DEF IInv, TypeOK, BooksKept, LockUsers, AtLock, Processing
  <2>3. cancelEvt[s] = "absent"
    BY DEF BooksKept, EventUsed, InLoop
  <2>4. state[s] = "IDLE"
    BY DEF SomeoneProcesses, Processing
  <2>5. completed[s]
    BY <2>4 DEF BooksKept, SignalTrue
  <2> QED
    BY <2>2, <2>3, <2>4, <2>5
<1> QED
  BY <1>1, BooksInvariance, SlotsInvariance, WorkInvariance, PTL
=============================================================================
