-------------------------- MODULE EventStore_proofs --------------------------
(***************************************************************************)
(* Proofs about EventStore, for any number of appends and aggregates, any  *)
(* batch size and page size.                                               *)
(***************************************************************************)
EXTENDS EventStore, SharedTheorems, SequenceTheorems

\* A call that was made has an aggregate and a batch, and has written as much
\* of it as its place says.
CallShape ==
  \A w \in Appends :
    /\ pc[w] # "idle" => agg[w] \in Aggregates /\ size[w] \in 1 .. MaxBatch
    /\ pc[w] \in {"idle", "enter", "base"} => written[w] = 0
    /\ pc[w] = "insert" => written[w] < size[w]
    /\ pc[w] \in {"commit", "notify", "done"} => written[w] = size[w]

\* A call that is writing holds the lock of its aggregate, which has one
\* holder at most.
LockHeld ==
  /\ \A w \in Appends : Writing(w) => w \in lock[agg[w]].holders
  /\ \A a \in Aggregates : Sole(lock[a])

\* The inductive invariant that holds whatever fails.
StoreInv == TypeOK /\ CallShape /\ LockHeld

LEMMA ConstantTypes == MaxBatch \in Nat /\ MaxBatch > 0 /\ NoAggregate \notin Aggregates
BY StoreAssumption DEF StoreAssumption

LEMMA UnlockKeeps ==
  ASSUME StoreInv, NEW w \in Appends, pc[w] # "idle", Unlock(w)
  PROVE  /\ lock' \in [Aggregates -> PermitPool(Appends)]
         /\ \A a \in Aggregates : Sole(lock'[a])
         /\ \A v \in Appends : v # w => \A a \in Aggregates :
              v \in lock[a].holders => v \in lock'[a].holders
<1> DEFINE a == agg[w]
<1>1. a \in Aggregates /\ lock[a] \in PermitPool(Appends) /\ Sole(lock[a])
  BY DEF StoreInv, TypeOK, CallShape, LockHeld
<1>2. /\ Leave(lock[a], w) \in PermitPool(Appends)
      /\ Sole(Leave(lock[a], w))
      /\ \A v \in lock[a].holders : v # w => v \in Leave(lock[a], w).holders
  BY <1>1, PoolType, SoleLeave
<1>3. lock' = [lock EXCEPT ![a] = Leave(lock[a], w)]
  BY DEF Unlock
<1> HIDE DEF a
<1> QED
  BY <1>1, <1>2, <1>3 DEF StoreInv, TypeOK, LockHeld

\* Starting a call joins the line, which takes no permit away.
LEMMA JoinKeeps ==
  ASSUME StoreInv, NEW w \in Appends, NEW a \in Aggregates,
         lock' = [lock EXCEPT ![a] = Join(lock[a], w, 1)]
  PROVE  /\ lock' \in [Aggregates -> PermitPool(Appends)]
         /\ \A b \in Aggregates : Sole(lock'[b])
         /\ \A v \in Appends, b \in Aggregates :
              v \in lock[b].holders => v \in lock'[b].holders
<1>1. lock[a] \in PermitPool(Appends) /\ Sole(lock[a])
  BY DEF StoreInv, TypeOK, LockHeld
<1>2. /\ Join(lock[a], w, 1) \in PermitPool(Appends)
      /\ Sole(Join(lock[a], w, 1))
  BY <1>1, PoolType, SoleJoin
<1>3. \A v \in lock[a].holders : v \in Join(lock[a], w, 1).holders
  BY <1>1 DEF Join
<1> QED
  BY <1>1, <1>2, <1>3 DEF StoreInv, TypeOK, LockHeld

\* The effect of a call's step on the lock part: the call moves from one
\* writing place to another, or leaves the lock.
LEMMA StepHolds ==
  ASSUME StoreInv, NEW w \in Appends, NEW place, Goto(w, place), pc[w] # "idle",
         UNCHANGED agg,
         \/ UNCHANGED lock /\ w \in lock[agg[w]].holders
         \/ Unlock(w) /\ place \in {"done", "failed"}
  PROVE  LockHeld'
<1>1. \A v \in Appends : v # w => pc'[v] = pc[v]
  BY DEF Goto, StoreInv, TypeOK
<1>2. CASE UNCHANGED lock /\ w \in lock[agg[w]].holders
  BY <1>1, <1>2 DEF StoreInv, LockHeld, Writing
<1>3. CASE Unlock(w) /\ place \in {"done", "failed"}
  <2>1. pc'[w] \in {"done", "failed"}
    BY <1>3 DEF Goto, StoreInv, TypeOK
  <2>2. \A v \in Appends : v # w /\ Writing(v) => agg[v] \in Aggregates
    BY DEF StoreInv, CallShape, Writing
  <2> QED
    BY <1>1, <1>3, <2>1, <2>2, UnlockKeeps DEF StoreInv, LockHeld, Writing
<1> QED
  BY <1>2, <1>3

LEMMA StoreStep ==
  ASSUME StoreInv, Next
  PROVE  StoreInv'
<1> USE ConstantTypes
<1>1. ASSUME NEW w \in Appends, NEW a \in Aggregates, NEW n \in 1 .. MaxBatch, Start(w, a, n)
      PROVE  StoreInv'
  <2>1. /\ lock' \in [Aggregates -> PermitPool(Appends)]
        /\ \A b \in Aggregates : Sole(lock'[b])
        /\ \A v \in Appends, b \in Aggregates :
             v \in lock[b].holders => v \in lock'[b].holders
    BY <1>1, JoinKeeps DEF Start
  <2>2. TypeOK'
    <3>1. size' \in [Appends -> 0 .. MaxBatch]
      BY <1>1 DEF StoreInv, Start, TypeOK
    <3>2. agg' \in [Appends -> Aggregates \cup {NoAggregate}]
      BY <1>1 DEF StoreInv, Start, TypeOK
    <3> QED
      BY <1>1, <2>1, <3>1, <3>2 DEF StoreInv, Start, feedVars, Goto, TypeOK, Places
  <2>3. CallShape'
    BY <1>1 DEF StoreInv, Start, Goto, TypeOK, CallShape
  <2>4. \A v \in Appends : Writing(v)' => v # w /\ Writing(v) /\ agg'[v] = agg[v] /\ agg[v] \in Aggregates
    BY <1>1 DEF Start, Goto, StoreInv, TypeOK, CallShape, Writing
  <2>5. LockHeld'
    BY <2>1, <2>4 DEF StoreInv, LockHeld
  <2> QED
    BY <2>2, <2>3, <2>5 DEF StoreInv
<1>2. ASSUME NEW w \in Appends, Count(w)
      PROVE  StoreInv'
  <2>1. agg[w] \in Aggregates /\ size[w] \in Nat /\ pc[w] = "enter"
    BY <1>2 DEF Count, StoreInv, CallShape
  <2>2. TypeOK'
    BY <1>2, <2>1 DEF Count, Goto, callVars, feedVars, StoreInv, TypeOK, Places
  <2>3. CallShape'
    BY <1>2, <2>1 DEF Count, Goto, callVars, StoreInv, TypeOK, CallShape
  <2>4. LockHeld'
    BY <1>2, <2>1, StepHolds DEF Count, callVars
  <2> QED
    BY <2>2, <2>3, <2>4 DEF StoreInv
<1>3. ASSUME NEW w \in Appends, SelectBase(w)
      PROVE  StoreInv'
  <2>1. agg[w] \in Aggregates /\ size[w] \in Nat /\ counter[agg[w]] \in Nat
        /\ pc[w] = "base" /\ w \in lock[agg[w]].holders
    BY <1>3 DEF SelectBase, StoreInv, CallShape, TypeOK, LockHeld, Writing
  <2>2. base' \in [Appends -> Int]
    BY <1>3, <2>1 DEF SelectBase, StoreInv, TypeOK
  <2>3. TypeOK'
    BY <1>3, <2>1, <2>2 DEF SelectBase, Goto, feedVars, StoreInv, TypeOK, Places
  <2>4. CallShape'
    BY <1>3, <2>1 DEF SelectBase, Goto, StoreInv, TypeOK, CallShape
  <2>5. LockHeld'
    BY <1>3, <2>1, StepHolds DEF SelectBase
  <2> QED
    BY <2>3, <2>4, <2>5 DEF StoreInv
<1>4. ASSUME NEW w \in Appends, Insert(w)
      PROVE  StoreInv'
  <2> DEFINE q == base[w] + written[w] + 1
  <2>1. /\ agg[w] \in Aggregates /\ size[w] \in 1 .. MaxBatch /\ pc[w] = "insert"
        /\ written[w] \in Nat /\ written[w] < size[w] /\ base[w] \in Int
        /\ w \in lock[agg[w]].holders
    BY <1>4 DEF Insert, StoreInv, CallShape, TypeOK, LockHeld, Writing
  <2>2. <<q, w>> \in Row
    BY <2>1 DEF Row
  <2>3. UNCHANGED <<agg, size, base, lock, counter, savedCounter, savedRows, cursor, delivered>>
    BY <1>4 DEF Insert, feedVars
  <2>4. CASE /\ rows' = [rows EXCEPT ![agg[w]] = @ \cup {<<q, w>>}]
             /\ written' = [written EXCEPT ![w] = @ + 1]
             /\ Goto(w, IF written[w] + 1 = size[w] THEN "commit" ELSE "insert")
    <3> HIDE DEF q
    <3>1. rows' \in [Aggregates -> SUBSET Row]
      BY <2>1, <2>2, <2>4 DEF StoreInv, TypeOK
    <3>2. written' \in [Appends -> 0 .. MaxBatch]
      BY <2>1, <2>4 DEF StoreInv, TypeOK
    <3>3. TypeOK'
      BY <2>3, <2>4, <3>1, <3>2 DEF Goto, StoreInv, TypeOK, Places
    <3>4. CallShape'
      BY <2>1, <2>3, <2>4 DEF Goto, StoreInv, TypeOK, CallShape
    <3>5. LockHeld'
      BY <2>1, <2>3, <2>4, StepHolds
    <3> QED
      BY <3>3, <3>4, <3>5 DEF StoreInv
  <2>5. CASE Goto(w, "rollback") /\ UNCHANGED <<rows, written>>
    <3>1. TypeOK'
      BY <2>3, <2>5 DEF Goto, StoreInv, TypeOK, Places
    <3>2. CallShape'
      BY <2>1, <2>3, <2>5 DEF Goto, StoreInv, TypeOK, CallShape
    <3>3. LockHeld'
      BY <2>1, <2>3, <2>5, StepHolds
    <3> QED
      BY <3>1, <3>2, <3>3 DEF StoreInv
  <2> QED
    BY <1>4, <2>4, <2>5 DEF Insert, LastOne
<1>5. ASSUME NEW w \in Appends, Commit(w) \/ Raise(w)
      PROVE  StoreInv'
  <2>1. /\ agg[w] \in Aggregates /\ pc[w] \in {"base", "insert", "commit", "notify"}
        /\ w \in lock[agg[w]].holders
    BY <1>5 DEF Commit, Raise, StoreInv, CallShape, LockHeld, Writing
  <2>2. \/ pc[w] = "commit" /\ Goto(w, "notify")
        \/ Goto(w, "rollback")
    BY <1>5 DEF Commit, Raise
  <2>3. UNCHANGED <<agg, size, base, written, lock, cursor, delivered>>
    BY <1>5 DEF Commit, Raise, callVars, feedVars
  <2>4. TypeOK'
    BY <1>5, <2>2, <2>3 DEF Commit, Raise, CommitAll, Goto, StoreInv, TypeOK, Places
  <2>5. CallShape'
    BY <2>1, <2>2, <2>3 DEF Goto, StoreInv, TypeOK, CallShape
  <2>6. LockHeld'
    BY <2>1, <2>2, <2>3, StepHolds
  <2> QED
    BY <2>4, <2>5, <2>6 DEF StoreInv
<1>6. ASSUME NEW w \in Appends, Return(w) \/ Rollback(w) \/ LeaveLine(w)
      PROVE  StoreInv'
  <2>1. pc[w] # "idle" /\ Unlock(w)
    BY <1>6 DEF Return, Rollback, LeaveLine
  <2>2. \/ pc[w] = "notify" /\ Goto(w, "done")
        \/ Goto(w, "failed")
    BY <1>6 DEF Return, Rollback, LeaveLine
  <2>3. UNCHANGED <<agg, size, base, written, cursor, delivered>>
    BY <1>6 DEF Return, Rollback, LeaveLine, callVars, feedVars
  <2>4. lock' \in [Aggregates -> PermitPool(Appends)]
    BY <2>1, UnlockKeeps
  <2>5. TypeOK'
    BY <1>6, <2>2, <2>3, <2>4
       DEF Return, Rollback, LeaveLine, RollBackAll, Goto, StoreInv, TypeOK, Places
  <2>6. CallShape'
    BY <2>1, <2>2, <2>3 DEF Goto, StoreInv, TypeOK, CallShape
  <2>7. LockHeld'
    BY <2>1, <2>2, <2>3, StepHolds
  <2> QED
    BY <2>5, <2>6, <2>7 DEF StoreInv
<1>7. ASSUME OtherCommit \/ OtherRollback
      PROVE  StoreInv'
  <2>1. UNCHANGED <<pc, agg, size, base, written, lock, cursor, delivered>>
    BY <1>7 DEF OtherCommit, OtherRollback, callVars, feedVars
  <2>2. TypeOK'
    BY <1>7, <2>1 DEF OtherCommit, OtherRollback, CommitAll, RollBackAll, StoreInv, TypeOK
  <2> QED
    BY <2>1, <2>2 DEF StoreInv, CallShape, LockHeld, Writing
<1>8. ASSUME Crash
      PROVE  StoreInv'
  <2>1. AllFree \in PermitPool(Appends) /\ Sole(AllFree)
    BY EmptySeq DEF AllFree, PermitPool, Sole
  <2>2. \A v \in Appends : /\ pc'[v] \in {"idle", "done", "failed", "lost"}
                           /\ pc'[v] \in {"idle", "done"} => pc'[v] = pc[v]
                           /\ pc'[v] # "idle" => pc[v] # "idle"
    BY <1>8 DEF Crash, StoreInv, TypeOK, Places
  <2>3. UNCHANGED <<agg, size, base, written, cursor, delivered>>
    BY <1>8 DEF Crash, callVars, feedVars
  <2>4. TypeOK'
    <3>1. pc' \in [Appends -> Places]
      BY <1>8 DEF Crash, StoreInv, TypeOK, Places
    <3> QED
      BY <1>8, <2>1, <2>3, <3>1 DEF Crash, RollBackAll, StoreInv, TypeOK
  <2>5. CallShape'
    BY <2>2, <2>3 DEF StoreInv, CallShape
  <2>6. LockHeld'
    BY <1>8, <2>1, <2>2 DEF Crash, LockHeld, Writing
  <2> QED
    BY <2>4, <2>5, <2>6 DEF StoreInv
<1>9. ASSUME NEW a \in Aggregates, Poll(a)
      PROVE  StoreInv'
  <2>1. Page(a) \subseteq Row
    BY DEF Page, StoreInv, TypeOK
  <2>2. \A last \in Seqs(Page(a)) : last \in Int
    BY <2>1 DEF Seqs, Row
  <2>3. TypeOK'
    <3>1. cursor' \in [Aggregates -> Int]
      BY <1>9, <2>2 DEF Poll, StoreInv, TypeOK
    <3>2. delivered' \in [Aggregates -> SUBSET Row]
      BY <1>9, <2>1 DEF Poll, StoreInv, TypeOK
    <3> QED
      BY <1>9, <3>1, <3>2 DEF Poll, callVars, StoreInv, TypeOK
  <2> QED
    BY <1>9, <2>3 DEF Poll, callVars, StoreInv, CallShape, LockHeld, Writing
<1> QED
  BY <1>1, <1>2, <1>3, <1>4, <1>5, <1>6, <1>7, <1>8, <1>9 DEF Next, AppendStep

THEOREM StoreInvariance == Spec => []StoreInv
<1>1. Init => StoreInv
  <2> SUFFICES ASSUME Init PROVE StoreInv
    OBVIOUS
  <2>1. AllFree \in PermitPool(Appends) /\ Sole(AllFree)
    BY EmptySeq DEF AllFree, PermitPool, Sole
  <2>2. 0 \in 0 .. MaxBatch /\ 0 \in Nat
    BY ConstantTypes
  <2> QED
    BY <2>1, <2>2 DEF Init, StoreInv, TypeOK, CallShape, LockHeld, Writing, Places
<1>2. StoreInv /\ [Next]_vars => StoreInv'
  <2>1. ASSUME StoreInv, UNCHANGED vars PROVE StoreInv'
    BY <2>1 DEF vars, callVars, feedVars, StoreInv, TypeOK, CallShape, LockHeld, Writing
  <2> QED
    BY <2>1, StoreStep
<1> QED
  BY <1>1, <1>2, PTL DEF Spec

\* Every variable keeps its type, whatever fails.
THEOREM StoreTypeCorrect == Spec => []TypeOK
BY StoreInvariance, PTL DEF StoreInv

\* Two appends to one aggregate never write at the same time, whichever of
\* them is cancelled, raises or was cut off by a restart: the base number one
\* of them read is not outrun by the other.
THEOREM WritersExclude == Spec => []OneWriter
<1>1. StoreInv => OneWriter
  BY DEF StoreInv, CallShape, LockHeld, Sole, OneWriter, Writing
<1> QED
  BY <1>1, StoreInvariance, PTL
-----------------------------------------------------------------------------
(***************************************************************************)
(* Without rollbacks nothing that was returned is lost.                    *)
(***************************************************************************)
NothingRollsBack == "error" \notin Faults /\ "rollback" \notin Faults

\* What a call relies on between its statements: the numbers above the base it
\* read are free, those it used are its own, and once it has committed its
\* events are saved.
CallOrderly(w) ==
  LET a == agg[w] IN
  /\ pc[w] # "rollback"
  /\ pc[w] = "base" =>
       counter[a] >= size[w] /\ \A r \in rows[a] : r[1] <= counter[a] - size[w]
  /\ pc[w] \in {"insert", "commit", "notify"} =>
       base[w] = counter[a] - size[w] /\ \A r \in rows[a] : r[1] <= base[w] + written[w]
  /\ pc[w] \in {"insert", "commit"} =>
       \A i \in 1 .. written[w] : <<base[w] + i, w>> \in rows[a]
  /\ pc[w] \in {"notify", "done"} => AllIn(w, savedRows)

\* No number is used that the counter does not cover, saved or not.
Covered ==
  \A a \in Aggregates :
    /\ savedRows[a] \subseteq rows[a]
    /\ \A r \in rows[a] : r[1] <= counter[a]
    /\ \A r \in savedRows[a] : r[1] <= savedCounter[a]

Orderly == Covered /\ \A w \in Appends : CallOrderly(w)

\* Only one call at a time is past the lock of an aggregate.
LEMMA OthersOut ==
  ASSUME StoreInv, NEW w \in Appends, w \in lock[agg[w]].holders, pc[w] # "idle",
         NEW v \in Appends, v # w, agg[v] = agg[w]
  PROVE  ~Writing(v)
BY DEF StoreInv, LockHeld, CallShape, Sole

\* A step that leaves a call and its aggregate alone, and takes nothing that
\* is saved away, leaves the call orderly.
LEMMA OtherCallOrderly ==
  ASSUME StoreInv, NEW v \in Appends, CallOrderly(v),
         pc'[v] = pc[v], agg'[v] = agg[v], size'[v] = size[v],
         base'[v] = base[v], written'[v] = written[v],
         Writing(v) => /\ counter'[agg[v]] = counter[agg[v]]
                       /\ rows'[agg[v]] = rows[agg[v]],
         pc[v] # "idle" => savedRows[agg[v]] \subseteq savedRows'[agg[v]]
  PROVE  CallOrderly(v)'
BY DEF CallOrderly, Writing, AllIn

LEMMA OrderlyStep ==
  ASSUME StoreInv, StoreInv', Orderly, Next, NothingRollsBack
  PROVE  Orderly'
<1>1. ASSUME NEW w \in Appends, NEW a \in Aggregates, NEW n \in 1 .. MaxBatch, Start(w, a, n)
      PROVE  Orderly'
  <2>1. UNCHANGED <<counter, rows, savedCounter, savedRows, base, written>>
    BY <1>1 DEF Start
  <2>2. CallOrderly(w)'
    BY <1>1 DEF Start, Goto, CallOrderly, StoreInv, TypeOK
  <2>3. ASSUME NEW v \in Appends, v # w PROVE CallOrderly(v)'
    <3>1. pc'[v] = pc[v] /\ agg'[v] = agg[v] /\ size'[v] = size[v]
      BY <1>1, <2>3 DEF Start, Goto, StoreInv, TypeOK
    <3> QED
      BY <2>1, <3>1, OtherCallOrderly DEF Orderly
  <2> QED
    BY <2>1, <2>2, <2>3 DEF Orderly, Covered
<1>2. ASSUME NEW w \in Appends, Count(w)
      PROVE  Orderly'
  <2>1. /\ agg[w] \in Aggregates /\ size[w] \in Nat /\ pc[w] = "enter"
        /\ w \in lock[agg[w]].holders /\ counter[agg[w]] \in Nat
        /\ \A r \in rows[agg[w]] : r[1] \in Int
    BY <1>2 DEF Count, StoreInv, CallShape, TypeOK, Row
  <2>2. /\ UNCHANGED <<agg, size, base, written, lock, rows, savedCounter, savedRows>>
        /\ counter' = [counter EXCEPT ![agg[w]] = @ + size[w]]
        /\ pc' = [pc EXCEPT ![w] = "base"]
    BY <1>2 DEF Count, Goto, callVars
  <2>3. counter'[agg[w]] = counter[agg[w]] + size[w]
        /\ \A a \in Aggregates : a # agg[w] => counter'[a] = counter[a]
    BY <2>1, <2>2 DEF StoreInv, TypeOK
  <2>4. pc'[w] = "base" /\ \A v \in Appends : v # w => pc'[v] = pc[v]
    BY <2>2 DEF StoreInv, TypeOK
  <2>5. CallOrderly(w)'
    BY <2>1, <2>2, <2>3, <2>4 DEF CallOrderly, Orderly, Covered
  <2>6. ASSUME NEW v \in Appends, v # w PROVE CallOrderly(v)'
    <3>1. Writing(v) => agg[v] # agg[w] /\ agg[v] \in Aggregates
      BY <2>1, <2>6, OthersOut DEF StoreInv, CallShape, Writing
    <3> QED
      BY <2>2, <2>3, <2>4, <2>6, <3>1, OtherCallOrderly DEF Orderly
  <2>7. Covered'
    <3>1. ASSUME NEW a \in Aggregates, NEW r \in rows'[a] PROVE r[1] <= counter'[a]
      <4>1. r[1] \in Int /\ r[1] <= counter[a] /\ counter[a] \in Nat
        BY <2>2, <3>1 DEF Orderly, Covered, StoreInv, TypeOK, Row
      <4>2. CASE a = agg[w]
        BY <4>1, <4>2, <2>1, <2>3
      <4>3. CASE a # agg[w]
        BY <4>1, <4>3, <2>3
      <4> QED
        BY <4>2, <4>3
    <3> QED
      BY <2>2, <3>1 DEF Orderly, Covered
  <2> QED
    BY <2>5, <2>6, <2>7 DEF Orderly
<1>3. ASSUME NEW w \in Appends, SelectBase(w)
      PROVE  Orderly'
  <2>1. /\ agg[w] \in Aggregates /\ size[w] \in 1 .. MaxBatch /\ pc[w] = "base"
        /\ counter[agg[w]] \in Nat /\ counter[agg[w]] >= size[w] /\ written[w] = 0
    BY <1>3 DEF SelectBase, StoreInv, CallShape, TypeOK, Orderly, CallOrderly
  <2>2. /\ UNCHANGED <<agg, size, written, lock, counter, rows, savedCounter, savedRows>>
        /\ pc' = [pc EXCEPT ![w] = "insert"]
        /\ base' = [base EXCEPT ![w] = counter[agg[w]] - size[w]]
    <3>1. counter[agg[w]] # 0
      BY <2>1, ConstantTypes
    <3> QED
      BY <1>3, <3>1 DEF SelectBase, Goto
  <2>3. /\ pc'[w] = "insert" /\ base'[w] = counter[agg[w]] - size[w]
        /\ \A v \in Appends : v # w => pc'[v] = pc[v] /\ base'[v] = base[v]
    BY <2>2 DEF StoreInv, TypeOK
  <2>4. CallOrderly(w)'
    <3>1. base'[w] + written'[w] = counter'[agg'[w]] - size'[w]
      BY <2>1, <2>2, <2>3
    <3>2. \A r \in rows'[agg'[w]] : r[1] <= counter'[agg'[w]] - size'[w]
      BY <2>1, <2>2 DEF Orderly, CallOrderly
    <3>3. \A i \in 1 .. written'[w] : FALSE
      BY <2>1, <2>2
    <3> QED
      BY <2>2, <2>3, <3>1, <3>2, <3>3 DEF CallOrderly
  <2>5. ASSUME NEW v \in Appends, v # w PROVE CallOrderly(v)'
    BY <2>2, <2>3, <2>5, OtherCallOrderly DEF Orderly
  <2> QED
    BY <2>2, <2>4, <2>5 DEF Orderly, Covered
<1>4. ASSUME NEW w \in Appends, Insert(w)
      PROVE  Orderly'
  <2> DEFINE a == agg[w]
             q == base[w] + written[w] + 1
  <2>1. /\ a \in Aggregates /\ size[w] \in 1 .. MaxBatch /\ pc[w] = "insert"
        /\ written[w] \in Nat /\ written[w] < size[w] /\ base[w] \in Int
        /\ w \in lock[a].holders /\ counter[a] \in Nat
    BY <1>4 DEF Insert, StoreInv, CallShape, TypeOK, LockHeld, Writing
  <2>2. base[w] = counter[a] - size[w] /\ \A r \in rows[a] : r[1] <= base[w] + written[w]
    BY <2>1 DEF Orderly, CallOrderly
  <2>3. q \notin Seqs(rows[a])
    <3> SUFFICES ASSUME NEW r \in rows[a], r[1] = q PROVE FALSE
      BY DEF Seqs
    <3> QED
      BY <2>1, <2>2
  <2>4. /\ rows' = [rows EXCEPT ![a] = rows[a] \cup {<<q, w>>}]
        /\ written' = [written EXCEPT ![w] = written[w] + 1]
        /\ pc' = [pc EXCEPT ![w] = IF written[w] + 1 = size[w] THEN "commit" ELSE "insert"]
        /\ UNCHANGED <<agg, size, base, lock, counter, savedCounter, savedRows>>
    BY <1>4, <2>3 DEF Insert, LastOne, Goto
  <2>5. /\ rows'[a] = rows[a] \cup {<<q, w>>} /\ written'[w] = written[w] + 1
        /\ pc'[w] \in {"insert", "commit"}
        /\ \A b \in Aggregates : b # a => rows'[b] = rows[b]
        /\ \A v \in Appends : v # w => pc'[v] = pc[v] /\ written'[v] = written[v]
    BY <2>1, <2>4 DEF StoreInv, TypeOK
  <2>6. CallOrderly(w)'
    <3>1. \A r \in rows'[a] : r[1] <= base[w] + written'[w]
      <4> SUFFICES ASSUME NEW r \in rows'[a] PROVE r[1] <= base[w] + written'[w]
        OBVIOUS
      <4>1. CASE r \in rows[a]
        <5>1. r[1] \in Int
          BY <4>1, <2>1 DEF StoreInv, TypeOK, Row
        <5> QED
          BY <4>1, <5>1, <2>1, <2>2, <2>5
      <4>2. CASE r = <<q, w>>
        BY <4>2, <2>1, <2>5
      <4> QED
        BY <4>1, <4>2, <2>5
    <3>2. ASSUME NEW i \in 1 .. written'[w] PROVE <<base[w] + i, w>> \in rows'[a]
      <4>1. CASE i \in 1 .. written[w]
        BY <4>1, <2>1, <2>5 DEF Orderly, CallOrderly
      <4>2. CASE i = written[w] + 1
        BY <4>2, <2>1, <2>5
      <4> QED
        BY <3>2, <4>1, <4>2, <2>1, <2>5
    <3> QED
      BY <2>1, <2>2, <2>4, <2>5, <3>1, <3>2 DEF CallOrderly
  <2>7. ASSUME NEW v \in Appends, v # w PROVE CallOrderly(v)'
    <3>1. Writing(v) => agg[v] # a /\ agg[v] \in Aggregates
      BY <2>1, <2>7, OthersOut DEF StoreInv, CallShape, Writing
    <3> QED
      BY <2>4, <2>5, <2>7, <3>1, OtherCallOrderly DEF Orderly
  <2>8. Covered'
    <3>1. q <= counter[a]
      BY <2>1, <2>2
    <3> HIDE DEF q
    <3> QED
      BY <2>4, <2>5, <3>1 DEF Orderly, Covered
  <2> QED
    BY <2>6, <2>7, <2>8 DEF Orderly
<1>5. ASSUME NEW w \in Appends, Commit(w)
      PROVE  Orderly'
  <2>1. /\ agg[w] \in Aggregates /\ pc[w] = "commit" /\ written[w] = size[w]
    BY <1>5 DEF Commit, StoreInv, CallShape
  <2>2. /\ UNCHANGED <<agg, size, base, written, lock, counter, rows>>
        /\ savedRows' = rows /\ savedCounter' = counter
        /\ pc' = [pc EXCEPT ![w] = "notify"]
    BY <1>5 DEF Commit, CommitAll, Goto, callVars
  <2>3. pc'[w] = "notify" /\ \A v \in Appends : v # w => pc'[v] = pc[v]
    BY <2>2 DEF StoreInv, TypeOK
  <2>4. CallOrderly(w)'
    BY <2>1, <2>2, <2>3 DEF Orderly, CallOrderly, AllIn
  <2>5. ASSUME NEW v \in Appends, v # w PROVE CallOrderly(v)'
    <3>1. pc[v] # "idle" => savedRows[agg[v]] \subseteq savedRows'[agg[v]]
      BY <2>2 DEF Orderly, Covered, StoreInv, CallShape
    <3> QED
      BY <2>2, <2>3, <2>5, <3>1, OtherCallOrderly DEF Orderly
  <2> QED
    BY <2>2, <2>4, <2>5 DEF Orderly, Covered
<1>6. ASSUME NEW w \in Appends, Return(w)
      PROVE  Orderly'
  <2>1. /\ UNCHANGED <<agg, size, base, written, counter, rows, savedCounter, savedRows>>
        /\ pc[w] = "notify" /\ pc' = [pc EXCEPT ![w] = "done"]
    BY <1>6 DEF Return, Goto, callVars
  <2>2. pc'[w] = "done" /\ \A v \in Appends : v # w => pc'[v] = pc[v]
    BY <2>1 DEF StoreInv, TypeOK
  <2>3. CallOrderly(w)'
    BY <2>1, <2>2 DEF Orderly, CallOrderly, AllIn
  <2>4. ASSUME NEW v \in Appends, v # w PROVE CallOrderly(v)'
    BY <2>1, <2>2, <2>4, OtherCallOrderly DEF Orderly
  <2> QED
    BY <2>1, <2>3, <2>4 DEF Orderly, Covered
<1>7. ASSUME OtherCommit
      PROVE  Orderly'
  <2>1. /\ UNCHANGED <<pc, agg, size, base, written, counter, rows>>
        /\ savedRows' = rows /\ savedCounter' = counter
    BY <1>7 DEF OtherCommit, CommitAll, callVars
  <2>2. ASSUME NEW v \in Appends PROVE CallOrderly(v)'
    <3>1. pc[v] # "idle" => savedRows[agg[v]] \subseteq savedRows'[agg[v]]
      BY <2>1 DEF Orderly, Covered, StoreInv, CallShape
    <3> QED
      BY <2>1, <3>1, OtherCallOrderly DEF Orderly
  <2> QED
    BY <2>1, <2>2 DEF Orderly, Covered
<1>8. ASSUME Crash
      PROVE  Orderly'
  <2>1. /\ UNCHANGED <<agg, size, base, written, savedCounter, savedRows>>
        /\ rows' = savedRows /\ counter' = savedCounter
        /\ pc' = [v \in Appends |->
                    IF pc[v] \in {"idle", "done", "failed"} THEN pc[v] ELSE "lost"]
    BY <1>8 DEF Crash, RollBackAll, callVars
  <2>2. ASSUME NEW v \in Appends PROVE CallOrderly(v)'
    <3>1. pc'[v] \in {"idle", "done", "failed", "lost"} /\ (pc'[v] = "done" => pc[v] = "done")
      BY <2>1
    <3> QED
      BY <2>1, <3>1 DEF Orderly, CallOrderly, AllIn
  <2> QED
    BY <2>1, <2>2 DEF Orderly, Covered
<1>9. ASSUME NEW a \in Aggregates, Poll(a)
      PROVE  Orderly'
  BY <1>9 DEF Poll, callVars, Orderly, Covered, CallOrderly, AllIn
<1>10. ASSUME NEW w \in Appends, Rollback(w)
       PROVE  FALSE
  BY <1>10 DEF Rollback, Orderly, CallOrderly
<1> QED
  BY <1>1, <1>2, <1>3, <1>4, <1>5, <1>6, <1>7, <1>8, <1>9, <1>10
     DEF Next, AppendStep, NothingRollsBack, Raise, LeaveLine, OtherRollback

LEMMA OrderlyInvariance ==
  ASSUME NothingRollsBack
  PROVE  Spec => [](StoreInv /\ Orderly)
<1>1. Init => Orderly
  BY DEF Init, Orderly, Covered, CallOrderly
<1>2. (StoreInv /\ Orderly) /\ StoreInv' /\ [Next]_vars => Orderly'
  <2>1. ASSUME Orderly, UNCHANGED vars PROVE Orderly'
    BY <2>1 DEF vars, callVars, Orderly, Covered, CallOrderly, AllIn
  <2> QED
    BY <2>1, OrderlyStep
<1> QED
  BY <1>1, <1>2, StoreInvariance, PTL DEF Spec

\* The events of an append that returned stay in the committed tables, across
\* the commits of other users of the connection and across crashes, as long
\* as no statement fails, no append is cancelled and nobody rolls back.
THEOREM AppendsDurable ==
  ASSUME NothingRollsBack
  PROVE  Spec => []Durable
<1>1. Orderly => Durable
  BY DEF Orderly, CallOrderly, Durable
<1> QED
  BY <1>1, OrderlyInvariance, PTL
-----------------------------------------------------------------------------
(***************************************************************************)
(* Without crashes too, the numbers have no gap.                           *)
(***************************************************************************)

\* How far the numbers of its aggregate go, as a writing call sees it.
CallNumbered(w) ==
  LET last == Cardinality(rows[agg[w]]) IN
  /\ pc[w] = "base" => counter[agg[w]] - size[w] = last
  /\ pc[w] \in {"insert", "commit", "notify"} => base[w] + written[w] = last

Numbered ==
  /\ \A a \in Aggregates : IsFiniteSet(rows[a])
  /\ Contiguous
  /\ CounterIsLast
  /\ \A w \in Appends : CallNumbered(w)

\* A new number one above the last one leaves no gap.
LEMMA NextNumber ==
  ASSUME NEW table, NEW row,
         IsFiniteSet(table), Seqs(table) = 1 .. Cardinality(table),
         row[1] = Cardinality(table) + 1
  PROVE  /\ IsFiniteSet(table \cup {row})
         /\ Cardinality(table \cup {row}) = Cardinality(table) + 1
         /\ Seqs(table \cup {row}) = 1 .. Cardinality(table \cup {row})
<1>1. Cardinality(table) \in Nat
  BY FS_CardinalityType
<1>2. row \notin table
  <2> SUFFICES ASSUME row \in table PROVE FALSE
    OBVIOUS
  <2>1. row[1] \in Seqs(table)
    BY DEF Seqs
  <2> QED
    BY <1>1, <2>1
<1>3. /\ IsFiniteSet(table \cup {row})
      /\ Cardinality(table \cup {row}) = Cardinality(table) + 1
  BY <1>2, FS_AddElement, Zenon
<1>4. Seqs(table \cup {row}) = Seqs(table) \cup {row[1]}
  BY DEF Seqs
<1>5. (1 .. Cardinality(table)) \cup {Cardinality(table) + 1} = 1 .. (Cardinality(table) + 1)
  BY <1>1
<1> QED
  BY <1>3, <1>4, <1>5

\* A step of one call, seen from another one that is writing.
LEMMA OtherCallNumbered ==
  ASSUME NEW v \in Appends, CallNumbered(v),
         pc'[v] = pc[v], agg'[v] = agg[v], size'[v] = size[v],
         base'[v] = base[v], written'[v] = written[v],
         Writing(v) => /\ counter'[agg[v]] = counter[agg[v]]
                       /\ rows'[agg[v]] = rows[agg[v]]
  PROVE  CallNumbered(v)'
BY DEF CallNumbered, Writing

LEMMA NumberedStep ==
  ASSUME StoreInv, Orderly, Numbered, Next, NothingRollsBack, "crash" \notin Faults
  PROVE  Numbered'
<1>1. ASSUME NEW w \in Appends, NEW a \in Aggregates, NEW n \in 1 .. MaxBatch, Start(w, a, n)
      PROVE  Numbered'
  <2>1. UNCHANGED <<counter, rows, base, written>>
    BY <1>1 DEF Start
  <2>2. /\ pc[w] = "idle" /\ pc'[w] = "enter"
        /\ \A v \in Appends : v # w => pc'[v] = pc[v] /\ agg'[v] = agg[v] /\ size'[v] = size[v]
    BY <1>1 DEF Start, Goto, StoreInv, TypeOK
  <2>3. CounterIsLast'
    BY <2>1, <2>2 DEF Numbered, CounterIsLast, Writing
  <2>4. ASSUME NEW v \in Appends PROVE CallNumbered(v)'
    <3>1. CASE v = w
      BY <2>2, <3>1 DEF CallNumbered
    <3>2. CASE v # w
      BY <2>1, <2>2, <3>2, OtherCallNumbered DEF Numbered
    <3> QED
      BY <3>1, <3>2
  <2> QED
    BY <2>1, <2>3, <2>4 DEF Numbered, Contiguous
<1>2. ASSUME NEW w \in Appends, Count(w)
      PROVE  Numbered'
  <2> DEFINE a == agg[w]
  <2>1. /\ a \in Aggregates /\ size[w] \in Nat /\ pc[w] = "enter"
        /\ w \in lock[a].holders /\ counter[a] \in Nat
    BY <1>2 DEF Count, StoreInv, CallShape, TypeOK
  <2>2. /\ UNCHANGED <<agg, size, base, written, lock, rows>>
        /\ counter' = [counter EXCEPT ![a] = counter[a] + size[w]]
        /\ pc' = [pc EXCEPT ![w] = "base"]
    BY <1>2 DEF Count, Goto, callVars
  <2>3. /\ counter'[a] = counter[a] + size[w]
        /\ \A b \in Aggregates : b # a => counter'[b] = counter[b]
        /\ pc'[w] = "base" /\ \A v \in Appends : v # w => pc'[v] = pc[v]
    BY <2>1, <2>2 DEF StoreInv, TypeOK
  <2>4. \A v \in Appends : agg[v] = a => ~Writing(v)
    BY <2>1, OthersOut DEF Writing
  <2>5. counter[a] = Cardinality(rows[a])
    BY <2>1, <2>4 DEF Numbered, CounterIsLast
  <2>6. CallNumbered(w)'
    BY <2>1, <2>2, <2>3, <2>5 DEF CallNumbered
  <2>7. ASSUME NEW v \in Appends, v # w PROVE CallNumbered(v)'
    <3>1. Writing(v) => agg[v] # a /\ agg[v] \in Aggregates
      BY <2>4 DEF StoreInv, CallShape, Writing
    <3> QED
      BY <2>2, <2>3, <2>7, <3>1, OtherCallNumbered DEF Numbered
  <2>8. CounterIsLast'
    <3> SUFFICES ASSUME NEW b \in Aggregates, \A v \in Appends : agg'[v] = b => ~Writing(v)'
                 PROVE  counter'[b] = Cardinality(rows'[b])
      BY DEF CounterIsLast
    <3>1. b # a
      BY <2>2, <2>3 DEF Writing
    <3>2. \A v \in Appends : agg[v] = b => ~Writing(v)
      BY <2>1, <2>2, <2>3 DEF Writing
    <3> QED
      BY <2>2, <2>3, <3>1, <3>2 DEF Numbered, CounterIsLast
  <2> QED
    BY <2>2, <2>6, <2>7, <2>8 DEF Numbered, Contiguous
<1>3. ASSUME NEW w \in Appends, SelectBase(w)
      PROVE  Numbered'
  <2>1. /\ size[w] \in 1 .. MaxBatch /\ pc[w] = "base" /\ written[w] = 0
        /\ counter[agg[w]] \in Nat /\ counter[agg[w]] >= size[w]
        /\ counter[agg[w]] - size[w] = Cardinality(rows[agg[w]])
    BY <1>3 DEF SelectBase, StoreInv, CallShape, TypeOK, Orderly, CallOrderly,
                Numbered, CallNumbered
  <2>2. counter[agg[w]] # 0
    BY <2>1, ConstantTypes
  <2>3. /\ UNCHANGED <<agg, size, written, lock, counter, rows>>
        /\ pc' = [pc EXCEPT ![w] = "insert"]
        /\ base' = [base EXCEPT ![w] = counter[agg[w]] - size[w]]
    BY <1>3, <2>2 DEF SelectBase, Goto
  <2>4. /\ pc'[w] = "insert" /\ base'[w] = counter[agg[w]] - size[w]
        /\ \A v \in Appends : v # w => pc'[v] = pc[v] /\ base'[v] = base[v]
    BY <2>3 DEF StoreInv, TypeOK
  <2>5. CallNumbered(w)'
    BY <2>1, <2>3, <2>4 DEF CallNumbered
  <2>6. ASSUME NEW v \in Appends, v # w PROVE CallNumbered(v)'
    BY <2>3, <2>4, <2>6, OtherCallNumbered DEF Numbered
  <2>7. \A v \in Appends : Writing(v)' <=> Writing(v)
    BY <2>1, <2>4 DEF Writing
  <2> QED
    BY <2>3, <2>5, <2>6, <2>7 DEF Numbered, Contiguous, CounterIsLast
<1>4. ASSUME NEW w \in Appends, Insert(w)
      PROVE  Numbered'
  <2> DEFINE a == agg[w]
             q == base[w] + written[w] + 1
  <2>1. /\ a \in Aggregates /\ size[w] \in 1 .. MaxBatch /\ pc[w] = "insert"
        /\ written[w] \in Nat /\ base[w] \in Int /\ w \in lock[a].holders
    BY <1>4 DEF Insert, StoreInv, CallShape, TypeOK, LockHeld, Writing
  <2>2. /\ base[w] + written[w] = Cardinality(rows[a])
        /\ IsFiniteSet(rows[a]) /\ Seqs(rows[a]) = 1 .. Cardinality(rows[a])
    BY <2>1 DEF Numbered, CallNumbered, Contiguous
  <2>3. q = Cardinality(rows[a]) + 1 /\ q \notin Seqs(rows[a])
    BY <2>1, <2>2
  <2>4. /\ rows' = [rows EXCEPT ![a] = rows[a] \cup {<<q, w>>}]
        /\ written' = [written EXCEPT ![w] = written[w] + 1]
        /\ pc' = [pc EXCEPT ![w] = IF written[w] + 1 = size[w] THEN "commit" ELSE "insert"]
        /\ UNCHANGED <<agg, size, base, lock, counter>>
    BY <1>4, <2>3 DEF Insert, LastOne, Goto
  <2> HIDE DEF q
  <2>5. /\ rows'[a] = rows[a] \cup {<<q, w>>} /\ written'[w] = written[w] + 1
        /\ pc'[w] \in {"insert", "commit"}
        /\ \A b \in Aggregates : b # a => rows'[b] = rows[b]
        /\ \A v \in Appends : v # w => pc'[v] = pc[v] /\ written'[v] = written[v]
    BY <2>1, <2>4 DEF StoreInv, TypeOK
  <2>6. /\ IsFiniteSet(rows'[a]) /\ Cardinality(rows'[a]) = q
        /\ Seqs(rows'[a]) = 1 .. Cardinality(rows'[a])
    <3> DEFINE row == <<q, w>>
    <3>1. row[1] = Cardinality(rows[a]) + 1
      BY <2>3
    <3>2. rows'[a] = rows[a] \cup {row}
      BY <2>5
    <3> HIDE DEF row
    <3>3. /\ IsFiniteSet(rows[a] \cup {row})
          /\ Cardinality(rows[a] \cup {row}) = Cardinality(rows[a]) + 1
          /\ Seqs(rows[a] \cup {row}) = 1 .. Cardinality(rows[a] \cup {row})
      BY <2>2, <3>1, NextNumber
    <3> QED
      BY <2>3, <3>2, <3>3
  <2>7. CallNumbered(w)'
    <3>1. base[w] + (written[w] + 1) = q
      BY <2>1 DEF q
    <3> QED
      BY <2>4, <2>5, <2>6, <3>1 DEF CallNumbered
  <2>8. ASSUME NEW v \in Appends, v # w PROVE CallNumbered(v)'
    <3>1. Writing(v) => agg[v] # a /\ agg[v] \in Aggregates
      BY <2>1, <2>8, OthersOut DEF StoreInv, CallShape, Writing
    <3> QED
      BY <2>4, <2>5, <2>8, <3>1, OtherCallNumbered DEF Numbered
  <2>9. CounterIsLast'
    <3> SUFFICES ASSUME NEW b \in Aggregates, \A v \in Appends : agg'[v] = b => ~Writing(v)'
                 PROVE  counter'[b] = Cardinality(rows'[b])
      BY DEF CounterIsLast
    <3>1. b # a
      BY <2>4, <2>5 DEF Writing
    <3>2. \A v \in Appends : agg[v] = b => ~Writing(v)
      BY <3>1, <2>4, <2>5 DEF Writing
    <3> QED
      BY <2>4, <2>5, <3>1, <3>2 DEF Numbered, CounterIsLast
  <2>10. \A b \in Aggregates : IsFiniteSet(rows'[b]) /\ Seqs(rows'[b]) = 1 .. Cardinality(rows'[b])
    BY <2>5, <2>6 DEF Numbered, Contiguous
  <2> QED
    BY <2>7, <2>8, <2>9, <2>10 DEF Numbered, Contiguous, Seqs
<1>5. ASSUME NEW w \in Appends, Commit(w)
      PROVE  Numbered'
  <2>1. /\ UNCHANGED <<agg, size, base, written, counter, rows>>
        /\ pc[w] = "commit" /\ pc' = [pc EXCEPT ![w] = "notify"]
    BY <1>5 DEF Commit, CommitAll, Goto, callVars
  <2>2. pc'[w] = "notify" /\ \A v \in Appends : v # w => pc'[v] = pc[v]
    BY <2>1 DEF StoreInv, TypeOK
  <2>3. ASSUME NEW v \in Appends PROVE CallNumbered(v)'
    BY <2>1, <2>2 DEF Numbered, CallNumbered
  <2>4. \A v \in Appends : Writing(v)' <=> Writing(v)
    BY <2>1, <2>2 DEF Writing
  <2> QED
    BY <2>1, <2>3, <2>4 DEF Numbered, Contiguous, CounterIsLast
<1>6. ASSUME NEW w \in Appends, Return(w)
      PROVE  Numbered'
  <2> DEFINE a == agg[w]
  <2>1. /\ UNCHANGED <<agg, size, base, written, counter, rows>>
        /\ pc[w] = "notify" /\ pc' = [pc EXCEPT ![w] = "done"]
    BY <1>6 DEF Return, Goto, callVars
  <2>2. pc'[w] = "done" /\ \A v \in Appends : v # w => pc'[v] = pc[v]
    BY <2>1 DEF StoreInv, TypeOK
  <2>3. a \in Aggregates /\ written[w] = size[w] /\ size[w] \in Int /\ counter[a] \in Nat
    BY <2>1 DEF StoreInv, CallShape, TypeOK
  <2>4. counter[a] = Cardinality(rows[a])
    BY <2>1, <2>3 DEF Orderly, CallOrderly, Numbered, CallNumbered
  <2>5. ASSUME NEW v \in Appends PROVE CallNumbered(v)'
    BY <2>1, <2>2 DEF Numbered, CallNumbered
  <2>6. CounterIsLast'
    <3> SUFFICES ASSUME NEW b \in Aggregates, \A v \in Appends : agg'[v] = b => ~Writing(v)'
                 PROVE  counter'[b] = Cardinality(rows'[b])
      BY DEF CounterIsLast
    <3>1. CASE b = a
      BY <2>1, <2>4, <3>1
    <3>2. CASE b # a
      BY <2>1, <2>2, <3>2 DEF Numbered, CounterIsLast, Writing
    <3> QED
      BY <3>1, <3>2
  <2> QED
    BY <2>1, <2>5, <2>6 DEF Numbered, Contiguous
<1>7. ASSUME OtherCommit \/ \E a \in Aggregates : Poll(a)
      PROVE  Numbered'
  BY <1>7 DEF OtherCommit, CommitAll, Poll, callVars, Numbered, Contiguous, CounterIsLast,
              CallNumbered, Writing
<1>8. ASSUME NEW w \in Appends, Rollback(w)
      PROVE  FALSE
  BY <1>8 DEF Rollback, Orderly, CallOrderly
<1> QED
  BY <1>1, <1>2, <1>3, <1>4, <1>5, <1>6, <1>7, <1>8
     DEF Next, AppendStep, NothingRollsBack, Raise, LeaveLine, OtherRollback, Crash

LEMMA NumberedInvariance ==
  ASSUME NothingRollsBack, "crash" \notin Faults
  PROVE  Spec => [](StoreInv /\ Orderly /\ Numbered)
<1>1. Init => Numbered
  <2> SUFFICES ASSUME Init PROVE Numbered
    OBVIOUS
  <2>1. IsFiniteSet({}) /\ Cardinality({}) = 0 /\ Seqs({}) = 1 .. 0
    BY FS_EmptySet DEF Seqs
  <2> QED
    BY <2>1 DEF Init, Numbered, Contiguous, CounterIsLast, CallNumbered
<1>2. StoreInv /\ Orderly /\ Numbered /\ [Next]_vars => Numbered'
  <2>1. ASSUME Numbered, UNCHANGED vars PROVE Numbered'
    BY <2>1 DEF vars, callVars, Numbered, Contiguous, CounterIsLast, CallNumbered, Writing
  <2> QED
    BY <2>1, NumberedStep
<1> QED
  BY <1>1, <1>2, OrderlyInvariance, PTL DEF Spec

\* The events of every aggregate are numbered 1, 2, 3... without a gap, and
\* between two appends the counter is the last of these numbers, however the
\* statements of appends to different aggregates and the commits of the other
\* users of the connection interleave.
THEOREM NumbersContiguous ==
  ASSUME NothingRollsBack, "crash" \notin Faults
  PROVE  Spec => [](Contiguous /\ CounterIsLast)
<1>1. Numbered => Contiguous /\ CounterIsLast
  BY DEF Numbered
<1> QED
  BY <1>1, NumberedInvariance, PTL
-----------------------------------------------------------------------------
(***************************************************************************)
(* What subscribers are given, and the log behind the tables.              *)
(***************************************************************************)

\* What an INSERT does when the numbers have no gap.
Insertion(w) ==
  LET a == agg[w] IN
  /\ pc[w] = "insert"
  /\ a \in Aggregates
  /\ base[w] + written[w] = Cardinality(rows[a])
  /\ Cardinality(rows[a]) \in Nat
  /\ rows' = [rows EXCEPT ![a] = rows[a] \cup {<<Cardinality(rows[a]) + 1, w>>}]
  /\ written' = [written EXCEPT ![w] = written[w] + 1]
  /\ UNCHANGED <<agg, cursor, delivered>>

\* Every other step leaves the tables alone, and nothing but a poll moves the
\* subscribers.
LEMMA StepRows ==
  ASSUME StoreInv, Orderly, Numbered, Next, NothingRollsBack, "crash" \notin Faults
  PROVE  \/ \E w \in Appends : Insertion(w)
         \/ /\ UNCHANGED <<rows, written>>
            /\ UNCHANGED <<cursor, delivered>> \/ \E a \in Aggregates : Poll(a)
            /\ \A w \in Appends : pc[w] # "idle" => agg'[w] = agg[w]
<1>1. ASSUME NEW w \in Appends, Insert(w)
      PROVE  Insertion(w)
  <2> DEFINE a == agg[w]
  <2>1. /\ a \in Aggregates /\ pc[w] = "insert" /\ written[w] \in Nat /\ base[w] \in Int
    BY <1>1 DEF Insert, StoreInv, CallShape, TypeOK
  <2>2. /\ base[w] + written[w] = Cardinality(rows[a])
        /\ IsFiniteSet(rows[a]) /\ Seqs(rows[a]) = 1 .. Cardinality(rows[a])
    BY <2>1 DEF Numbered, CallNumbered, Contiguous
  <2>3. Cardinality(rows[a]) \in Nat
    BY <2>2, FS_CardinalityType
  <2>4. base[w] + written[w] + 1 \notin Seqs(rows[a])
    BY <2>2, <2>3
  <2>5. /\ rows' = [rows EXCEPT ![a] = rows[a] \cup {<<Cardinality(rows[a]) + 1, w>>}]
        /\ written' = [written EXCEPT ![w] = written[w] + 1]
        /\ UNCHANGED <<agg, cursor, delivered>>
    BY <1>1, <2>2, <2>4 DEF Insert, feedVars
  <2> QED
    BY <2>1, <2>2, <2>3, <2>5 DEF Insertion
<1>2. ASSUME NEW w \in Appends, NEW a \in Aggregates, NEW n \in 1 .. MaxBatch, Start(w, a, n)
      PROVE  /\ UNCHANGED <<rows, written, cursor, delivered>>
             /\ \A v \in Appends : pc[v] # "idle" => agg'[v] = agg[v]
  BY <1>2 DEF Start, feedVars, StoreInv, TypeOK
<1>3. ASSUME NEW w \in Appends, Rollback(w)
      PROVE  FALSE
  BY <1>3 DEF Rollback, Orderly, CallOrderly
<1>4. ASSUME NEW w \in Appends, Count(w) \/ SelectBase(w) \/ Commit(w) \/ Return(w)
      PROVE  UNCHANGED <<rows, written, agg, cursor, delivered>>
  BY <1>4 DEF Count, SelectBase, Commit, CommitAll, Return, callVars, feedVars
<1>5. ASSUME OtherCommit
      PROVE  UNCHANGED <<rows, written, agg, cursor, delivered>>
  BY <1>5 DEF OtherCommit, CommitAll, callVars, feedVars
<1>6. ASSUME NEW a \in Aggregates, Poll(a)
      PROVE  UNCHANGED <<rows, written, agg>>
  BY <1>6 DEF Poll, callVars
<1> QED
  BY <1>1, <1>2, <1>3, <1>4, <1>5, <1>6
     DEF Next, AppendStep, NothingRollsBack, Raise, LeaveLine, OtherRollback, Crash

\* The subscriber has what is in front of its cursor, which is not ahead of
\* the last event.
Fed ==
  /\ FeedComplete
  /\ \A a \in Aggregates : cursor[a] <= Cardinality(rows[a])

\* A page has all the rows between the cursor and its last row.
LEMMA PageWhole ==
  ASSUME StoreInv, Numbered, NEW a \in Aggregates,
         NEW last \in Seqs(Page(a)), \A q \in Seqs(Page(a)) : q <= last
  PROVE  /\ Page(a) = {r \in rows[a] : r[1] > cursor[a] /\ r[1] <= last}
         /\ last \in Int /\ last > cursor[a] /\ last <= Cardinality(rows[a])
<1> DEFINE new == {r \in rows[a] : r[1] > cursor[a]}
           upTo(r) == {x \in new : x[1] <= r[1]}
<1>1. /\ cursor[a] \in Int /\ \A r \in rows[a] : r[1] \in Int
      /\ IsFiniteSet(rows[a]) /\ Seqs(rows[a]) = 1 .. Cardinality(rows[a])
      /\ ReadLimit \in Int
  BY StoreAssumption DEF StoreInv, TypeOK, Row, Numbered, Contiguous
<1>2. Page(a) = {r \in new : Cardinality(upTo(r)) <= ReadLimit}
  BY DEF Page
<1>3. PICK p \in Page(a) : last = p[1]
  BY DEF Seqs
<1>4. p \in new /\ Cardinality(upTo(p)) <= ReadLimit
  BY <1>2, <1>3
<1>5. IsFiniteSet(new)
  BY <1>1, FS_Subset
<1>6. \A r \in new : IsFiniteSet(upTo(r)) /\ Cardinality(upTo(r)) \in Int
  <2> TAKE r \in new
  <2>1. upTo(r) \in SUBSET new
    OBVIOUS
  <2>2. IsFiniteSet(upTo(r))
    BY <1>5, <2>1, FS_Subset
  <2> QED
    BY <2>2, FS_CardinalityType
<1>7. ASSUME NEW r \in new, r[1] <= last
      PROVE  Cardinality(upTo(r)) <= ReadLimit
  <2>1. upTo(r) \in SUBSET upTo(p)
    BY <1>1, <1>3, <1>4, <1>7
  <2>2. Cardinality(upTo(r)) <= Cardinality(upTo(p))
    BY <1>4, <1>6, <2>1, FS_Subset
  <2>3. Cardinality(upTo(r)) \in Int /\ Cardinality(upTo(p)) \in Int
    BY <1>4, <1>6
  <2> HIDE DEF upTo, new
  <2> QED
    BY <1>1, <1>4, <2>2, <2>3
<1>8. \A r \in Page(a) : r[1] <= last
  BY DEF Seqs
<1>9. last \in Seqs(rows[a])
  BY <1>3, <1>4 DEF Seqs
<1> QED
  BY <1>1, <1>2, <1>3, <1>4, <1>7, <1>8, <1>9

LEMMA FedStep ==
  ASSUME StoreInv, Orderly, Numbered, Fed, Next, NothingRollsBack, "crash" \notin Faults
  PROVE  Fed'
<1>1. ASSUME NEW w \in Appends, Insertion(w)
      PROVE  Fed'
  <2> DEFINE a == agg[w]
             q == Cardinality(rows[a]) + 1
  <2>1. /\ a \in Aggregates /\ Cardinality(rows[a]) \in Nat
        /\ rows'[a] = rows[a] \cup {<<q, w>>}
        /\ \A b \in Aggregates : b # a => rows'[b] = rows[b]
        /\ UNCHANGED <<cursor, delivered>>
    BY <1>1 DEF Insertion, StoreInv, TypeOK
  <2>2. cursor[a] \in Int /\ cursor[a] <= Cardinality(rows[a])
    BY <2>1 DEF Fed, StoreInv, TypeOK
  <2>3. IsFiniteSet(rows[a])
    BY <2>1 DEF Numbered
  <2>4. Cardinality(rows'[a]) \in Nat /\ Cardinality(rows'[a]) >= Cardinality(rows[a])
    <3>1. \A x : Cardinality(rows[a] \cup {x}) =
                   IF x \in rows[a] THEN Cardinality(rows[a]) ELSE Cardinality(rows[a]) + 1
      BY <2>3, FS_AddElement
    <3> DEFINE row == <<q, w>>
    <3>2. rows'[a] = rows[a] \cup {row}
      BY <2>1
    <3> HIDE DEF row, q
    <3> QED
      BY <2>1, <3>1, <3>2
  <2>5. {r \in rows'[a] : r[1] <= cursor[a]} = {r \in rows[a] : r[1] <= cursor[a]}
    BY <2>1, <2>2
  <2>6. cursor'[a] <= Cardinality(rows'[a]) /\ delivered'[a] = {r \in rows'[a] : r[1] <= cursor'[a]}
    BY <2>1, <2>2, <2>4, <2>5 DEF Fed, FeedComplete
  <2> HIDE DEF a
  <2> QED
    BY <2>1, <2>6 DEF Fed, FeedComplete
<1>2. ASSUME NEW a \in Aggregates, Poll(a)
      PROVE  Fed'
  <2>1. /\ UNCHANGED rows
        /\ delivered' = [delivered EXCEPT ![a] = delivered[a] \cup Page(a)]
    BY <1>2 DEF Poll
  <2>2. PICK last \in Seqs(Page(a)) : /\ \A q \in Seqs(Page(a)) : q <= last
                                      /\ cursor' = [cursor EXCEPT ![a] = last]
    BY <1>2 DEF Poll
  <2>3. /\ Page(a) = {r \in rows[a] : r[1] > cursor[a] /\ r[1] <= last}
        /\ last \in Int /\ last > cursor[a] /\ last <= Cardinality(rows[a])
    BY <2>2, PageWhole
  <2>4. /\ cursor'[a] = last /\ delivered'[a] = delivered[a] \cup Page(a)
        /\ \A b \in Aggregates : b # a => cursor'[b] = cursor[b] /\ delivered'[b] = delivered[b]
    BY <2>1, <2>2 DEF StoreInv, TypeOK
  <2>5. /\ delivered[a] = {r \in rows[a] : r[1] <= cursor[a]}
        /\ cursor[a] \in Int /\ \A r \in rows[a] : r[1] \in Int
    BY DEF Fed, FeedComplete, StoreInv, TypeOK, Row
  <2>6. delivered'[a] = {r \in rows[a] : r[1] <= last}
    BY <2>3, <2>4, <2>5
  <2> QED
    BY <2>1, <2>3, <2>4, <2>6 DEF Fed, FeedComplete
<1>3. ASSUME UNCHANGED <<rows, cursor, delivered>>
      PROVE  Fed'
  BY <1>3 DEF Fed, FeedComplete
<1> QED
  BY <1>1, <1>2, <1>3, StepRows

\* A subscriber has been given exactly the events up to its cursor, whatever
\* the size of the pages and however its polls fall between the statements of
\* the appends.
THEOREM FeedsComplete ==
  ASSUME NothingRollsBack, "crash" \notin Faults
  PROVE  Spec => []FeedComplete
<1>1. Init => Fed
  <2>1. Cardinality({}) = 0
    BY FS_EmptySet
  <2> QED
    BY <2>1 DEF Init, Fed, FeedComplete
<1>2. StoreInv /\ Orderly /\ Numbered /\ Fed /\ [Next]_vars => Fed'
  <2>1. ASSUME Fed, UNCHANGED vars PROVE Fed'
    BY <2>1 DEF vars, feedVars, Fed, FeedComplete
  <2> QED
    BY <2>1, FedStep
<1>3. Fed => FeedComplete
  BY DEF Fed
<1> QED
  BY <1>1, <1>2, <1>3, NumberedInvariance, PTL DEF Spec
-----------------------------------------------------------------------------
(***************************************************************************)
(* The rows are a log that only grows.                                     *)
(***************************************************************************)

\* No number is used twice, and every row is one of a call that writes or
\* wrote to this aggregate.
Owned ==
  \A a \in Aggregates :
    /\ \A r, s \in rows[a] : r[1] = s[1] => r = s
    /\ \A r \in rows[a] : pc[r[2]] # "idle" /\ agg[r[2]] = a /\ written[r[2]] > 0

LEMMA OwnedStep ==
  ASSUME StoreInv, Orderly, Numbered, Owned, Next, NothingRollsBack, "crash" \notin Faults
  PROVE  Owned'
<1>1. \A w \in Appends : pc[w] # "idle" => pc'[w] # "idle"
  BY DEF Next, AppendStep, Start, Count, SelectBase, Insert, Commit, Return, Rollback, Raise,
         LeaveLine, OtherCommit, OtherRollback, Crash, Poll, Goto, StoreInv, TypeOK
<1>2. \A a \in Aggregates : \A r \in rows[a] : r[1] \in Int /\ r[2] \in Appends
  BY DEF StoreInv, TypeOK, Row
<1>3. ASSUME NEW w \in Appends, Insertion(w)
      PROVE  Owned'
  <2> DEFINE a == agg[w]
             q == Cardinality(rows[a]) + 1
  <2>1. /\ a \in Aggregates /\ Cardinality(rows[a]) \in Nat /\ pc[w] # "idle"
        /\ rows'[a] = rows[a] \cup {<<q, w>>}
        /\ \A b \in Aggregates : b # a => rows'[b] = rows[b]
        /\ written[w] \in Nat /\ written'[w] = written[w] + 1
        /\ \A v \in Appends : v # w => written'[v] = written[v]
        /\ UNCHANGED agg
    BY <1>3 DEF Insertion, StoreInv, TypeOK
  <2>2. \A r \in rows[a] : r[1] # q
    <3>1. Seqs(rows[a]) = 1 .. Cardinality(rows[a])
      BY <2>1 DEF Numbered, Contiguous
    <3> QED
      BY <2>1, <3>1 DEF Seqs
  <2>3. \A v \in Appends : written[v] > 0 => written'[v] > 0
    BY <2>1
  <2>4. \A b \in Aggregates : \A r \in rows[b] :
          r[2] \in Appends /\ pc'[r[2]] # "idle" /\ agg'[r[2]] = b /\ written'[r[2]] > 0
    BY <1>1, <1>2, <2>1, <2>3 DEF Owned
  <2>5. agg'[w] = a /\ written'[w] > 0 /\ pc'[w] # "idle"
    BY <1>1, <2>1
  <2>6. /\ \A r, s \in rows'[a] : r[1] = s[1] => r = s
        /\ \A r \in rows'[a] : pc'[r[2]] # "idle" /\ agg'[r[2]] = a /\ written'[r[2]] > 0
    <3>1. \A r \in rows'[a] : r \in rows[a] \/ r = <<q, w>>
      BY <2>1
    <3> HIDE DEF q
    <3>2. \A r, s \in rows'[a] : r[1] = s[1] => r = s
      BY <2>1, <2>2, <3>1 DEF Owned
    <3> QED
      BY <2>1, <2>4, <2>5, <3>1, <3>2
  <2> HIDE DEF a
  <2> QED
    BY <2>1, <2>4, <2>6 DEF Owned
<1>4. ASSUME UNCHANGED <<rows, written>>,
             \A w \in Appends : pc[w] # "idle" => agg'[w] = agg[w]
      PROVE  Owned'
  BY <1>1, <1>2, <1>4 DEF Owned
<1> QED
  BY <1>3, <1>4, StepRows

\* The writer of a number in a table that uses no number twice.
LEMMA RowAt ==
  ASSUME NEW table, \A r, s \in table : r[1] = s[1] => r = s,
         NEW i, NEW w \in Appends, <<i, w>> \in table
  PROVE  (CHOOSE v \in Appends : <<i, v>> \in table) = w
<1>1. ASSUME NEW v \in Appends, <<i, v>> \in table
      PROVE  v = w
  <2>1. <<i, v>>[1] = <<i, w>>[1]
    OBVIOUS
  <2>2. <<i, v>> = <<i, w>>
    BY <1>1, <2>1
  <2> QED
    BY <2>2
<1> QED
  BY <1>1

\* The log of an aggregate: as long as its table, and every entry has a row.
LEMMA LogEntries ==
  ASSUME StoreInv, Numbered, NEW a \in Aggregates
  PROVE  /\ LogOfRows[a] \in Seq(Appends)
         /\ Len(LogOfRows[a]) = Cardinality(rows[a])
         /\ DOMAIN LogOfRows[a] = 1 .. Cardinality(rows[a])
         /\ \A i \in 1 .. Cardinality(rows[a]) : <<i, LogOfRows[a][i]>> \in rows[a]
<1> DEFINE n == Cardinality(rows[a])
           entry(i) == CHOOSE w \in Appends : <<i, w>> \in rows[a]
<1>1. n \in Nat /\ Seqs(rows[a]) = 1 .. n
  BY FS_CardinalityType DEF Numbered, Contiguous
<1>2. ASSUME NEW i \in 1 .. n
      PROVE  entry(i) \in Appends /\ <<i, entry(i)>> \in rows[a]
  <2>1. PICK r \in rows[a] : r[1] = i
    BY <1>1 DEF Seqs
  <2>2. r \in Int \X Appends
    BY DEF StoreInv, TypeOK, Row
  <2>3. r[2] \in Appends /\ r = <<i, r[2]>>
    BY <2>1, <2>2
  <2>4. \E w \in Appends : <<i, w>> \in rows[a]
    BY <2>3
  <2> QED
    BY <2>4
<1>3. LogOfRows[a] = [i \in 1 .. n |-> entry(i)]
  BY DEF LogOfRows, LogOf
<1> HIDE DEF n, entry
<1>4. LogOfRows[a] \in [1 .. n -> Appends]
  BY <1>2, <1>3
<1>5. LogOfRows[a] \in Seq(Appends) /\ Len(LogOfRows[a]) = n
  BY <1>1, <1>4, SeqDef, LenProperties
<1>6. \A i \in 1 .. n : <<i, LogOfRows[a][i]>> \in rows[a]
  BY <1>2, <1>3
<1> QED
  BY <1>3, <1>5, <1>6 DEF n

\* An insertion extends the log of its aggregate.
LEMMA InsertionExtends ==
  ASSUME StoreInv, StoreInv', Orderly, Numbered, Numbered', Owned, Owned',
         NEW w \in Appends, Insertion(w)
  PROVE  Log!Extend(agg[w], w)
<1> DEFINE a == agg[w]
           n == Cardinality(rows[a])
<1>1. /\ pc[w] = "insert" /\ a \in Aggregates /\ n \in Nat /\ base[w] + written[w] = n
      /\ rows'[a] = rows[a] \cup {<<n + 1, w>>}
      /\ \A b \in Aggregates : b # a => rows'[b] = rows[b]
      /\ written[w] \in Nat /\ base[w] \in Int
  BY DEF Insertion, StoreInv, TypeOK
<1>2. Log!Fresh(w) \/ (LogOfRows[a] # <<>> /\ LogOfRows[a][Len(LogOfRows[a])] = w)
  <2>1. CASE written[w] = 0
    <3> SUFFICES ASSUME NEW b \in Aggregates, NEW i \in DOMAIN LogOfRows[b]
                 PROVE  LogOfRows[b][i] # w
      BY DEF Log!Fresh
    <3>1. <<i, LogOfRows[b][i]>> \in rows[b]
      BY LogEntries
    <3>2. written[<<i, LogOfRows[b][i]>>[2]] > 0
      BY <3>1 DEF Owned
    <3> QED
      BY <2>1, <3>2
  <2>2. CASE written[w] > 0
    <3>1. <<n, w>> \in rows[a]
      BY <1>1, <2>2 DEF Orderly, CallOrderly
    <3>2. n \in 1 .. n
      <4>1. n \in Seqs(rows[a])
        BY <3>1 DEF Seqs
      <4> QED
        BY <1>1, <4>1 DEF Numbered, Contiguous
    <3>3. Len(LogOfRows[a]) = n /\ <<n, LogOfRows[a][n]>> \in rows[a]
      BY <1>1, <3>2, LogEntries
    <3>4. LogOfRows[a][n] = w
      <4>1. <<n, w>>[1] = <<n, LogOfRows[a][n]>>[1]
        OBVIOUS
      <4>2. <<n, w>> = <<n, LogOfRows[a][n]>>
        BY <1>1, <3>1, <3>3, <4>1 DEF Owned
      <4> QED
        BY <4>2
    <3>5. LogOfRows[a] # <<>>
      BY <1>1, <3>2, <3>3
    <3> QED
      BY <3>3, <3>4, <3>5
  <2> QED
    BY <1>1, <2>1, <2>2
<1>3. LogOfRows'[a] = Append(LogOfRows[a], w)
  <2>1. /\ LogOfRows[a] \in Seq(Appends) /\ Len(LogOfRows[a]) = n
        /\ \A i \in 1 .. n : <<i, LogOfRows[a][i]>> \in rows[a]
    BY <1>1, LogEntries
  <2>2. \A i \in 1 .. n : LogOfRows[a][i] \in Appends
    BY <2>1, ElementOfSeq
  <2>3. Cardinality(rows'[a]) = n + 1
    <3> DEFINE row == <<n + 1, w>>
    <3>1. row[1] = n + 1 /\ rows'[a] = rows[a] \cup {row}
      BY <1>1
    <3> HIDE DEF row
    <3> QED
      BY <1>1, <3>1, NextNumber DEF Numbered, Contiguous
  <2>4. LogOfRows'[a] = [i \in 1 .. n + 1 |-> CHOOSE v \in Appends : <<i, v>> \in rows'[a]]
    BY <1>1, <2>3 DEF LogOfRows, LogOf
  <2>5. \A r, s \in rows'[a] : r[1] = s[1] => r = s
    BY <1>1 DEF Owned
  <2>6. ASSUME NEW i \in 1 .. n + 1
        PROVE  LogOfRows'[a][i] = IF i <= n THEN LogOfRows[a][i] ELSE w
    <3> DEFINE v == IF i <= n THEN LogOfRows[a][i] ELSE w
    <3>1. v \in Appends /\ <<i, v>> \in rows'[a]
      <4>1. CASE i <= n
        <5>1. i \in 1 .. n
          BY <1>1, <4>1
        <5> QED
          BY <1>1, <2>1, <2>2, <4>1, <5>1
      <4>2. CASE ~(i <= n)
        <5>1. i = n + 1
          BY <1>1, <4>2
        <5> QED
          BY <1>1, <4>2, <5>1
      <4> QED
        BY <4>1, <4>2
    <3> HIDE DEF v
    <3>2. (CHOOSE u \in Appends : <<i, u>> \in rows'[a]) = v
      BY <2>5, <3>1, RowAt
    <3>3. LogOfRows'[a][i] = v
      BY <2>4, <3>2
    <3> QED
      BY <3>3 DEF v
  <2> HIDE DEF n, a
  <2>7. /\ Append(LogOfRows[a], w) \in Seq(Appends)
        /\ Len(Append(LogOfRows[a], w)) = n + 1
        /\ \A i \in 1 .. n + 1 : Append(LogOfRows[a], w)[i] = IF i <= n THEN LogOfRows[a][i] ELSE w
    BY <1>1, <2>1, AppendProperties
  <2>8. /\ LogOfRows'[a] \in [1 .. n + 1 -> Appends]
        /\ Append(LogOfRows[a], w) \in [1 .. n + 1 -> Appends]
    <3>1. \A i \in 1 .. n + 1 : LogOfRows'[a][i] \in Appends
      BY <1>1, <2>2, <2>6
    <3> QED
      BY <2>4, <2>7, <3>1, LenProperties
  <2> QED
    BY <2>6, <2>7, <2>8
<1>4. \A b \in Aggregates : b # a => LogOfRows'[b] = LogOfRows[b]
  BY <1>1 DEF LogOfRows
<1>5. LogOfRows' = [LogOfRows EXCEPT ![a] = Append(LogOfRows[a], w)]
  <2> HIDE DEF a
  <2>1. /\ LogOfRows  = [b \in Aggregates |-> LogOfRows[b]]
        /\ LogOfRows' = [b \in Aggregates |-> LogOfRows'[b]]
    BY DEF LogOfRows
  <2> QED
    BY <1>1, <1>3, <1>4, <2>1
<1> QED
  BY <1>2, <1>5 DEF Log!Extend

\* The tables of the store are a log per aggregate that only grows at its end,
\* with the events of one append next to each other: every statement is a step
\* of EventLog or leaves the log alone.
THEOREM StoreImplementsLog ==
  ASSUME NothingRollsBack, "crash" \notin Faults
  PROVE  Spec => ImplementsEventLog
<1>1. Init => Owned
  BY DEF Init, Owned
<1>2. StoreInv /\ Orderly /\ Numbered /\ Owned /\ [Next]_vars => Owned'
  <2>1. ASSUME Owned, UNCHANGED vars PROVE Owned'
    BY <2>1 DEF vars, callVars, Owned
  <2> QED
    BY <2>1, OwnedStep
<1>3. Init => Log!Init
  <2> SUFFICES ASSUME Init PROVE LogOfRows = [a \in Aggregates |-> <<>>]
    BY DEF Log!Init
  <2>1. \A a \in Aggregates : Cardinality(rows[a]) = 0
    BY FS_EmptySet DEF Init
  <2>2. ASSUME NEW a \in Aggregates PROVE LogOfRows[a] = <<>>
    <3>1. LogOfRows[a] = [i \in 1 .. 0 |-> CHOOSE w \in Appends : <<i, w>> \in rows[a]]
      BY <2>1 DEF LogOfRows, LogOf
    <3>2. 1 .. 0 = {}
      OBVIOUS
    <3> QED
      BY <3>1, <3>2
  <2> QED
    BY <2>2 DEF LogOfRows
<1>4. /\ StoreInv /\ Orderly /\ Numbered /\ Owned
      /\ StoreInv' /\ Numbered' /\ Owned' /\ [Next]_vars
      => [Log!Next]_LogOfRows
  <2> SUFFICES ASSUME StoreInv, Orderly, Numbered, Owned, StoreInv', Numbered', Owned', [Next]_vars
               PROVE  Log!Next \/ UNCHANGED LogOfRows
    OBVIOUS
  <2>1. ASSUME UNCHANGED rows PROVE UNCHANGED LogOfRows
    BY <2>1 DEF LogOfRows
  <2>2. ASSUME NEW w \in Appends, Insertion(w) PROVE Log!Next
    <3>1. agg[w] \in Aggregates
      BY <2>2 DEF Insertion
    <3> QED
      BY <2>2, <3>1, InsertionExtends DEF Log!Next
  <2>3. CASE UNCHANGED vars
    BY <2>1, <2>3 DEF vars
  <2>4. CASE Next
    BY <2>1, <2>2, <2>4, StepRows
  <2> QED
    BY <2>3, <2>4
<1> QED
  BY <1>1, <1>2, <1>3, <1>4, NumberedInvariance, PTL DEF Spec, ImplementsEventLog, Log!Spec
=============================================================================
