--------------------------- MODULE Waiting_proofs ---------------------------
(***************************************************************************)
(* Theorems about those who wait.  In queues: chat streams for slots and   *)
(* locks, events for WebSocket clients, and the inputs of a session.  For  *)
(* the answer of somebody: agents of the browser, clients of a server over *)
(* pipes, MCP clients of an authorization server, and callers of a shell.  *)
(* Each section has the invariant of one module, that it starts and stays  *)
(* true, and the theorem.  The last section is about the messages sent to  *)
(* a model, whose answer an agent waits for.                               *)
(***************************************************************************)
EXTENDS StreamSlots, EventBridge, InputInbox, BrowserTool, RpcClient, OAuthTokens, Terminals,
        WireMessages, SharedTheorems

\* The streams that are past the semaphore have a slot, the ones that wait
\* have one or stand in line, and nobody else does either.
SlotsAreUsed ==
  /\ \A s \in SlotStreams : Uses(slotPool, s) <=> HasSlot(s) \/ slotPlace[s] = "waiting"
  /\ \A s \in SlotStreams : HasSlot(s) => s \in slotPool.holders

\* While a session is locked one of its streams will unlock it.
WillUnlock(s) == slotPlace[s] \in {"streaming", "abandoned", "loose"}
LocksAreUsed ==
  \A x \in SlotSessions : slotLocks[x] =>
    \E s \in SlotStreams : slotSession[s] = x /\ WillUnlock(s)

SlotInv ==
  /\ SlotTypeOK
  /\ OrderlyPool(slotPool) /\ WithinLimit(slotPool, MaxStreaming)
  /\ SlotsAreUsed
  /\ LocksAreUsed

\* Requests stand in the order of their numbers, behind those that have slots,
\* and only while no slot is free.
RankedPool(pool, capacity) ==
  /\ \A i, j \in 1 .. Len(pool.queue) : i < j => pool.queue[i] < pool.queue[j]
  /\ \A t \in pool.holders : \A i \in 1 .. Len(pool.queue) : t < pool.queue[i]
  /\ pool.queue # <<>> => Cardinality(pool.holders) = capacity

\* Requests come in the order of their numbers.
RankInv ==
  /\ \A s, t \in SlotStreams : s < t /\ slotPlace[s] = "new" => slotPlace[t] = "new"
  /\ RankedPool(slotPool, MaxStreaming)

-----------------------------------------------------------------------------
LEMMA SlotInvInitially == SlotInit => SlotInv
<1> SUFFICES ASSUME SlotInit PROVE SlotInv
  OBVIOUS
<1> USE DEF SlotInit, AllFree
<1>1. <<>> \in Seq(SlotStreams) /\ Len(<<>>) = 0 /\ 1 .. 0 = {}
  BY EmptySeq
<1>2. SlotTypeOK
  BY <1>1 DEF SlotTypeOK, SlotPlaces, PermitPool
<1>3. OrderlyPool(slotPool) /\ (\A s \in SlotStreams : ~Uses(slotPool, s))
  BY <1>1 DEF OrderlyPool, Uses, InLine
<1>4. WithinLimit(slotPool, MaxStreaming)
  BY FS_EmptySet, SlotsAssumption DEF WithinLimit
<1> QED
  BY <1>2, <1>3, <1>4 DEF SlotInv, SlotsAreUsed, LocksAreUsed, HasSlot

\* A stream that moves between places with a slot keeps it.
LEMMA MoveWithSlot ==
  ASSUME SlotInv, NEW s \in SlotStreams, NEW place \in SlotPlaces,
         s \in slotPool.holders, StreamAt(s, place), UNCHANGED slotPool,
         place \in {"entered", "streaming", "rejected", "closing", "abandoned"}
  PROVE  /\ slotPlace' \in [SlotStreams -> SlotPlaces]
         /\ OrderlyPool(slotPool)' /\ WithinLimit(slotPool, MaxStreaming)'
         /\ SlotsAreUsed'
<1>1. slotPlace' \in [SlotStreams -> SlotPlaces]
  BY DEF SlotInv, SlotTypeOK, StreamAt
<1>2. SlotsAreUsed'
  BY DEF SlotInv, SlotTypeOK, SlotsAreUsed, StreamAt, HasSlot, Uses
<1> QED
  BY <1>1, <1>2 DEF SlotInv, OrderlyPool, WithinLimit

\* A stream that gives its slot or its place in line back takes no other's.
LEMMA MoveOut ==
  ASSUME SlotInv, NEW s \in SlotStreams, NEW place \in {"loose", "over"},
         StreamAt(s, place), GiveSlot(s)
  PROVE  /\ slotPlace' \in [SlotStreams -> SlotPlaces]
         /\ slotPool' \in PermitPool(SlotStreams)
         /\ OrderlyPool(slotPool)' /\ WithinLimit(slotPool, MaxStreaming)'
         /\ SlotsAreUsed'
<1> slotPool \in PermitPool(SlotStreams) /\ slotPool' = Leave(slotPool, s) /\ MaxStreaming \in Nat
  BY SlotsAssumption DEF SlotInv, SlotTypeOK, GiveSlot
<1>1. slotPlace' \in [SlotStreams -> SlotPlaces]
  BY DEF SlotInv, SlotTypeOK, StreamAt, SlotPlaces
<1>2. slotPool' \in PermitPool(SlotStreams)
  BY PoolType
<1>3. WithinLimit(slotPool, MaxStreaming)'
  BY LimitKept DEF SlotInv, WithinLimit
<1>4. /\ OrderlyPool(slotPool')
      /\ \A x : Uses(slotPool', x) <=> Uses(slotPool, x) /\ x # s
      /\ slotPool.holders \ {s} \subseteq slotPool'.holders
  BY OrderlyLeave DEF SlotInv
<1>5. ASSUME NEW t \in SlotStreams
      PROVE  /\ Uses(slotPool', t) <=> HasSlot(t)' \/ slotPlace'[t] = "waiting"
             /\ HasSlot(t)' => t \in slotPool'.holders
  <2>1. CASE t = s
    BY <2>1, <1>4 DEF SlotInv, SlotTypeOK, StreamAt, HasSlot
  <2>2. CASE t # s
    <3>1. slotPlace'[t] = slotPlace[t]
      BY <2>2 DEF SlotInv, SlotTypeOK, StreamAt
    <3> QED
      BY <2>2, <3>1, <1>4 DEF SlotInv, SlotsAreUsed, HasSlot
  <2> QED
    BY <2>1, <2>2
<1>6. SlotsAreUsed'
  BY <1>5 DEF SlotsAreUsed, Uses
<1>7. OrderlyPool(slotPool)'
  BY <1>4 DEF OrderlyPool
<1> QED
  BY <1>1, <1>2, <1>3, <1>6, <1>7

\* A lock stays in use when none is taken, and the stream that moves had none
\* to give back or still has.
LEMMA LocksUntouched ==
  ASSUME SlotInv, NEW s \in SlotStreams, NEW place,
         StreamAt(s, place), UNCHANGED <<slotSession, slotLocks>>,
         WillUnlock(s) => place \in {"streaming", "abandoned", "loose"}
  PROVE  LocksAreUsed'
  BY DEF SlotInv, SlotTypeOK, LocksAreUsed, StreamAt, WillUnlock

\* The stream that unlocks its session disturbs no other.
LEMMA LocksReleased ==
  ASSUME SlotInv, NEW s \in SlotStreams, NEW place,
         StreamAt(s, place), SetLock(s, FALSE), UNCHANGED slotSession
  PROVE  slotLocks' \in [SlotSessions -> BOOLEAN] /\ LocksAreUsed'
<1>1. slotLocks' \in [SlotSessions -> BOOLEAN] /\ ~slotLocks'[slotSession[s]]
  BY DEF SlotInv, SlotTypeOK, SetLock
<1>2. ASSUME NEW x \in SlotSessions, slotLocks'[x]
      PROVE  \E t \in SlotStreams : slotSession'[t] = x /\ WillUnlock(t)'
  <2>1. x # slotSession[s] /\ slotLocks[x]
    BY <1>1, <1>2 DEF SlotInv, SlotTypeOK, SetLock
  <2>2. PICK t \in SlotStreams : slotSession[t] = x /\ WillUnlock(t)
    BY <2>1 DEF SlotInv, LocksAreUsed
  <2>3. t # s
    BY <2>1, <2>2
  <2> QED
    BY <2>2, <2>3 DEF SlotInv, SlotTypeOK, StreamAt, WillUnlock
<1> QED
  BY <1>1, <1>2 DEF LocksAreUsed

LEMMA SlotInvKept == SlotInv /\ [SlotNext]_slotVars => SlotInv'
<1> SUFFICES ASSUME SlotInv, [SlotNext]_slotVars PROVE SlotInv'
  OBVIOUS
<1> USE DEF SlotPlaces
<1>1. ASSUME NEW s \in SlotStreams, AskForSlot(s) PROVE SlotInv'
  <2> /\ slotPool \in PermitPool(SlotStreams) /\ slotPool' = Join(slotPool, s, MaxStreaming)
      /\ MaxStreaming \in Nat /\ slotPlace[s] = "new" /\ StreamAt(s, "waiting")
      /\ UNCHANGED <<slotSession, slotLocks>>
    BY <1>1, SlotsAssumption DEF SlotInv, SlotTypeOK, AskForSlot
  <2>1. ~Uses(slotPool, s)
    BY DEF SlotInv, SlotsAreUsed, HasSlot
  <2>2. /\ OrderlyPool(slotPool')
        /\ \A x : Uses(slotPool', x) <=> Uses(slotPool, x) \/ x = s
        /\ slotPool.holders \subseteq slotPool'.holders
    BY <2>1, OrderlyJoin DEF SlotInv
  <2>3. slotPool' \in PermitPool(SlotStreams)
    BY PoolType
  <2>4. WithinLimit(slotPool', MaxStreaming)
    BY LimitKept DEF SlotInv
  <2>5. SlotTypeOK'
    BY <2>3 DEF SlotInv, SlotTypeOK, StreamAt
  <2>6. SlotsAreUsed'
    <3>1. ASSUME NEW t \in SlotStreams
          PROVE  /\ Uses(slotPool', t) <=> HasSlot(t)' \/ slotPlace'[t] = "waiting"
                 /\ HasSlot(t)' => t \in slotPool'.holders
      <4>1. CASE t = s
        BY <4>1, <2>2 DEF SlotInv, SlotTypeOK, StreamAt, HasSlot
      <4>2. CASE t # s
        <5>1. slotPlace'[t] = slotPlace[t]
          BY <4>2 DEF SlotInv, SlotTypeOK, StreamAt
        <5> QED
          BY <4>2, <5>1, <2>2 DEF SlotInv, SlotsAreUsed, HasSlot
      <4> QED
        BY <4>1, <4>2
    <3> QED
      BY <3>1 DEF SlotsAreUsed, Uses
  <2>7. LocksAreUsed'
    BY LocksUntouched DEF WillUnlock
  <2> QED
    BY <2>2, <2>4, <2>5, <2>6, <2>7 DEF SlotInv, OrderlyPool, WithinLimit
<1>2. ASSUME NEW s \in SlotStreams, EnterSlot(s) PROVE SlotInv'
  <2> /\ s \in slotPool.holders /\ StreamAt(s, "entered") /\ slotPlace[s] = "waiting"
      /\ UNCHANGED <<slotSession, slotPool, slotLocks>>
    BY <1>2 DEF EnterSlot
  <2>1. LocksAreUsed'
    BY LocksUntouched DEF WillUnlock
  <2> QED
    BY <2>1, MoveWithSlot DEF SlotInv, SlotTypeOK
<1>3. ASSUME NEW s \in SlotStreams, LockOrReject(s) PROVE SlotInv'
  <2>0. /\ s \in slotPool.holders /\ slotPlace[s] = "entered"
        /\ UNCHANGED <<slotSession, slotPool>>
    BY <1>3 DEF LockOrReject, SlotInv, SlotsAreUsed, HasSlot
  <2>1. CASE slotLocks[slotSession[s]]
    <3>1. StreamAt(s, "rejected") /\ UNCHANGED slotLocks
      BY <1>3, <2>1 DEF LockOrReject
    <3>2. LocksAreUsed'
      BY <2>0, <3>1, LocksUntouched DEF WillUnlock
    <3> QED
      BY <2>0, <3>1, <3>2, MoveWithSlot DEF SlotInv, SlotTypeOK
  <2>2. CASE ~slotLocks[slotSession[s]]
    <3>1. StreamAt(s, "streaming") /\ SetLock(s, TRUE)
      BY <1>3, <2>2 DEF LockOrReject
    <3>2. slotLocks' \in [SlotSessions -> BOOLEAN]
      BY <3>1 DEF SlotInv, SlotTypeOK, SetLock
    <3>3. LocksAreUsed'
      <4>1. ASSUME NEW x \in SlotSessions, slotLocks'[x]
            PROVE  \E t \in SlotStreams : slotSession'[t] = x /\ WillUnlock(t)'
        <5>1. CASE x = slotSession[s]
          BY <5>1, <2>0, <3>1 DEF SlotInv, SlotTypeOK, StreamAt, WillUnlock
        <5>2. CASE x # slotSession[s]
          <6>1. slotLocks[x]
            BY <4>1, <5>2, <3>1 DEF SlotInv, SlotTypeOK, SetLock
          <6>2. PICK t \in SlotStreams : slotSession[t] = x /\ WillUnlock(t)
            BY <6>1 DEF SlotInv, LocksAreUsed
          <6> QED
            BY <6>2, <2>0, <3>1 DEF SlotInv, SlotTypeOK, StreamAt, WillUnlock
        <5> QED
          BY <5>1, <5>2
      <4> QED
        BY <4>1 DEF LocksAreUsed
    <3> QED
      BY <2>0, <3>1, <3>2, <3>3, MoveWithSlot DEF SlotInv, SlotTypeOK
  <2> QED
    BY <2>1, <2>2
<1>4. ASSUME NEW s \in SlotStreams, CloseStream(s) PROVE SlotInv'
  <2> /\ s \in slotPool.holders /\ StreamAt(s, "closing") /\ SetLock(s, FALSE)
      /\ UNCHANGED <<slotSession, slotPool>>
    BY <1>4 DEF CloseStream, SlotInv, SlotsAreUsed, HasSlot
  <2>1. slotLocks' \in [SlotSessions -> BOOLEAN] /\ LocksAreUsed'
    BY LocksReleased
  <2> QED
    BY <2>1, MoveWithSlot DEF SlotInv, SlotTypeOK
<1>5. ASSUME NEW s \in SlotStreams, LeaveSlot(s) \/ GoneEarly(s) PROVE SlotInv'
  <2> /\ StreamAt(s, "over") /\ GiveSlot(s) /\ ~WillUnlock(s)
      /\ UNCHANGED <<slotSession, slotLocks>>
    BY <1>5 DEF LeaveSlot, GoneEarly, WillUnlock
  <2>1. LocksAreUsed'
    BY LocksUntouched
  <2> QED
    BY <2>1, MoveOut DEF SlotInv, SlotTypeOK
<1>6. ASSUME NEW s \in SlotStreams, Abandon(s) PROVE SlotInv'
  <2> /\ s \in slotPool.holders /\ StreamAt(s, "abandoned")
      /\ UNCHANGED <<slotSession, slotPool, slotLocks>>
    BY <1>6 DEF Abandon, SlotInv, SlotsAreUsed, HasSlot
  <2>1. LocksAreUsed'
    BY LocksUntouched
  <2> QED
    BY <2>1, MoveWithSlot DEF SlotInv, SlotTypeOK
<1>7. ASSUME NEW s \in SlotStreams, CloseOuter(s) PROVE SlotInv'
  <2> StreamAt(s, "loose") /\ GiveSlot(s) /\ UNCHANGED <<slotSession, slotLocks>>
    BY <1>7 DEF CloseOuter
  <2>1. LocksAreUsed'
    BY LocksUntouched
  <2> QED
    BY <2>1, MoveOut DEF SlotInv, SlotTypeOK
<1>8. ASSUME NEW s \in SlotStreams, CloseInner(s) PROVE SlotInv'
  <2> /\ StreamAt(s, "over") /\ SetLock(s, FALSE) /\ slotPlace[s] = "loose"
      /\ UNCHANGED <<slotSession, slotPool>>
    BY <1>8 DEF CloseInner
  <2>1. slotLocks' \in [SlotSessions -> BOOLEAN] /\ LocksAreUsed'
    BY LocksReleased
  <2>2. SlotTypeOK'
    BY <2>1 DEF SlotInv, SlotTypeOK, StreamAt
  <2>3. SlotsAreUsed'
    BY DEF SlotInv, SlotTypeOK, SlotsAreUsed, StreamAt, HasSlot, Uses
  <2> QED
    BY <2>1, <2>2, <2>3 DEF SlotInv, OrderlyPool, WithinLimit
<1>9. CASE UNCHANGED slotVars
  BY <1>9 DEF slotVars, SlotInv, SlotTypeOK, OrderlyPool, WithinLimit, SlotsAreUsed, LocksAreUsed,
              HasSlot, WillUnlock, Uses
<1> QED
  BY <1>1, <1>2, <1>3, <1>4, <1>5, <1>6, <1>7, <1>8, <1>9 DEF SlotNext

\* SlotInv has what NothingStaysHeld says.
LEMMA SlotInvSuffices == SlotInv => NothingStaysHeld
<1> SUFFICES ASSUME SlotInv PROVE NothingStaysHeld
  OBVIOUS
<1>1. \A s \in slotPool.holders : HasSlot(s) \/ slotPlace[s] = "waiting"
  BY DEF SlotInv, SlotTypeOK, SlotsAreUsed, Uses, PermitPool
<1>2. Cardinality({s \in SlotStreams : HasSlot(s)}) <= MaxStreaming
  <2> DEFINE served == {s \in SlotStreams : HasSlot(s)}
  <2>1. served \subseteq slotPool.holders
    BY DEF SlotInv, SlotsAreUsed
  <2>2. /\ IsFiniteSet(slotPool.holders) /\ IsFiniteSet(served)
        /\ Cardinality(served) <= Cardinality(slotPool.holders)
        /\ Cardinality(slotPool.holders) <= MaxStreaming
    BY <2>1, FS_Subset DEF SlotInv, WithinLimit
  <2> HIDE DEF served
  <2>3. Cardinality(served) \in Nat /\ Cardinality(slotPool.holders) \in Nat /\ MaxStreaming \in Nat
    BY <2>2, FS_CardinalityType, SlotsAssumption
  <2>4. Cardinality(served) <= MaxStreaming
    BY <2>2, <2>3
  <2> QED
    BY <2>4 DEF served
<1>3. LocksAreUsed
  BY DEF SlotInv
<1> QED
  BY <1>1, <1>2, <1>3 DEF NothingStaysHeld, LocksAreUsed, WillUnlock

\* A request with a number above all others joins, and anybody leaves.
LEMMA RankedJoin ==
  ASSUME NEW n \in Nat, NEW pool \in PermitPool(1 .. n), NEW p \in 1 .. n, NEW capacity \in Nat,
         WithinLimit(pool, capacity), RankedPool(pool, capacity),
         \A x : Uses(pool, x) => x < p
  PROVE  RankedPool(Join(pool, p, capacity), capacity)
<1> DEFINE q == pool.queue
           r == Append(q, p)
           l == Len(q)
<1>1. CASE CanEnter(pool, capacity)
  <2>1. Join(pool, p, capacity).queue = <<>> /\ Len(<<>>) = 0
    BY <1>1, EmptySeq DEF Join, CanEnter
  <2> QED
    BY <2>1 DEF RankedPool
<1>2. CASE ~CanEnter(pool, capacity)
  <2>1. Join(pool, p, capacity) = [holders |-> pool.holders, queue |-> r]
    BY <1>2 DEF Join
  <2>2. Cardinality(pool.holders) = capacity
    <3>1. Cardinality(pool.holders) \in Nat /\ Cardinality(pool.holders) <= capacity
      BY FS_CardinalityType DEF WithinLimit
    <3>2. q # <<>> \/ ~(Cardinality(pool.holders) < capacity)
      BY <1>2 DEF CanEnter
    <3> QED
      BY <3>1, <3>2 DEF RankedPool
  <2>3. /\ q \in Seq(1 .. n) /\ l \in Nat
        /\ Len(r) = l + 1 /\ r[l + 1] = p /\ \A i \in 1 .. l : r[i] = q[i] /\ q[i] < p
    <3>1. q \in Seq(1 .. n)
      BY DEF PermitPool
    <3>2. \A i \in 1 .. l : q[i] < p
      BY DEF Uses, InLine
    <3> HIDE DEF q
    <3>3. l \in Nat /\ p \in 1 .. n
      BY <3>1, LenProperties
    <3>4. Len(r) = l + 1 /\ r[l + 1] = p /\ \A i \in 1 .. l : r[i] = q[i]
      BY <3>1, <3>3, AppendProperties
    <3> QED
      BY <3>1, <3>2, <3>3, <3>4
  <2>4. /\ \A i, j \in 1 .. l : i < j => q[i] < q[j]
        /\ \A t \in pool.holders : t < p /\ \A i \in 1 .. l : t < q[i]
    BY DEF RankedPool, Uses
  <2> HIDE DEF q, r, l
  <2>5. \A i \in 1 .. l + 1 : i \in 1 .. l \/ i = l + 1
    BY <2>3
  <2>6. ASSUME NEW i \in 1 .. l + 1, NEW j \in 1 .. l + 1, i < j PROVE r[i] < r[j]
    <3>1. i \in 1 .. l
      BY <2>3, <2>6
    <3>2. CASE j \in 1 .. l
      BY <2>3, <2>4, <2>6, <3>1, <3>2
    <3>3. CASE j = l + 1
      BY <2>3, <3>1, <3>3
    <3> QED
      BY <2>5, <3>2, <3>3
  <2>7. \A t \in pool.holders : \A i \in 1 .. l + 1 : t < r[i]
    BY <2>3, <2>4, <2>5
  <2> QED
    BY <2>1, <2>2, <2>3, <2>6, <2>7 DEF RankedPool
<1> QED
  BY <1>1, <1>2

LEMMA RankedLeave ==
  ASSUME NEW n \in Nat, NEW pool \in PermitPool(1 .. n), NEW p \in 1 .. n, NEW capacity \in Nat,
         OrderlyPool(pool), WithinLimit(pool, capacity), RankedPool(pool, capacity)
  PROVE  RankedPool(Leave(pool, p), capacity)
<1> DEFINE q == pool.queue
           l == Len(q)
<1>1. q \in Seq(1 .. n) /\ l \in Nat /\ \A i \in 1 .. l : q[i] \in 1 .. n
  BY LenProperties, ElementOfSeq DEF PermitPool
<1>2. /\ \A i, j \in 1 .. l : i < j => q[i] < q[j]
      /\ \A t \in pool.holders : \A i \in 1 .. l : t < q[i]
      /\ q # <<>> => Cardinality(pool.holders) = capacity
  BY DEF RankedPool
<1>3. CASE p \in pool.holders /\ q = <<>>
  <2>1. Leave(pool, p).queue = <<>> /\ Len(<<>>) = 0
    BY <1>3, EmptySeq DEF Leave, Release
  <2> QED
    BY <2>1 DEF RankedPool
<1>4. CASE p \in pool.holders /\ q # <<>>
  <2> DEFINE h == Head(q)
             r == Tail(q)
             others == pool.holders \ {p}
  <2>1. Leave(pool, p) = [holders |-> others \cup {h}, queue |-> r]
    BY <1>4 DEF Leave, Release
  <2>2. /\ h = q[1] /\ Len(r) = l - 1 /\ l > 0 /\ \A i \in 1 .. Len(r) : r[i] = q[i + 1]
    BY <1>1, <1>4, HeadTailProperties, LenProperties, EmptySeq
  <2> HIDE DEF q, l, r, h
  <2>3. \A i \in 1 .. Len(r) : i + 1 \in 1 .. l /\ 1 < i + 1 /\ i \in Int
    BY <1>1, <2>2
  <2>4. 1 \in 1 .. l
    BY <1>1, <2>2
  <2>5. \A i, j \in 1 .. Len(r) : i < j => r[i] < r[j]
    <3> SUFFICES ASSUME NEW i \in 1 .. Len(r), NEW j \in 1 .. Len(r), i < j PROVE r[i] < r[j]
      OBVIOUS
    <3>1. i + 1 < j + 1
      BY <2>3
    <3> QED
      BY <1>2, <2>2, <2>3, <3>1
  <2>6. \A t \in others \cup {h} : \A i \in 1 .. Len(r) : t < r[i]
    BY <1>2, <2>2, <2>3, <2>4
  <2>7. h \notin pool.holders
    BY <1>1, <1>2, <2>2, <2>4
  <2>8. Cardinality(others \cup {h}) = capacity
    <3>1. IsFiniteSet(pool.holders) /\ Cardinality(pool.holders) = capacity
      BY <1>2, <1>4 DEF WithinLimit
    <3>2. IsFiniteSet(others) /\ Cardinality(others) = capacity - 1
      BY <1>4, <3>1, FS_RemoveElement
    <3>3. h \notin others
      BY <2>7
    <3> HIDE DEF others
    <3>4. Cardinality(others \cup {h}) = (capacity - 1) + 1
      BY <3>2, <3>3, FS_AddElement
    <3> QED
      BY <3>4
  <2> QED
    BY <2>1, <2>5, <2>6, <2>8 DEF RankedPool
<1>5. CASE p \notin pool.holders
  <2> DEFINE r == StepOut(q, p)
  <2>1. Leave(pool, p) = [holders |-> pool.holders, queue |-> r]
    BY <1>5 DEF Leave
  <2>2. \A i, j \in 1 .. l : q[i] = q[j] => i = j
    BY DEF OrderlyPool
  <2> HIDE DEF q, l
  <2>3. r \in Seq(1 .. n) /\ Len(r) \in Nat
    BY <1>1, StepOutType, LenProperties
  <2>4. /\ \A x : InLine(r, x) <=> InLine(q, x) /\ x # p
        /\ \A i, j \in 1 .. Len(r) : i < j =>
             \E k, m \in 1 .. l : k < m /\ r[i] = q[k] /\ r[j] = q[m]
    <3>1. q \in Seq(1 .. n) /\ \A i, j \in 1 .. Len(q) : q[i] = q[j] => i = j
      BY <1>1, <2>2 DEF l
    <3>2. /\ \A x : InLine(StepOut(q, p), x) <=> InLine(q, x) /\ x # p
          /\ \A i, j \in 1 .. Len(StepOut(q, p)) : i < j =>
               \E k, m \in 1 .. Len(q) :
                 k < m /\ StepOut(q, p)[i] = q[k] /\ StepOut(q, p)[j] = q[m]
      BY <3>1, StepOutElements
    <3> QED
      BY <3>2 DEF l
  <2> HIDE DEF r
  <2>5. \A i, j \in 1 .. Len(r) : i < j => r[i] < r[j]
    BY <1>2, <2>4
  <2>6. \A i \in 1 .. Len(r) : \E k \in 1 .. l : q[k] = r[i]
    BY <2>4 DEF InLine, l
  <2>7. \A t \in pool.holders : \A i \in 1 .. Len(r) : t < r[i]
    BY <1>2, <2>6
  <2>8. r # <<>> => q # <<>>
    <3> SUFFICES ASSUME r # <<>> PROVE q # <<>>
      OBVIOUS
    <3>1. 1 \in 1 .. Len(r)
      BY <2>3, EmptySeq
    <3>2. PICK k \in 1 .. l : q[k] = r[1]
      BY <2>6, <3>1
    <3>3. l # 0
      BY <3>2
    <3> QED
      BY <3>3, EmptySeq DEF l
  <2> QED
    BY <1>2, <2>1, <2>5, <2>7, <2>8 DEF RankedPool
<1> QED
  BY <1>3, <1>4, <1>5

LEMMA RankStart == SlotInit => RankInv
<1>1. Len(<<>>) = 0
  BY EmptySeq
<1> QED
  BY <1>1 DEF SlotInit, AllFree, RankInv, RankedPool

LEMMA RankStep == SlotInv /\ RankInv /\ [SlotNext]_slotVars => RankInv'
<1> SUFFICES ASSUME SlotInv, RankInv, [SlotNext]_slotVars PROVE RankInv'
  OBVIOUS
<1>1. /\ slotPlace \in [SlotStreams -> SlotPlaces]
      /\ slotPool \in PermitPool(1 .. MaxStreams) /\ MaxStreams \in Nat /\ MaxStreaming \in Nat
      /\ OrderlyPool(slotPool) /\ WithinLimit(slotPool, MaxStreaming)
      /\ RankedPool(slotPool, MaxStreaming)
      /\ \A s, t \in SlotStreams : s < t /\ slotPlace[s] = "new" => slotPlace[t] = "new"
  BY SlotsAssumption DEF SlotInv, SlotTypeOK, RankInv, SlotStreams
<1>2. ASSUME NEW s \in SlotStreams, AskForSlot(s) PROVE RankInv'
  <2>1. /\ slotPlace[s] = "new" /\ \A t \in 1 .. s - 1 : slotPlace[t] # "new"
        /\ slotPlace' = [slotPlace EXCEPT ![s] = "waiting"]
        /\ slotPool' = Join(slotPool, s, MaxStreaming)
    BY <1>2 DEF AskForSlot, StreamAt
  <2>2. \A x : Uses(slotPool, x) => x < s
    <3> SUFFICES ASSUME NEW x, Uses(slotPool, x) PROVE x < s
      OBVIOUS
    <3>1. x \in SlotStreams
      BY <1>1, LenProperties, ElementOfSeq DEF Uses, InLine, PermitPool, SlotStreams
    <3>2. slotPlace[x] # "new"
      BY <3>1 DEF SlotInv, SlotsAreUsed, HasSlot
    <3>3. x # s /\ ~(s < x)
      BY <1>1, <2>1, <3>1, <3>2
    <3>4. x \in Int /\ s \in Int
      BY <3>1 DEF SlotStreams
    <3> QED
      BY <3>3, <3>4
  <2>3. RankedPool(slotPool', MaxStreaming)
    <3>1. s \in 1 .. MaxStreams
      BY DEF SlotStreams
    <3> QED
      BY <1>1, <2>1, <2>2, <3>1, RankedJoin
  <2>4. ASSUME NEW t \in SlotStreams, NEW u \in SlotStreams, t < u, slotPlace'[t] = "new"
        PROVE  slotPlace'[u] = "new"
    <3>1. t # s /\ slotPlace[t] = "new"
      BY <1>1, <2>1, <2>4
    <3>2. u # s
      <4>1. CASE u = s
        <5>1. t \in 1 .. s - 1
          BY <2>4, <4>1 DEF SlotStreams
        <5> QED
          BY <2>1, <3>1, <5>1
      <4> QED
        BY <4>1
    <3>3. slotPlace[u] = "new"
      BY <1>1, <2>4, <3>1
    <3> QED
      BY <1>1, <2>1, <3>2, <3>3
  <2>5. RankedPool(slotPool, MaxStreaming)'
    BY <2>3 DEF RankedPool
  <2> QED
    BY <2>4, <2>5 DEF RankInv
<1>3. ASSUME NEW s \in SlotStreams, NEW place \in SlotPlaces, StreamAt(s, place), place # "new",
             slotPlace[s] # "new", slotPool' = slotPool \/ GiveSlot(s)
      PROVE  RankInv'
  <2>1. \A t \in SlotStreams : slotPlace'[t] = "new" <=> slotPlace[t] = "new"
    BY <1>1, <1>3 DEF StreamAt
  <2>2. RankedPool(slotPool', MaxStreaming)
    <3>1. CASE slotPool' = slotPool
      BY <1>1, <3>1
    <3>2. CASE GiveSlot(s)
      <4>1. s \in 1 .. MaxStreams /\ slotPool' = Leave(slotPool, s)
        BY <3>2 DEF SlotStreams, GiveSlot
      <4> QED
        BY <1>1, <4>1, RankedLeave
    <3> QED
      BY <1>3, <3>1, <3>2
  <2>3. RankedPool(slotPool, MaxStreaming)'
    BY <2>2 DEF RankedPool
  <2> QED
    BY <1>1, <2>1, <2>3 DEF RankInv
<1>4. ASSUME NEW s \in SlotStreams,
             \/ EnterSlot(s) \/ LockOrReject(s) \/ CloseStream(s) \/ LeaveSlot(s)
             \/ GoneEarly(s) \/ Abandon(s) \/ CloseOuter(s) \/ CloseInner(s)
      PROVE  RankInv'
  <2>1. /\ slotPlace[s] # "new" /\ (slotPool' = slotPool \/ GiveSlot(s))
        /\ \E place \in SlotPlaces \ {"new"} : StreamAt(s, place)
    BY <1>4 DEF EnterSlot, LockOrReject, CloseStream, LeaveSlot, GoneEarly, Abandon, CloseOuter,
                CloseInner, SlotPlaces
  <2>2. PICK place \in SlotPlaces \ {"new"} : StreamAt(s, place)
    BY <2>1
  <2> QED
    BY <1>3, <2>1, <2>2
<1>5. CASE UNCHANGED slotVars
  BY <1>5 DEF slotVars, RankInv, RankedPool
<1> QED
  BY <1>2, <1>4, <1>5 DEF SlotNext

\* While somebody waits, those with the slots are all there and came before.
LEMMA RankSuffices == SlotInv /\ RankInv => SlotsAreServed
<1> SUFFICES ASSUME SlotInv, RankInv, NEW i \in 1 .. Len(slotPool.queue)
             PROVE  LET s == slotPool.queue[i] IN
                    Cardinality({t \in 1 .. s - 1 : t \in slotPool.holders /\ slotPlace[t] # "over"})
                      = MaxStreaming
  BY DEF SlotsAreServed
<1> DEFINE s == slotPool.queue[i]
<1>1. /\ slotPool.queue \in Seq(SlotStreams) /\ slotPool.holders \in SUBSET SlotStreams
      /\ s \in SlotStreams /\ Len(slotPool.queue) \in Nat
  BY LenProperties, ElementOfSeq DEF SlotInv, SlotTypeOK, PermitPool
<1>2. \A t \in slotPool.holders : t < s /\ slotPlace[t] # "over" /\ t \in SlotStreams
  BY <1>1 DEF RankInv, RankedPool, SlotInv, SlotsAreUsed, Uses, HasSlot
<1>3. slotPool.queue # <<>>
  BY EmptySeq
<1>4. Cardinality(slotPool.holders) = MaxStreaming
  BY <1>3 DEF RankInv, RankedPool
<1> HIDE DEF s
<1>5. {t \in 1 .. s - 1 : t \in slotPool.holders /\ slotPlace[t] # "over"} = slotPool.holders
  <2>1. \A t \in slotPool.holders : t \in 1 .. s - 1
    BY <1>1, <1>2 DEF SlotStreams
  <2> QED
    BY <1>2, <2>1
<1> QED
  BY <1>4, <1>5 DEF s
-----------------------------------------------------------------------------
(***************************************************************************)
(* For any number of requests, sessions and slots: no more streams pass    *)
(* the semaphore than there are slots, every slot that is taken belongs to *)
(* a request that is still there, every lock that is held to a stream that *)
(* will give it back, and a request waits only for slots that requests     *)
(* before it have.                                                         *)
(***************************************************************************)
THEOREM SlotsGivenBack == SlotSpec => [](SlotTypeOK /\ NothingStaysHeld /\ SlotsAreServed)
<1>1. SlotSpec => [](SlotInv /\ RankInv)
  BY SlotInvInitially, SlotInvKept, RankStart, RankStep, PTL DEF SlotSpec
<1>2. SlotInv /\ RankInv => SlotTypeOK /\ NothingStaysHeld /\ SlotsAreServed
  BY SlotInvSuffices, RankSuffices DEF SlotInv
<1> QED
  BY <1>1, <1>2, PTL
-----------------------------------------------------------------------------
(***************************************************************************)
(* EventBridge: what a client heard.                                       *)
(***************************************************************************)
BridgeTypes ==
  /\ connected \subseteq WsClients
  /\ stored \in [WsSessions -> Nat] /\ subs \in [WsClients -> SUBSET WsSessions]
  /\ forwarded \in [WsSessions -> Int] /\ sendingTo \in [WsSessions -> SUBSET WsClients]
  /\ heard \in [WsClients -> [WsSessions -> Seq(Int)]]

Unbroken(h) == \A k \in 1 .. (Len(h) - 1) : h[k + 1] = h[k] + 1

\* The last event heard is the n-th.
EndsWith(h, n) == h # <<>> => h[Len(h)] = n

Listens(c, s) == c \in connected /\ s \in subs[c]

UpTo(c, s) ==
  Listens(c, s) /\ forwarded[s] >= 0 =>
    EndsWith(heard[c][s], forwarded[s] - (IF c \in sendingTo[s] THEN 1 ELSE 0))

BridgeInv ==
  /\ BridgeTypes
  /\ bridge # "forwarding" => \A s \in WsSessions : sendingTo[s] = {}
  /\ bridge = "created" => \A c \in WsClients, s \in WsSessions : heard[c][s] = <<>>
  /\ \A s \in WsSessions : sendingTo[s] # {} => forwarded[s] >= 0
  /\ \A c \in WsClients, s \in WsSessions : Unbroken(heard[c][s]) /\ UpTo(c, s)

LEMMA NothingHeard == <<>> \in Seq(Int) /\ Unbroken(<<>>) /\ \A n : EndsWith(<<>>, n)
<1>1. <<>> \in Seq(Int) /\ Len(<<>>) = 0
  BY EmptySeq
<1> QED
  BY <1>1 DEF Unbroken, EndsWith

LEMMA OneMoreHeard ==
  ASSUME NEW h \in Seq(Int), NEW n \in Int, Unbroken(h), EndsWith(h, n - 1)
  PROVE  Append(h, n) \in Seq(Int) /\ Unbroken(Append(h, n)) /\ EndsWith(Append(h, n), n)
<1> DEFINE r == Append(h, n)
           l == Len(h)
<1>1. /\ r \in Seq(Int) /\ Len(r) = l + 1 /\ r[l + 1] = n
      /\ \A i \in 1 .. l : r[i] = h[i]
  BY AppendProperties
<1>2. l \in Nat /\ (h = <<>> <=> l = 0) /\ \A k \in 1 .. (l - 1) : h[k + 1] = h[k] + 1
  BY LenProperties, EmptySeq DEF Unbroken
<1>3. l > 0 => h[l] = n - 1 /\ h[l] \in Int
  <2>1. l > 0 => l \in 1 .. l
    BY <1>2
  <2> QED
    BY <1>2, <2>1, ElementOfSeq DEF EndsWith
<1> HIDE DEF r, l
<1>4. ASSUME NEW k \in 1 .. l PROVE r[k + 1] = r[k] + 1
  <2>1. CASE k = l
    <3>1. r[k] = h[k] /\ h[k] = n - 1 /\ r[k + 1] = n
      BY <1>1, <1>2, <1>3, <2>1
    <3> QED
      BY <3>1
  <2>2. CASE k # l
    <3>1. k \in 1 .. (l - 1) /\ k + 1 \in 1 .. l
      BY <1>2, <2>2
    <3> QED
      BY <1>1, <1>2, <3>1
  <2> QED
    BY <2>1, <2>2
<1>5. Len(r) - 1 = l
  BY <1>1, <1>2
<1> QED
  BY <1>1, <1>4, <1>5 DEF Unbroken, EndsWith, r

LEMMA BridgeStart == BridgeInit => BridgeInv
<1> SUFFICES ASSUME BridgeInit PROVE BridgeInv
  OBVIOUS
<1>1. BridgeTypes
  BY NothingHeard DEF BridgeInit, BridgeTypes, NoTask, NotHeard
<1>2. \A c \in WsClients, s \in WsSessions : heard[c][s] = <<>> /\ forwarded[s] = -1 /\ sendingTo[s] = {}
  BY DEF BridgeInit, NoTask, NotHeard
<1>3. \A c \in WsClients, s \in WsSessions : Unbroken(heard[c][s]) /\ UpTo(c, s)
  BY <1>2, NothingHeard DEF UpTo
<1>4. \A s \in WsSessions : sendingTo[s] = {}
  BY DEF BridgeInit
<1> QED
  BY <1>1, <1>3, <1>4 DEF BridgeInv, BridgeInit

LEMMA BridgeStep == BridgeInv /\ [BridgeNext]_bridgeVars => BridgeInv'
<1> SUFFICES ASSUME BridgeInv, [BridgeNext]_bridgeVars PROVE BridgeInv'
  OBVIOUS
<1>0. /\ BridgeTypes
      /\ bridge # "forwarding" => \A s \in WsSessions : sendingTo[s] = {}
      /\ bridge = "created" => \A c \in WsClients, s \in WsSessions : heard[c][s] = <<>>
      /\ \A s \in WsSessions : sendingTo[s] # {} => forwarded[s] >= 0
      /\ \A c \in WsClients, s \in WsSessions : Unbroken(heard[c][s]) /\ UpTo(c, s)
  BY DEF BridgeInv
<1>00. /\ \A s \in WsSessions : forwarded[s] \in Int /\ sendingTo[s] \in SUBSET WsClients /\ stored[s] \in Nat
       /\ \A c \in WsClients, s \in WsSessions : heard[c][s] \in Seq(Int)
  BY <1>0 DEF BridgeTypes
<1>1. ASSUME NEW s \in WsSessions, StoreEvent(s) PROVE BridgeInv'
  BY <1>0, <1>1 DEF StoreEvent, BridgeInv, BridgeTypes, UpTo, Listens
<1>2. ASSUME NEW c \in WsClients, Connect(c) PROVE BridgeInv'
  <2>1. NotHeard \in [WsSessions -> Seq(Int)] /\ \A s \in WsSessions : NotHeard[s] = <<>>
    BY NothingHeard DEF NotHeard
  <2>2. /\ connected' = connected \cup {c}
        /\ subs'[c] = {} /\ \A d \in WsClients : d # c => subs'[d] = subs[d]
        /\ heard'[c] = NotHeard /\ \A d \in WsClients : d # c => heard'[d] = heard[d]
        /\ UNCHANGED <<stored, bridge, bridges, forwarded, sendingTo>>
    BY <1>0, <1>2 DEF Connect, BridgeTypes
  <2>3. BridgeTypes'
    BY <1>0, <1>2, <2>1 DEF Connect, BridgeTypes
  <2>4. \A d \in WsClients, s \in WsSessions :
          heard'[d][s] = heard[d][s] \/ heard'[d][s] = <<>>
    BY <2>1, <2>2
  <2>5. \A d \in WsClients, s \in WsSessions : Unbroken(heard'[d][s])
    BY <1>0, <2>4, NothingHeard
  <2>6. \A d \in WsClients, s \in WsSessions : UpTo(d, s)'
    <3> SUFFICES ASSUME NEW d \in WsClients, NEW s \in WsSessions PROVE UpTo(d, s)'
      OBVIOUS
    <3>1. CASE d = c
      BY <2>2, <3>1 DEF UpTo, Listens
    <3>2. CASE d # c
      BY <1>0, <2>2, <3>2 DEF UpTo, Listens
    <3> QED
      BY <3>1, <3>2
  <2> QED
    BY <1>0, <2>2, <2>3, <2>4, <2>5, <2>6 DEF BridgeInv
<1>3. ASSUME NEW c \in WsClients, Disconnect(c) PROVE BridgeInv'
  <2>1. /\ connected' = connected \ {c}
        /\ UNCHANGED <<stored, subs, bridge, bridges, forwarded, sendingTo, heard>>
    BY <1>3 DEF Disconnect
  <2>2. \A d \in WsClients, s \in WsSessions : UpTo(d, s)'
    BY <1>0, <2>1 DEF UpTo, Listens
  <2> QED
    BY <1>0, <2>1, <2>2 DEF BridgeInv, BridgeTypes
<1>4. ASSUME NEW c \in WsClients, NEW s \in WsSessions, Subscribe(c, s) PROVE BridgeInv'
  <2>1. /\ subs' = [subs EXCEPT ![c] = subs[c] \cup {s}]
        /\ heard' = [heard EXCEPT ![c] = [heard[c] EXCEPT ![s] = <<>>]]
        /\ UNCHANGED <<stored, connected, bridge, bridges, forwarded, sendingTo>>
    BY <1>4 DEF Subscribe
  <2>2. BridgeTypes'
    BY <1>0, <2>1, NothingHeard DEF BridgeTypes
  <2>3. /\ heard'[c][s] = <<>>
        /\ \A d \in WsClients, t \in WsSessions : <<d, t>> # <<c, s>> =>
             heard'[d][t] = heard[d][t] /\ (t \in subs'[d] => t \in subs[d])
    BY <1>0, <2>1 DEF BridgeTypes
  <2>4. \A d \in WsClients, t \in WsSessions : heard'[d][t] = heard[d][t] \/ heard'[d][t] = <<>>
    BY <2>3
  <2>5. \A d \in WsClients, t \in WsSessions : Unbroken(heard'[d][t])
    BY <1>0, <2>4, NothingHeard
  <2>6. \A d \in WsClients, t \in WsSessions : UpTo(d, t)'
    <3> SUFFICES ASSUME NEW d \in WsClients, NEW t \in WsSessions PROVE UpTo(d, t)'
      OBVIOUS
    <3>1. CASE d = c /\ t = s
      BY <2>3, <3>1, NothingHeard DEF UpTo
    <3>2. CASE ~(d = c /\ t = s)
      BY <1>0, <2>1, <2>3, <3>2 DEF UpTo, Listens
    <3> QED
      BY <3>1, <3>2
  <2> QED
    BY <1>0, <2>1, <2>2, <2>4, <2>5, <2>6 DEF BridgeInv
<1>5. ASSUME NEW c \in WsClients, NEW s \in WsSessions, Unsubscribe(c, s) PROVE BridgeInv'
  <2>1. /\ subs' = [subs EXCEPT ![c] = subs[c] \ {s}]
        /\ UNCHANGED <<stored, connected, bridge, bridges, forwarded, sendingTo, heard>>
    BY <1>5 DEF Unsubscribe
  <2>2. BridgeTypes' /\ \A d \in WsClients, t \in WsSessions : t \in subs'[d] => t \in subs[d]
    BY <1>0, <2>1 DEF BridgeTypes
  <2>3. \A d \in WsClients, t \in WsSessions : UpTo(d, t)'
    BY <1>0, <2>1, <2>2 DEF UpTo, Listens
  <2> QED
    BY <1>0, <2>1, <2>2, <2>3 DEF BridgeInv
<1>6. ASSUME NEW s \in WsSessions, Forward(s) PROVE BridgeInv'
  <2>1. /\ bridge = "forwarding" /\ forwarded[s] \in 0 .. (stored[s] - 1) /\ sendingTo[s] = {}
        /\ forwarded' = [forwarded EXCEPT ![s] = forwarded[s] + 1]
        /\ sendingTo' = [sendingTo EXCEPT ![s] = connected]
        /\ UNCHANGED <<stored, connected, subs, bridge, bridges, heard>>
    BY <1>6 DEF Forward
  <2>2. forwarded[s] \in Int /\ forwarded[s] >= 0
    BY <1>00, <2>1
  <2>3. /\ forwarded'[s] = forwarded[s] + 1 /\ sendingTo'[s] = connected
        /\ \A t \in WsSessions : t # s => forwarded'[t] = forwarded[t] /\ sendingTo'[t] = sendingTo[t]
    BY <1>0, <2>1 DEF BridgeTypes
  <2>4. BridgeTypes'
    BY <1>0, <2>1, <2>2 DEF BridgeTypes
  <2>5. \A d \in WsClients, t \in WsSessions : UpTo(d, t)'
    <3> SUFFICES ASSUME NEW d \in WsClients, NEW t \in WsSessions PROVE UpTo(d, t)'
      OBVIOUS
    <3>1. CASE t # s
      BY <1>0, <2>1, <2>3, <3>1 DEF UpTo, Listens
    <3>2. CASE t = s /\ Listens(d, s)
      <4>1. EndsWith(heard[d][s], forwarded[s])
        <5>1. EndsWith(heard[d][s], forwarded[s] - 0)
          BY <1>0, <2>1, <2>2, <3>2 DEF UpTo
        <5> QED
          BY <2>2, <5>1
      <4>2. d \in connected /\ (forwarded[s] + 1) - 1 = forwarded[s]
        BY <2>2, <3>2 DEF Listens
      <4> QED
        BY <2>1, <2>3, <3>2, <4>1, <4>2 DEF UpTo
    <3>3. CASE t = s /\ ~Listens(d, s)
      BY <2>1, <3>3 DEF UpTo, Listens
    <3> QED
      BY <3>1, <3>2, <3>3
  <2>6. \A t \in WsSessions : sendingTo'[t] # {} => forwarded'[t] >= 0
    <3>1. forwarded'[s] >= 0
      BY <2>2, <2>3
    <3> QED
      BY <1>0, <2>3, <3>1
  <2> QED
    BY <1>0, <2>1, <2>4, <2>5, <2>6 DEF BridgeInv
<1>7. ASSUME NEW s \in WsSessions, NEW c \in WsClients, SendTo(s, c) PROVE BridgeInv'
  <2>1. /\ c \in sendingTo[s] /\ sendingTo' = [sendingTo EXCEPT ![s] = sendingTo[s] \ {c}]
        /\ heard' = IF Listens(c, s)
                      THEN [heard EXCEPT ![c] = [heard[c] EXCEPT ![s] = Append(heard[c][s], forwarded[s])]]
                      ELSE heard
        /\ UNCHANGED <<stored, connected, subs, bridge, bridges, forwarded>>
    BY <1>7 DEF SendTo, Listens
  <2>2. forwarded[s] \in Int /\ forwarded[s] >= 0 /\ bridge = "forwarding"
    BY <1>0, <1>00, <2>1
  <2>3. /\ sendingTo'[s] = sendingTo[s] \ {c}
        /\ \A t \in WsSessions : t # s => sendingTo'[t] = sendingTo[t]
    BY <1>0, <2>1 DEF BridgeTypes
  <2>4. /\ heard'[c][s] = heard[c][s] \/ (Listens(c, s) /\ heard'[c][s] = Append(heard[c][s], forwarded[s]))
        /\ Listens(c, s) => heard'[c][s] = Append(heard[c][s], forwarded[s])
        /\ \A d \in WsClients, t \in WsSessions : ~(d = c /\ t = s) => heard'[d][t] = heard[d][t]
    BY <1>0, <2>1 DEF BridgeTypes
  <2>5. Listens(c, s) =>
          LET r == Append(heard[c][s], forwarded[s]) IN
          r \in Seq(Int) /\ Unbroken(r) /\ EndsWith(r, forwarded[s])
    BY <1>0, <1>00, <2>1, <2>2, OneMoreHeard DEF UpTo
  <2>6. BridgeTypes'
    <3>1. \A q \in Seq(Int) : [heard EXCEPT ![c] = [heard[c] EXCEPT ![s] = q]] \in [WsClients -> [WsSessions -> Seq(Int)]]
      BY <1>0 DEF BridgeTypes
    <3>2. heard' \in [WsClients -> [WsSessions -> Seq(Int)]]
      BY <1>0, <2>1, <2>5, <3>1 DEF BridgeTypes
    <3> QED
      BY <1>0, <2>1, <3>2 DEF BridgeTypes
  <2>7. \A d \in WsClients, t \in WsSessions : Unbroken(heard'[d][t])
    BY <1>0, <2>4, <2>5
  <2>8. \A d \in WsClients, t \in WsSessions : UpTo(d, t)'
    <3> SUFFICES ASSUME NEW d \in WsClients, NEW t \in WsSessions PROVE UpTo(d, t)'
      OBVIOUS
    <3>1. CASE ~(d = c /\ t = s)
      <4>1. d \in sendingTo'[t] <=> d \in sendingTo[t]
        BY <2>3, <3>1
      <4> QED
        BY <1>0, <2>1, <2>4, <3>1, <4>1 DEF UpTo, Listens
    <3>2. CASE d = c /\ t = s
      <4>1. c \notin sendingTo'[s] /\ forwarded[s] - 0 = forwarded[s]
        BY <2>2, <2>3
      <4> QED
        BY <2>1, <2>4, <2>5, <3>2, <4>1 DEF UpTo, Listens
    <3> QED
      BY <3>1, <3>2
  <2>9. \A t \in WsSessions : sendingTo'[t] # {} => forwarded'[t] >= 0
    BY <1>0, <2>1, <2>2, <2>3
  <2> QED
    BY <2>1, <2>2, <2>6, <2>7, <2>8, <2>9 DEF BridgeInv
<1>8. CASE StartBridge
  <2>1. /\ bridge = "none" /\ bridge' = "created"
        /\ heard' = [c \in WsClients |-> NotHeard]
        /\ UNCHANGED <<stored, connected, subs, forwarded, sendingTo>>
    BY <1>8 DEF StartBridge
  <2>2. \A c \in WsClients, s \in WsSessions : heard'[c][s] = <<>>
    BY <2>1 DEF NotHeard
  <2>3. BridgeTypes'
    BY <1>0, <2>1, NothingHeard DEF BridgeTypes, NotHeard
  <2>4. \A c \in WsClients, s \in WsSessions : Unbroken(heard'[c][s]) /\ UpTo(c, s)'
    BY <2>2, NothingHeard DEF UpTo
  <2> QED
    BY <1>0, <2>1, <2>2, <2>3, <2>4 DEF BridgeInv
<1>9. CASE TakeSessions
  <2> DEFINE wanted == UNION {subs[c] : c \in connected}
  <2>1. /\ bridge = "created" /\ bridge' \in {"over", "forwarding"}
        /\ forwarded' = [s \in WsSessions |-> IF s \in wanted THEN 0 ELSE -1]
        /\ UNCHANGED <<stored, connected, subs, bridges, sendingTo, heard>>
    BY <1>9 DEF TakeSessions
  <2> HIDE DEF wanted
  <2>2. /\ \A c \in WsClients, s \in WsSessions : heard'[c][s] = <<>>
        /\ \A s \in WsSessions : sendingTo'[s] = {}
    BY <1>0, <2>1
  <2>3. BridgeTypes'
    BY <1>0, <2>1 DEF BridgeTypes
  <2>4. \A c \in WsClients, s \in WsSessions : Unbroken(heard'[c][s]) /\ UpTo(c, s)'
    BY <2>2, NothingHeard DEF UpTo
  <2> QED
    BY <2>2, <2>3, <2>4 DEF BridgeInv
<1>10. CASE StopBridge
  <2>1. /\ bridge' = "none" /\ forwarded' = NoTask
        /\ sendingTo' = [s \in WsSessions |-> {}]
        /\ UNCHANGED <<stored, connected, subs, bridges, heard>>
    BY <1>10 DEF StopBridge
  <2>2. BridgeTypes'
    BY <1>0, <2>1 DEF BridgeTypes, NoTask
  <2>3. \A s \in WsSessions : sendingTo'[s] = {} /\ ~(forwarded'[s] >= 0)
    BY <2>1 DEF NoTask
  <2>4. \A c \in WsClients, s \in WsSessions : Unbroken(heard'[c][s]) /\ UpTo(c, s)'
    BY <1>0, <2>1, <2>3 DEF UpTo
  <2> QED
    BY <2>1, <2>2, <2>3, <2>4 DEF BridgeInv
<1>11. CASE UNCHANGED bridgeVars
  <2>1. \A c \in WsClients, s \in WsSessions : UpTo(c, s)'
    BY <1>0, <1>11 DEF bridgeVars, UpTo, Listens
  <2> QED
    BY <1>0, <1>11, <2>1 DEF bridgeVars, BridgeInv, BridgeTypes
<1> QED
  BY <1>1, <1>2, <1>3, <1>4, <1>5, <1>6, <1>7, <1>8, <1>9, <1>10, <1>11 DEF BridgeNext

LEMMA BridgeHolds == BridgeInv => HeardInOrder
<1> SUFFICES ASSUME BridgeInv, NEW c \in WsClients, NEW s \in WsSessions
             PROVE  LET h == heard[c][s] IN
                    /\ \A k \in 1 .. (Len(h) - 1) : h[k + 1] = h[k] + 1
                    /\ h # <<>> /\ c \in connected /\ s \in subs[c] /\ forwarded[s] >= 0 =>
                         h[Len(h)] = forwarded[s] - (IF c \in sendingTo[s] THEN 1 ELSE 0)
  BY DEF HeardInOrder
<1>1. Unbroken(heard[c][s]) /\ UpTo(c, s)
  BY DEF BridgeInv
<1> QED
  BY <1>1 DEF Unbroken, UpTo, Listens, EndsWith

(***************************************************************************)
(* A client hears the events of a session in order, none twice and none    *)
(* left out, for any number of clients, sessions, events and restarts.     *)
(***************************************************************************)
THEOREM ClientsHearInOrder == BridgeSpec => [](HeardInOrder)
<1>1. BridgeSpec => []BridgeInv
  BY BridgeStart, BridgeStep, PTL DEF BridgeSpec
<1> QED
  BY <1>1, BridgeHolds, PTL
-----------------------------------------------------------------------------
(***************************************************************************)
(* InputInbox: the run loop.                                               *)
(***************************************************************************)
\* Items of a sequence that are both in the set, or both out of it, rise.
Rising(q, S) == \A i, j \in 1 .. Len(q) : i < j /\ (q[i] \in S <=> q[j] \in S) => q[i] < q[j]

Before(A, B) == \A x \in A, y \in B : x < y

LEMMA RisingAppend ==
  ASSUME NEW S, NEW q \in Seq(Nat), NEW x \in Nat, Rising(q, S),
         \A y \in Range(q) : (y \in S <=> x \in S) => y < x
  PROVE  /\ Append(q, x) \in Seq(Nat) /\ Rising(Append(q, x), S)
         /\ Range(Append(q, x)) = Range(q) \cup {x}
<1> DEFINE r == Append(q, x)
           n == Len(q)
<1>1. /\ r \in Seq(Nat) /\ Len(r) = n + 1 /\ r[n + 1] = x
      /\ \A i \in 1 .. n : r[i] = q[i]
      /\ n \in Nat /\ DOMAIN q = 1 .. n /\ DOMAIN r = 1 .. Len(r)
  BY AppendProperties, LenProperties
<1>2. \A i \in 1 .. n : q[i] \in Range(q)
  BY <1>1 DEF Range
<1>3. \A i, j \in 1 .. n : i < j /\ (q[i] \in S <=> q[j] \in S) => q[i] < q[j]
  BY DEF Rising
<1> HIDE DEF r, n
<1>4. \A i \in 1 .. n + 1 : i \in 1 .. n \/ i = n + 1
  BY <1>1
<1>5. ASSUME NEW i \in 1 .. n + 1, NEW j \in 1 .. n + 1, i < j, r[i] \in S <=> r[j] \in S
      PROVE  r[i] < r[j]
  <2>1. i \in 1 .. n /\ r[i] = q[i]
    BY <1>1, <1>4, <1>5
  <2>2. CASE j \in 1 .. n
    BY <1>1, <1>3, <1>5, <2>1, <2>2
  <2>3. CASE j = n + 1
    BY <1>1, <1>2, <1>5, <2>1, <2>3
  <2> QED
    BY <1>4, <2>2, <2>3
<1>6. Range(r) = Range(q) \cup {x}
  <2>1. \A i \in 1 .. n : i \in 1 .. n + 1
    BY <1>1
  <2>2. n + 1 \in 1 .. n + 1
    BY <1>1
  <2>3. Range(q) = {q[i] : i \in 1 .. n} /\ Range(r) = {r[i] : i \in 1 .. n + 1}
    BY <1>1 DEF Range
  <2>4. ASSUME NEW y \in Range(r) PROVE y \in Range(q) \cup {x}
    <3>1. PICK i \in 1 .. n + 1 : r[i] = y
      BY <2>3, <2>4
    <3> QED
      BY <1>1, <1>2, <1>4, <3>1
  <2>5. ASSUME NEW y \in Range(q) PROVE y \in Range(r)
    <3>1. PICK i \in 1 .. n : q[i] = y
      BY <2>3, <2>5
    <3>2. i \in 1 .. n + 1 /\ r[i] = y
      BY <1>1, <2>1, <3>1
    <3> QED
      BY <2>3, <3>2
  <2>6. x \in Range(r)
    BY <1>1, <2>2, <2>3
  <2> QED
    BY <2>4, <2>5, <2>6
<1>7. Rising(r, S)
  BY <1>1, <1>5 DEF Rising
<1> QED
  BY <1>1, <1>6, <1>7 DEF r

LEMMA RisingTail ==
  ASSUME NEW q \in Seq(Nat), q # <<>>, Rising(q, {})
  PROVE  /\ Tail(q) \in Seq(Nat) /\ Rising(Tail(q), {}) /\ Range(Tail(q)) \subseteq Range(q)
         /\ Head(q) \in Nat /\ Head(q) \in Range(q) /\ \A y \in Range(Tail(q)) : Head(q) < y
<1> DEFINE r == Tail(q)
           n == Len(q)
<1>1. /\ r \in Seq(Nat) /\ Len(r) = n - 1 /\ Head(q) = q[1] /\ Head(q) \in Nat
      /\ \A i \in 1 .. Len(r) : r[i] = q[i + 1]
      /\ n \in Nat /\ n > 0 /\ DOMAIN q = 1 .. n /\ DOMAIN r = 1 .. Len(r)
  BY HeadTailProperties, LenProperties, EmptySeq
<1>2. \A i, j \in 1 .. n : i < j => q[i] < q[j]
  BY DEF Rising
<1> HIDE DEF r, n
<1>3. \A i \in 1 .. n - 1 : i + 1 \in 1 .. n /\ 1 < i + 1 /\ i \in Int
  BY <1>1
<1>4. 1 \in 1 .. n
  BY <1>1
<1>5. \A i \in 1 .. n - 1 : r[i] = q[i + 1] /\ q[1] < r[i] /\ r[i] \in Range(q)
  BY <1>1, <1>2, <1>3, <1>4 DEF Range
<1>6. Rising(r, {})
  <2> SUFFICES ASSUME NEW i \in 1 .. n - 1, NEW j \in 1 .. n - 1, i < j PROVE r[i] < r[j]
    BY <1>1 DEF Rising
  <2>1. i + 1 < j + 1
    BY <1>3
  <2> QED
    BY <1>2, <1>3, <1>5, <2>1
<1>7. Range(r) = {r[i] : i \in 1 .. n - 1} /\ q[1] \in Range(q)
  BY <1>1, <1>4 DEF Range
<1> QED
  BY <1>1, <1>5, <1>6, <1>7 DEF r

RunInv ==
  /\ steers \in Seq(Nat) /\ queue \in Seq(Nat) /\ batch \in Seq(Nat) /\ done \in Seq(Nat)
  /\ admitted \in Nat /\ overtaken \in Nat
  /\ steering \cup Range(steers) \cup Range(queue) \cup Range(batch) \cup Range(done)
       \subseteq 1 .. admitted
  /\ Range(steers) \cup Range(batch) \subseteq steering /\ Range(queue) \cap steering = {}
  /\ Rising(steers, {}) /\ Rising(queue, {}) /\ Rising(batch, {}) /\ Rising(done, steering)
  /\ Before(Range(batch), Range(steers))
  /\ Before(Range(done) \cap steering, Range(batch) \cup Range(steers))
  /\ Before(Range(done) \ steering, Range(queue))
  /\ overtaken <= 1 /\ (runnerAt = "batch" => overtaken = 0)

LEMMA NoneRises == <<>> \in Seq(Nat) /\ Range(<<>>) = {} /\ \A S : Rising(<<>>, S)
<1>1. <<>> \in Seq(Nat) /\ Len(<<>>) = 0 /\ DOMAIN <<>> = {}
  BY EmptySeq
<1> QED
  BY <1>1 DEF Rising, Range

LEMMA RunStart == InputInit => RunInv
BY NoneRises DEF InputInit, RunInv, Before

LEMMA RunStep == RunInv /\ [RunnerNext]_runnerVars => RunInv'
<1> SUFFICES ASSUME RunInv, [RunnerNext]_runnerVars PROVE RunInv'
  OBVIOUS
<1>0. /\ steers \in Seq(Nat) /\ queue \in Seq(Nat) /\ batch \in Seq(Nat) /\ done \in Seq(Nat)
      /\ admitted \in Nat /\ overtaken \in Nat
      /\ steering \cup Range(steers) \cup Range(queue) \cup Range(batch) \cup Range(done)
           \subseteq 1 .. admitted
      /\ Range(steers) \cup Range(batch) \subseteq steering /\ Range(queue) \cap steering = {}
      /\ Rising(steers, {}) /\ Rising(queue, {}) /\ Rising(batch, {}) /\ Rising(done, steering)
      /\ Before(Range(batch), Range(steers))
      /\ Before(Range(done) \cap steering, Range(batch) \cup Range(steers))
      /\ Before(Range(done) \ steering, Range(queue))
      /\ overtaken <= 1 /\ (runnerAt = "batch" => overtaken = 0)
  BY DEF RunInv
<1>1. ASSUME NEW n \in Inputs, AdmitInput(n) PROVE RunInv'
  <2>1. /\ n = admitted + 1 /\ admitted' = n /\ n \in Nat
        /\ \/ steers' = Append(steers, n) /\ steering' = steering \cup {n} /\ UNCHANGED queue
           \/ queue' = Append(queue, n) /\ UNCHANGED <<steers, steering>>
        /\ UNCHANGED <<batch, done, overtaken, runnerAt>>
    BY <1>0, <1>1 DEF AdmitInput
  <2>2. /\ \A k \in 1 .. admitted : k < n /\ k \in 1 .. n
        /\ n \notin 1 .. admitted /\ n \in 1 .. n
    BY <1>0, <2>1
  <2>3. \A y \in Range(steers) \cup Range(queue) \cup Range(batch) \cup Range(done) : y < n /\ y # n
    BY <1>0, <2>2
  <2>4. Rising(done, steering \cup {n})
    <3>1. \A i \in 1 .. Len(done) : done[i] \in Range(done)
      BY <1>0, LenProperties DEF Range
    <3> QED
      BY <1>0, <2>3, <3>1 DEF Rising
  <2>5. CASE steers' = Append(steers, n) /\ steering' = steering \cup {n} /\ UNCHANGED queue
    <3>1. /\ steers' \in Seq(Nat) /\ Rising(steers', {})
          /\ Range(steers') = Range(steers) \cup {n}
      BY <1>0, <2>1, <2>3, <2>5, RisingAppend
    <3>2. /\ Before(Range(batch), Range(steers'))
          /\ Before(Range(done) \cap steering', Range(batch) \cup Range(steers'))
          /\ Before(Range(done) \ steering', Range(queue))
      BY <1>0, <2>3, <2>5, <3>1 DEF Before
    <3>3. /\ steering' \cup Range(steers') \cup Range(queue) \cup Range(batch) \cup Range(done)
               \subseteq 1 .. n
          /\ Range(steers') \cup Range(batch) \subseteq steering' /\ Range(queue) \cap steering' = {}
      BY <1>0, <2>2, <2>3, <2>5, <3>1
    <3> QED
      BY <1>0, <2>1, <2>4, <2>5, <3>1, <3>2, <3>3 DEF RunInv
  <2>6. CASE queue' = Append(queue, n) /\ UNCHANGED <<steers, steering>>
    <3>1. /\ queue' \in Seq(Nat) /\ Rising(queue', {})
          /\ Range(queue') = Range(queue) \cup {n}
      BY <1>0, <2>1, <2>3, <2>6, RisingAppend
    <3>2. Before(Range(done) \ steering', Range(queue'))
      BY <1>0, <2>3, <2>6, <3>1 DEF Before
    <3>3. /\ steering' \cup Range(steers') \cup Range(queue') \cup Range(batch) \cup Range(done)
               \subseteq 1 .. n
          /\ Range(queue') \cap steering' = {}
      BY <1>0, <2>2, <2>6, <3>1
    <3> QED
      BY <1>0, <2>1, <2>6, <3>1, <3>2, <3>3 DEF RunInv
  <2> QED
    BY <2>1, <2>5, <2>6
<1>2. CASE PromoteSteers
  <2>1. /\ batch' = steers /\ steers' = <<>> /\ overtaken' = 0
        /\ UNCHANGED <<queue, steering, admitted, done>>
    BY <1>2 DEF PromoteSteers
  <2>2. /\ Before(Range(batch'), Range(steers'))
        /\ Before(Range(done) \cap steering, Range(batch') \cup Range(steers'))
    BY <1>0, <2>1, NoneRises DEF Before
  <2> QED
    BY <1>0, <2>1, <2>2, NoneRises DEF RunInv
<1>3. CASE ProcessSteer
  <2>1. /\ batch # <<>> /\ batch' = Tail(batch) /\ done' = Append(done, Head(batch))
        /\ UNCHANGED <<steers, queue, steering, admitted, overtaken, runnerAt>>
    BY <1>3 DEF ProcessSteer
  <2> DEFINE x == Head(batch)
  <2>2. /\ batch' \in Seq(Nat) /\ Rising(batch', {}) /\ Range(batch') \subseteq Range(batch)
        /\ x \in Nat /\ x \in Range(batch) /\ \A y \in Range(batch') : x < y
    BY <1>0, <2>1, RisingTail
  <2> HIDE DEF x
  <2>3. \A y \in Range(done) : (y \in steering <=> x \in steering) => y < x
    BY <1>0, <2>2 DEF Before
  <2>4. done' \in Seq(Nat) /\ Rising(done', steering) /\ Range(done') = Range(done) \cup {x}
    BY <1>0, <2>1, <2>2, <2>3, RisingAppend DEF x
  <2>5. /\ Before(Range(batch'), Range(steers))
        /\ Before(Range(done') \cap steering, Range(batch') \cup Range(steers))
        /\ Before(Range(done') \ steering, Range(queue))
    BY <1>0, <2>2, <2>4 DEF Before
  <2> QED
    BY <1>0, <2>1, <2>2, <2>4, <2>5 DEF RunInv
<1>4. CASE PromoteQueued
  <2>1. CASE queue = <<>>
    <3>1. /\ runnerAt' = "pause" /\ UNCHANGED <<queue, done, overtaken>>
          /\ UNCHANGED <<steers, batch, steering, admitted>>
      BY <1>4, <2>1 DEF PromoteQueued
    <3> QED
      BY <1>0, <3>1 DEF RunInv
  <2>2. CASE queue # <<>>
    <3> DEFINE x == Head(queue)
    <3>1. /\ runnerAt = "batch" /\ runnerAt' = "item"
          /\ queue' = Tail(queue) /\ done' = Append(done, x)
          /\ overtaken' = (IF steers = <<>> THEN 0 ELSE overtaken + 1)
          /\ UNCHANGED <<steers, batch, steering, admitted>>
      BY <1>4, <2>2 DEF PromoteQueued
    <3>2. /\ queue' \in Seq(Nat) /\ Rising(queue', {}) /\ Range(queue') \subseteq Range(queue)
          /\ x \in Nat /\ x \in Range(queue) /\ \A y \in Range(queue') : x < y
      BY <1>0, <2>2, <3>1, RisingTail
    <3> HIDE DEF x
    <3>3. x \notin steering /\ \A y \in Range(done) : (y \in steering <=> x \in steering) => y < x
      BY <1>0, <3>2 DEF Before
    <3>4. done' \in Seq(Nat) /\ Rising(done', steering) /\ Range(done') = Range(done) \cup {x}
      BY <1>0, <3>1, <3>2, <3>3, RisingAppend
    <3>5. /\ Before(Range(done') \cap steering, Range(batch) \cup Range(steers))
          /\ Before(Range(done') \ steering, Range(queue'))
      BY <1>0, <3>2, <3>3, <3>4 DEF Before
    <3>6. overtaken' \in Nat /\ overtaken' <= 1
      BY <1>0, <3>1
    <3> QED
      BY <1>0, <3>1, <3>2, <3>4, <3>5, <3>6 DEF RunInv
  <2> QED
    BY <2>1, <2>2
<1>5. CASE CancelRunner
  <2>1. /\ runnerAt' = "off" /\ batch' = <<>>
        /\ UNCHANGED <<steers, queue, steering, admitted, done, overtaken>>
    BY <1>5 DEF CancelRunner
  <2>2. /\ Before(Range(batch'), Range(steers))
        /\ Before(Range(done) \cap steering, Range(batch') \cup Range(steers))
    BY <1>0, <2>1, NoneRises DEF Before
  <2> QED
    BY <1>0, <2>1, <2>2, NoneRises DEF RunInv
<1>6. CASE StartRunner \/ NextTurn \/ StopRunner \/ UNCHANGED runnerVars
  <2>1. /\ UNCHANGED <<steers, queue, batch, steering, admitted, done, overtaken>>
        /\ runnerAt' # "batch" \/ UNCHANGED runnerAt
    BY <1>6 DEF StartRunner, NextTurn, StopRunner, runnerVars
  <2> QED
    BY <1>0, <2>1 DEF RunInv
<1> QED
  BY <1>1, <1>2, <1>3, <1>4, <1>5, <1>6 DEF RunnerNext

LEMMA RunHolds == RunInv => SteersFirst
<1> SUFFICES ASSUME RunInv PROVE SteersFirst
  OBVIOUS
<1>1. DOMAIN done = 1 .. Len(done)
  BY LenProperties DEF RunInv
<1> QED
  BY <1>1 DEF RunInv, Rising, SteersFirst
-----------------------------------------------------------------------------
(***************************************************************************)
(* InputInbox: the queue that is kept in the events.                       *)
(***************************************************************************)
InputEvents ==
  [type : {"queued", "dequeued", "processed", "cancelled", "cleared", "other"}, input : Nat]

Handouts == [input : Nat, place : Nat]

\* The inputs that are pending.
Pends(events) == {events[k].input : k \in Waiting(events)}

\* What is pending for a handle that reads now.
Offered(events) == Pends(InboxRead(events))

\* The inputs are numbered as they are queued.
InOrder(events) ==
  \A k, l \in Queued(events) : k < l => events[k].input < events[l].input

Numbered(events) ==
  /\ \A k \in Queued(events) : events[k].input \in 1 .. Cardinality(Queued(events))
  /\ InOrder(events)

\* Of two inputs handed out the later one was queued later, or it is the same
\* and the event of the earlier handing is not read.
Precedes(x, i) == x.input < i \/ (x.input = i /\ x.place > InboxReadLimit)

AllBefore(A, B) == \A x \in A, y \in B : Precedes(x, y)

HandedInOrder(q) == \A j, k \in 1 .. Len(q) : j < k => Precedes(q[j], q[k].input)

\* The input is the last one that was dequeued, and it has not been marked.
InProcess(events, i) ==
  \E k \in DOMAIN events :
    /\ events[k].type = "dequeued" /\ events[k].input = i
    /\ \A l \in DOMAIN events : l > k => events[l].type \notin {"dequeued", "processed"}

LEMMA QueuedAreFinite ==
  ASSUME NEW events \in Seq(InputEvents)
  PROVE  IsFiniteSet(Queued(events)) /\ Cardinality(Queued(events)) \in Nat
<1>1. Len(events) \in Nat /\ DOMAIN events = 1 .. Len(events)
  BY LenProperties
<1>2. Queued(events) \in SUBSET (1 .. Len(events)) /\ IsFiniteSet(1 .. Len(events))
  BY <1>1, FS_Interval DEF Queued
<1> QED
  BY <1>2, FS_Subset, FS_CardinalityType

\* The pending inputs of a reload, oldest first.
LEMMA PendingIs ==
  ASSUME NEW events \in Seq(InputEvents), InOrder(events)
  PROVE  /\ Pending(events) \in Seq(Nat) /\ Rising(Pending(events), {})
         /\ Range(Pending(events)) = Pends(events)
<1> DEFINE W == Waiting(events)
           es == ItemsAt(events, W)
           c == Cardinality(W)
           p == Pending(events)
<1>1. W \in SUBSET Queued(events) /\ W \in SUBSET DOMAIN events
  BY DEF Waiting, Queued
<1>2. \A k, l \in W : k < l => events[k].input < events[l].input
  BY <1>1 DEF InOrder
<1>3. p = [k \in DOMAIN es |-> es[k].input]
  BY DEF Pending
<1>4. Pends(events) = {events[k].input : k \in W}
  BY DEF Pends
<1> HIDE DEF W
<1>5. /\ c \in Nat /\ es \in Seq(InputEvents) /\ Len(es) = c
      /\ \A i \in 1 .. c : PlaceIn(W, i) \in W /\ es[i] = events[PlaceIn(W, i)]
      /\ \A i, j \in 1 .. c : i < j => PlaceIn(W, i) < PlaceIn(W, j)
      /\ \A k \in W : \E i \in 1 .. c : PlaceIn(W, i) = k
  <2>1. W \in SUBSET DOMAIN events
    BY <1>1
  <2>2. c \in Nat /\ es \in Seq(InputEvents) /\ Len(es) = c
    BY <2>1, KeptItems
  <2>3. \A i \in 1 .. c : PlaceIn(W, i) \in W /\ es[i] = events[PlaceIn(W, i)]
    BY <2>1, KeptItems
  <2>4. \A i, j \in 1 .. c : i < j => PlaceIn(W, i) < PlaceIn(W, j)
    BY <2>1, KeptItems
  <2>5. ASSUME NEW k \in W PROVE \E i \in 1 .. c : PlaceIn(W, i) = k
    <3>1. Len(events) \in Nat /\ W \in SUBSET (1 .. Len(events))
      BY <2>1, LenProperties
    <3>2. /\ \A j \in W : RankIn(W, j) \in 1 .. c
          /\ \A j, l \in W : j < l => RankIn(W, j) < RankIn(W, l)
      BY <3>1, RanksNumber
    <3> DEFINE i == RankIn(W, k)
    <3>3. PlaceIn(W, i) \in W /\ RankIn(W, PlaceIn(W, i)) = i
      BY DEF PlaceIn
    <3>4. k \in Int /\ PlaceIn(W, i) \in Int /\ i \in 1 .. c /\ c \in Nat
      <4>1. \A j \in W : j \in Int
        BY <3>1
      <4>2. k \in Int /\ PlaceIn(W, i) \in Int
        BY <3>3, <4>1
      <4>3. i \in 1 .. c
        BY <3>2
      <4> QED
        BY <2>2, <4>2, <4>3
    <3>5. ~(k < PlaceIn(W, i)) /\ ~(PlaceIn(W, i) < k)
      <4>1. k < PlaceIn(W, i) => i < i
        BY <3>2, <3>3
      <4>2. PlaceIn(W, i) < k => i < i
        BY <3>2, <3>3
      <4> HIDE DEF i
      <4> QED
        BY <3>4, <4>1, <4>2
    <3> HIDE DEF i
    <3>6. PlaceIn(W, i) = k
      BY <3>4, <3>5
    <3> QED
      BY <3>4, <3>6
  <2> QED
    BY <2>2, <2>3, <2>4, <2>5
<1> HIDE DEF es, c
<1>6. DOMAIN es = 1 .. c /\ \A i \in 1 .. c : es[i] \in InputEvents
  BY <1>5, LenProperties, ElementOfSeq
<1>7. \A x \in InputEvents : x.input \in Nat
  BY DEF InputEvents
<1> HIDE DEF p
<1>8. p \in [1 .. c -> Nat] /\ \A i \in 1 .. c : p[i] = events[PlaceIn(W, i)].input
  BY <1>3, <1>5, <1>6, <1>7
<1>9. p \in Seq(Nat) /\ Len(p) = c /\ DOMAIN p = 1 .. c
  BY <1>5, <1>8, SeqDef, LenProperties
<1>10. Rising(p, {})
  <2>1. \A i, j \in 1 .. c : i < j => p[i] < p[j]
    BY <1>2, <1>5, <1>8
  <2> QED
    BY <1>9, <2>1 DEF Rising
<1>11. Range(p) = Pends(events)
  <2>1. \A i \in 1 .. c : p[i] \in Pends(events)
    BY <1>4, <1>5, <1>8
  <2>2. ASSUME NEW k \in W PROVE events[k].input \in Range(p)
    <3>1. PICK i \in 1 .. c : PlaceIn(W, i) = k
      BY <1>5
    <3> QED
      BY <1>8, <1>9, <3>1 DEF Range
  <2> QED
    BY <1>4, <1>9, <2>1, <2>2 DEF Range
<1> QED
  BY <1>9, <1>10, <1>11 DEF p

\* What the append of an event does to the projection.
LEMMA EventAppended ==
  ASSUME NEW events \in Seq(InputEvents), NEW e \in InputEvents, Numbered(events),
         e.type = "queued" => e.input = Cardinality(Queued(events)) + 1
  PROVE  LET after == Append(events, e) IN
         /\ after \in Seq(InputEvents) /\ Numbered(after)
         /\ Cardinality(Queued(after)) =
              Cardinality(Queued(events)) + (IF e.type = "queued" THEN 1 ELSE 0)
         /\ \A i \in Pends(after) : i \in Pends(events) \/ (e.type = "queued" /\ i = e.input)
         /\ e.type = "dequeued" => e.input \notin Pends(after)
         /\ e.type = "dequeued" => InProcess(after, e.input)
         /\ e.type \notin {"dequeued", "processed"} =>
              \A i : InProcess(events, i) => InProcess(after, i)
<1> DEFINE after == Append(events, e)
           n == Len(events)
           q == Cardinality(Queued(events))
<1>1. /\ after \in Seq(InputEvents) /\ n \in Nat
      /\ DOMAIN events = 1 .. n /\ DOMAIN after = 1 .. (n + 1)
      /\ after[n + 1] = e /\ \A k \in 1 .. n : after[k] = events[k]
  BY AppendProperties, LenProperties
<1>2. IsFiniteSet(Queued(events)) /\ q \in Nat
  BY QueuedAreFinite
<1>3. Queued(events) = {k \in 1 .. n : events[k].type = "queued"}
  BY <1>1 DEF Queued
<1>4. Queued(after) = {k \in 1 .. (n + 1) : after[k].type = "queued"}
  BY <1>1 DEF Queued
<1>5. /\ \A k \in Queued(events) : events[k].input \in 1 .. q
      /\ \A k, l \in Queued(events) : k < l => events[k].input < events[l].input
  BY DEF Numbered, InOrder
<1>6. /\ \A k \in 1 .. (n + 1) : k \in 1 .. n \/ k = n + 1
      /\ \A k \in 1 .. n : k \in 1 .. (n + 1) /\ k < n + 1 /\ k # n + 1
      /\ n + 1 \in 1 .. (n + 1) /\ n + 1 \notin 1 .. n
  BY <1>1
<1> HIDE DEF after, n
<1>7. Queued(after) = Queued(events) \cup (IF e.type = "queued" THEN {n + 1} ELSE {})
  BY <1>1, <1>3, <1>4, <1>6
<1>8. Cardinality(Queued(after)) = q + (IF e.type = "queued" THEN 1 ELSE 0)
  <2>1. CASE e.type = "queued"
    <3>1. n + 1 \notin Queued(events)
      BY <1>3, <1>6
    <3>2. Cardinality(Queued(events) \cup {n + 1}) = q + 1
      BY <1>2, <3>1, FS_AddElement
    <3> QED
      BY <1>7, <2>1, <3>2
  <2>2. CASE e.type # "queued"
    BY <1>2, <1>7, <2>2
  <2> QED
    BY <2>1, <2>2
<1> HIDE DEF q
<1>9. Numbered(after)
  <2>1. \A k \in Queued(events) : k \in 1 .. n /\ after[k] = events[k]
    BY <1>1, <1>3
  <2>2. CASE e.type = "queued"
    <3>1. e.input = q + 1
      BY <2>2 DEF q
    <3>2. \A k \in Queued(after) : k \in Queued(events) \/ (k = n + 1 /\ after[k].input = q + 1)
      BY <1>1, <1>7, <2>2, <3>1
    <3>3. Cardinality(Queued(after)) = q + 1
      BY <1>8, <2>2
    <3>4. \A k \in Queued(after) : after[k].input \in 1 .. (q + 1)
      BY <1>2, <1>5, <2>1, <3>2
    <3>5. ASSUME NEW k \in Queued(after), NEW l \in Queued(after), k < l
          PROVE  after[k].input < after[l].input
      <4>1. k \in Queued(events)
        BY <1>1, <1>6, <2>1, <3>2, <3>5
      <4>2. CASE l \in Queued(events)
        BY <1>5, <2>1, <3>5, <4>1, <4>2
      <4>3. CASE l = n + 1 /\ after[l].input = q + 1
        <5>1. after[k].input \in 1 .. q
          BY <1>5, <2>1, <4>1
        <5> QED
          BY <1>2, <4>3, <5>1
      <4> QED
        BY <3>2, <4>2, <4>3
    <3> QED
      BY <3>3, <3>4, <3>5 DEF Numbered, InOrder
  <2>3. CASE e.type # "queued"
    <3>1. Queued(after) = Queued(events)
      BY <1>7, <2>3
    <3> QED
      BY <1>5, <2>1, <3>1 DEF Numbered, InOrder, q
  <2> QED
    BY <2>2, <2>3
<1>10. ASSUME NEW k \in Waiting(after)
       PROVE  \/ k \in Waiting(events) /\ after[k] = events[k] /\ ~Takes(e, after[k].input)
              \/ k = n + 1 /\ e.type = "queued" /\ after[k] = e
  <2>1. /\ k \in Queued(after)
        /\ \A l \in 1 .. (n + 1) : l > k => ~Takes(after[l], after[k].input)
    BY <1>1 DEF Waiting
  <2>2. CASE k \in Queued(events)
    <3>1. k \in 1 .. n /\ after[k] = events[k]
      BY <1>1, <1>3, <2>2
    <3>2. ~Takes(e, after[k].input)
      <4>1. n + 1 > k
        BY <1>1, <3>1
      <4> QED
        BY <1>1, <1>6, <2>1, <4>1
    <3>3. \A l \in 1 .. n : l > k => ~Takes(events[l], events[k].input)
      BY <1>1, <1>6, <2>1, <3>1
    <3> QED
      BY <1>1, <2>2, <3>1, <3>2, <3>3 DEF Waiting
  <2>3. CASE k \notin Queued(events)
    BY <1>1, <1>7, <2>1, <2>3
  <2> QED
    BY <2>2, <2>3
<1>11. \A i \in Pends(after) : i \in Pends(events) \/ (e.type = "queued" /\ i = e.input)
  <2> SUFFICES ASSUME NEW i \in Pends(after)
               PROVE  i \in Pends(events) \/ (e.type = "queued" /\ i = e.input)
    OBVIOUS
  <2>1. PICK k \in Waiting(after) : after[k].input = i
    BY DEF Pends
  <2>2. CASE k \in Waiting(events) /\ after[k] = events[k]
    BY <2>1, <2>2 DEF Pends
  <2>3. CASE e.type = "queued" /\ after[k] = e
    BY <2>1, <2>3
  <2> QED
    BY <1>10, <2>2, <2>3
<1>12. ASSUME e.type = "dequeued" PROVE e.input \notin Pends(after)
  <2> SUFFICES ASSUME NEW k \in Waiting(after), after[k].input = e.input PROVE FALSE
    BY DEF Pends
  <2>1. ~Takes(e, e.input)
    BY <1>10, <1>12
  <2> QED
    BY <1>12, <2>1 DEF Takes
<1>13. ASSUME e.type = "dequeued" PROVE InProcess(after, e.input)
  <2>1. \A l \in 1 .. (n + 1) : ~(l > n + 1)
    BY <1>1
  <2> QED
    BY <1>1, <1>6, <1>13, <2>1 DEF InProcess
<1>14. ASSUME e.type \notin {"dequeued", "processed"}, NEW i, InProcess(events, i)
       PROVE  InProcess(after, i)
  <2>1. PICK k \in 1 .. n :
          /\ events[k].type = "dequeued" /\ events[k].input = i
          /\ \A l \in 1 .. n : l > k => events[l].type \notin {"dequeued", "processed"}
    BY <1>1, <1>14 DEF InProcess
  <2>2. k \in DOMAIN after /\ after[k].type = "dequeued" /\ after[k].input = i
    BY <1>1, <1>6, <2>1
  <2>3. \A l \in DOMAIN after : l > k => after[l].type \notin {"dequeued", "processed"}
    BY <1>1, <1>6, <1>14, <2>1
  <2> QED
    BY <2>2, <2>3 DEF InProcess
<1> QED
  BY <1>1, <1>8, <1>9, <1>11, <1>12, <1>13, <1>14 DEF after, q

\* The events a reload reads are the first ones.
LEMMA ReadIs ==
  ASSUME NEW events \in Seq(InputEvents), Numbered(events)
  PROVE  /\ InboxRead(events) \in Seq(InputEvents) /\ InOrder(InboxRead(events))
         /\ Offered(events) \subseteq 1 .. Cardinality(Queued(events))
<1> DEFINE r == InboxRead(events)
<1>1. /\ r \in Seq(InputEvents) /\ DOMAIN r \subseteq DOMAIN events
      /\ \A k \in DOMAIN r : r[k] = events[k]
  <2>1. CASE Len(events) <= InboxReadLimit
    BY <2>1 DEF InboxRead
  <2>2. CASE ~(Len(events) <= InboxReadLimit)
    <3>1. r = SubSeq(events, 1, InboxReadLimit)
      BY <2>2 DEF InboxRead
    <3>2. /\ InboxReadLimit \in Nat /\ Len(events) \in Nat /\ InboxReadLimit <= Len(events)
          /\ InboxReadLimit >= 1
      BY <2>2, InputInboxAssumption, LenProperties
    <3>3. /\ r \in Seq(InputEvents) /\ Len(r) = InboxReadLimit
          /\ \A k \in 1 .. InboxReadLimit : r[k] = events[k]
      BY <3>1, <3>2, SubSeqProperties
    <3> QED
      BY <3>2, <3>3, LenProperties
  <2> QED
    BY <2>1, <2>2
<1> HIDE DEF r
<1>2. Queued(r) \subseteq Queued(events) /\ \A k \in Queued(r) : r[k] = events[k]
  BY <1>1 DEF Queued
<1>3. InOrder(r)
  BY <1>2 DEF InOrder, Numbered
<1>4. \A k \in Waiting(r) : k \in Queued(r)
  BY DEF Waiting
<1>5. Pends(r) \subseteq 1 .. Cardinality(Queued(events))
  BY <1>2, <1>4 DEF Pends, Numbered
<1> QED
  BY <1>1, <1>3, <1>5 DEF Offered, r

\* What the append of an event does to what a reload shows.
LEMMA ReadAppended ==
  ASSUME NEW events \in Seq(InputEvents), NEW e \in InputEvents, Numbered(events),
         e.type = "queued" => e.input = Cardinality(Queued(events)) + 1
  PROVE  LET after == Append(events, e) IN
         /\ \A i \in Offered(after) : i \in Offered(events) \/ (e.type = "queued" /\ i = e.input)
         /\ e.type = "dequeued" =>
              e.input \notin Offered(after) \/ Len(events) + 1 > InboxReadLimit
<1> DEFINE after == Append(events, e)
           n == Len(events)
           L == InboxReadLimit
<1>1. /\ n \in Nat /\ L \in Nat /\ L >= 1 /\ after \in Seq(InputEvents) /\ Len(after) = n + 1
      /\ \A k \in 1 .. n : after[k] = events[k]
  BY AppendProperties, LenProperties, InputInboxAssumption
<1>2. CASE n + 1 <= L
  <2>1. InboxRead(after) = after /\ InboxRead(events) = events
    BY <1>1, <1>2 DEF InboxRead
  <2>2. /\ \A i \in Pends(after) : i \in Pends(events) \/ (e.type = "queued" /\ i = e.input)
        /\ e.type = "dequeued" => e.input \notin Pends(after)
    BY EventAppended
  <2> QED
    BY <2>1, <2>2 DEF Offered
<1>3. CASE n + 1 > L
  <2> HIDE DEF after
  <2>1. InboxRead(after) = SubSeq(after, 1, L)
    BY <1>1, <1>3 DEF InboxRead
  <2>2. /\ SubSeq(after, 1, L) \in Seq(InputEvents) /\ Len(SubSeq(after, 1, L)) = L
        /\ \A k \in 1 .. L : SubSeq(after, 1, L)[k] = after[k]
    BY <1>1, <1>3, SubSeqProperties
  <2>3. /\ InboxRead(events) \in Seq(InputEvents) /\ Len(InboxRead(events)) = L
        /\ \A k \in 1 .. L : InboxRead(events)[k] = events[k]
    <3>1. CASE n = L
      BY <1>1, <3>1 DEF InboxRead
    <3>2. CASE n > L
      <4>1. InboxRead(events) = SubSeq(events, 1, L)
        BY <1>1, <3>2 DEF InboxRead
      <4> QED
        BY <1>1, <3>2, <4>1, SubSeqProperties
    <3> QED
      BY <1>1, <1>3, <3>1, <3>2
  <2>4. \A k \in 1 .. L : k \in 1 .. n
    BY <1>1, <1>3
  <2>5. InboxRead(after) = InboxRead(events)
    BY <1>1, <2>1, <2>2, <2>3, <2>4, SeqEqual
  <2> QED
    BY <1>1, <1>3, <2>5 DEF Offered, after
<1> QED
  BY <1>1, <1>2, <1>3

OneWorker == \A u, v \in Workers : u = v

InboxTypes ==
  /\ inbox \in Seq(InputEvents) /\ handed \in Seq(Handouts) /\ view \in [Handles -> Seq(Nat)]
  /\ inboxAt \in [Handles -> [at : {"idle", "loaded", "dequeued", "processed", "cancelled", "cleared",
                                    "reload", "reloadHand"}, input : Nat, place : Nat]]

\* What a worker has in view is newer than what it was handed, but for what is
\* not read, and its first input is at least as old as what is offered; it takes
\* that input.
WorkerInv(w) ==
  /\ inboxAt[w].at \in {"idle", "dequeued", "processed", "reload", "reloadHand"}
  /\ Rising(view[w], {}) /\ Range(view[w]) \subseteq 1 .. Cardinality(Queued(inbox))
  /\ view[w] # <<>> => \A i \in Offered(inbox) : Head(view[w]) <= i
  /\ AllBefore(Range(handed), Range(view[w]))
  /\ inboxAt[w].at \in {"dequeued", "reloadHand"} =>
       view[w] # <<>> /\ inboxAt[w].input = Head(view[w])
  /\ inboxAt[w].at = "reloadHand" =>
       inboxAt[w].input \notin Offered(inbox) \/ inboxAt[w].place > InboxReadLimit
  /\ inboxAt[w].at \in {"idle", "processed", "reloadHand"} /\ inboxAt[w].input # 0 =>
       InProcess(inbox, inboxAt[w].input)

InboxInv ==
  /\ InboxTypes /\ Numbered(inbox)
  /\ \A w \in Workers : WorkerInv(w)
  /\ \A c \in Clients : inboxAt[c].at \in {"idle", "loaded", "cancelled", "cleared", "reload"}
  /\ HandedInOrder(handed) /\ AllBefore(Range(handed), Offered(inbox))
  /\ \A x \in Range(handed) : x.input \in 1 .. Cardinality(Queued(inbox))

LEMMA InboxStart == InputInit => InboxInv
<1> SUFFICES ASSUME InputInit PROVE InboxInv
  OBVIOUS
<1>1. /\ inbox = <<>> /\ view = [h \in Handles |-> <<>>] /\ inboxAt = [h \in Handles |-> Idle]
      /\ handed = <<>>
  BY DEF InputInit
<1>2. /\ <<>> \in Seq(InputEvents) /\ DOMAIN <<>> = {}
      /\ <<>> \in Seq(Nat) /\ <<>> \in Seq(Handouts) /\ Len(<<>>) = 0
      /\ Range(<<>>) = {} /\ Rising(<<>>, {})
  BY EmptySeq, NoneRises
<1>3. Numbered(inbox) /\ Offered(inbox) = {}
  <2>1. Numbered(inbox) /\ Pends(inbox) = {}
    BY <1>1, <1>2 DEF Numbered, InOrder, Pends, Waiting, Queued
  <2>2. InboxRead(inbox) = inbox
    BY <1>1, <1>2, InputInboxAssumption DEF InboxRead
  <2> QED
    BY <2>1, <2>2 DEF Offered
<1>4. InboxTypes
  BY <1>1, <1>2 DEF InboxTypes, Idle
<1>5. \A h \in Handles : view[h] = <<>> /\ inboxAt[h].at = "idle" /\ inboxAt[h].input = 0
  BY <1>1 DEF Idle
<1>6. \A w \in Workers : WorkerInv(w)
  BY <1>1, <1>2, <1>3, <1>5 DEF WorkerInv, AllBefore, Handles
<1>7. HandedInOrder(handed) /\ Range(handed) = {}
  BY <1>1, <1>2 DEF HandedInOrder
<1> QED
  BY <1>3, <1>4, <1>5, <1>6, <1>7 DEF InboxInv, AllBefore, Handles

\* Where a handle goes, the others stay.
LEMMA HandleGoes ==
  ASSUME InboxTypes, NEW h \in Handles, NEW i \in Nat, NEW n \in Nat,
         NEW at \in {"idle", "loaded", "dequeued", "processed", "cancelled", "cleared", "reload", "reloadHand"},
         Stand(h, at, i, n)
  PROVE  /\ inboxAt' \in [Handles -> [at : {"idle", "loaded", "dequeued", "processed", "cancelled",
                                            "cleared", "reload", "reloadHand"}, input : Nat, place : Nat]]
         /\ inboxAt'[h].at = at /\ inboxAt'[h].input = i /\ inboxAt'[h].place = n
         /\ \A g \in Handles : g # h => inboxAt'[g] = inboxAt[g]
BY DEF Stand, InboxTypes

\* What a step of the log leaves in force.
LEMMA LogGrows ==
  ASSUME InboxInv, NEW e \in InputEvents, inbox' = Append(inbox, e),
         e.type = "queued" => e.input = Cardinality(Queued(inbox)) + 1,
         UNCHANGED <<view, handed>>
  PROVE  /\ inbox' \in Seq(InputEvents) /\ Numbered(inbox')
         /\ AllBefore(Range(handed), Offered(inbox'))
         /\ \A x \in Range(handed) : x.input \in 1 .. Cardinality(Queued(inbox'))
         /\ \A w \in Workers :
              /\ Range(view[w]) \subseteq 1 .. Cardinality(Queued(inbox'))
              /\ view[w] # <<>> => \A i \in Offered(inbox') : Head(view[w]) <= i
              /\ view[w] # <<>> => Head(view[w]) \in Nat
              /\ e.type # "queued" => \A i : i \notin Offered(inbox) => i \notin Offered(inbox')
              /\ e.type = "queued" => e.input \notin Range(view[w])
         /\ e.type = "dequeued" => InProcess(inbox', e.input)
         /\ e.type = "dequeued" =>
              e.input \notin Offered(inbox') \/ Len(inbox) + 1 > InboxReadLimit
         /\ e.type \notin {"dequeued", "processed"} =>
              \A i : InProcess(inbox, i) => InProcess(inbox', i)
<1> DEFINE q == Cardinality(Queued(inbox))
           r == Cardinality(Queued(inbox'))
<1>1. /\ inbox \in Seq(InputEvents) /\ Numbered(inbox) /\ view \in [Handles -> Seq(Nat)]
      /\ \A w \in Workers : WorkerInv(w)
      /\ AllBefore(Range(handed), Offered(inbox)) /\ \A x \in Range(handed) : x.input \in 1 .. q
  BY DEF InboxInv, InboxTypes
<1>2. q \in Nat
  BY <1>1, QueuedAreFinite
<1>3. /\ inbox' \in Seq(InputEvents) /\ Numbered(inbox')
      /\ r = q + (IF e.type = "queued" THEN 1 ELSE 0)
      /\ e.type = "dequeued" => InProcess(inbox', e.input)
      /\ e.type \notin {"dequeued", "processed"} =>
           \A i : InProcess(inbox, i) => InProcess(inbox', i)
  BY <1>1, EventAppended
<1>9. /\ \A i \in Offered(inbox') : i \in Offered(inbox) \/ (e.type = "queued" /\ i = e.input)
      /\ e.type = "dequeued" =>
           e.input \notin Offered(inbox') \/ Len(inbox) + 1 > InboxReadLimit
  BY <1>1, ReadAppended
<1>4. e.type = "queued" => e.input = q + 1
  OBVIOUS
<1> HIDE DEF q, r
<1>5. \A k \in 1 .. q : k \in 1 .. r /\ k < q + 1
  BY <1>2, <1>3
<1>6. AllBefore(Range(handed), Offered(inbox'))
  <2> SUFFICES ASSUME NEW x \in Range(handed), NEW i \in Offered(inbox') PROVE Precedes(x, i)
    BY DEF AllBefore
  <2>1. CASE i \in Offered(inbox)
    BY <1>1, <2>1 DEF AllBefore
  <2>2. CASE e.type = "queued" /\ i = e.input
    BY <1>1, <1>4, <1>5, <2>2 DEF Precedes
  <2> QED
    BY <1>9, <2>1, <2>2
<1>7. ASSUME NEW w \in Workers
      PROVE  /\ Range(view[w]) \subseteq 1 .. r
             /\ view[w] # <<>> => \A i \in Offered(inbox') : Head(view[w]) <= i
             /\ view[w] # <<>> => Head(view[w]) \in Nat
             /\ e.type # "queued" => \A i : i \notin Offered(inbox) => i \notin Offered(inbox')
             /\ e.type = "queued" => e.input \notin Range(view[w])
  <2>1. /\ Range(view[w]) \subseteq 1 .. q /\ Rising(view[w], {})
        /\ view[w] # <<>> => \A i \in Offered(inbox) : Head(view[w]) <= i
    BY <1>1 DEF WorkerInv, q
  <2>2. view[w] \in Seq(Nat)
    BY <1>1 DEF Handles
  <2>3. view[w] # <<>> => Head(view[w]) \in Nat /\ Head(view[w]) \in Range(view[w])
    BY <2>1, <2>2, RisingTail
  <2>4. view[w] # <<>> => Head(view[w]) < q + 1
    BY <1>5, <2>1, <2>3
  <2>5. view[w] # <<>> => \A i \in Offered(inbox') : Head(view[w]) <= i
    BY <1>2, <1>4, <1>9, <2>1, <2>3, <2>4
  <2>6. e.type = "queued" => e.input \notin Range(view[w])
    BY <1>4, <1>5, <2>1, <1>2
  <2> QED
    BY <1>5, <1>9, <2>1, <2>3, <2>5, <2>6
<1>8. \A x \in Range(handed) : x.input \in 1 .. r
  BY <1>1, <1>5
<1> QED
  BY <1>3, <1>6, <1>7, <1>8, <1>9 DEF r

LEMMA HandedMore ==
  ASSUME NEW q \in Seq(Handouts), NEW x \in Handouts, HandedInOrder(q),
         \A y \in Range(q) : Precedes(y, x.input)
  PROVE  /\ Append(q, x) \in Seq(Handouts) /\ HandedInOrder(Append(q, x))
         /\ Range(Append(q, x)) = Range(q) \cup {x}
<1> DEFINE r == Append(q, x)
           n == Len(q)
<1>1. /\ r \in Seq(Handouts) /\ Len(r) = n + 1 /\ r[n + 1] = x
      /\ \A i \in 1 .. n : r[i] = q[i]
      /\ n \in Nat /\ DOMAIN q = 1 .. n /\ DOMAIN r = 1 .. Len(r)
  BY AppendProperties, LenProperties
<1>2. \A i \in 1 .. n : q[i] \in Range(q)
  BY <1>1 DEF Range
<1>3. \A i, j \in 1 .. n : i < j => Precedes(q[i], q[j].input)
  BY DEF HandedInOrder
<1> HIDE DEF r, n
<1>4. \A i \in 1 .. n + 1 : i \in 1 .. n \/ i = n + 1
  BY <1>1
<1>5. ASSUME NEW i \in 1 .. n + 1, NEW j \in 1 .. n + 1, i < j
      PROVE  Precedes(r[i], r[j].input)
  <2>1. i \in 1 .. n /\ r[i] = q[i]
    BY <1>1, <1>4, <1>5
  <2>2. CASE j \in 1 .. n
    BY <1>1, <1>3, <1>5, <2>1, <2>2
  <2>3. CASE j = n + 1
    BY <1>1, <1>2, <1>5, <2>1, <2>3
  <2> QED
    BY <1>4, <2>2, <2>3
<1>6. Range(r) = Range(q) \cup {x}
  <2>1. n + 1 \in 1 .. n + 1 /\ \A i \in 1 .. n : i \in 1 .. n + 1
    BY <1>1
  <2>2. Range(q) = {q[i] : i \in 1 .. n} /\ Range(r) = {r[i] : i \in 1 .. n + 1}
    BY <1>1 DEF Range
  <2> QED
    BY <1>1, <1>4, <2>1, <2>2
<1>7. HandedInOrder(r)
  BY <1>1, <1>5 DEF HandedInOrder
<1> QED
  BY <1>1, <1>6, <1>7 DEF r

LEMMA InboxStep ==
  ASSUME OneWorker
  PROVE  InboxInv /\ [InputNext]_inboxVars => InboxInv'
<1> SUFFICES ASSUME InboxInv, [InputNext]_inboxVars PROVE InboxInv'
  OBVIOUS
<1>0. /\ InboxTypes /\ Numbered(inbox)
      /\ \A w \in Workers : WorkerInv(w)
      /\ \A c \in Clients : inboxAt[c].at \in {"idle", "loaded", "cancelled", "cleared", "reload"}
      /\ HandedInOrder(handed) /\ AllBefore(Range(handed), Offered(inbox))
      /\ \A x \in Range(handed) : x.input \in 1 .. Cardinality(Queued(inbox))
  BY DEF InboxInv
<1>00. /\ inbox \in Seq(InputEvents) /\ handed \in Seq(Handouts)
       /\ view \in [Handles -> Seq(Nat)]
       /\ \A h \in Handles : view[h] \in Seq(Nat) /\ inboxAt[h].input \in Nat /\ inboxAt[h].place \in Nat
       /\ Workers \subseteq Handles /\ Clients \subseteq Handles
       /\ \A w \in Workers : w \notin Clients
  BY <1>0, InputInboxAssumption DEF InboxTypes, Handles
<1>1. CASE Enqueue
  <2> DEFINE e == Event("queued", Cardinality(Queued(inbox)) + 1)
  <2>1. inbox' = Append(inbox, e) /\ UNCHANGED <<view, inboxAt, handed>>
    BY <1>1 DEF Enqueue, Log
  <2>2. e \in InputEvents /\ e.type = "queued" /\ e.input = Cardinality(Queued(inbox)) + 1
    BY <1>00, QueuedAreFinite DEF Event, InputEvents
  <2> HIDE DEF e
  <2>3. /\ inbox' \in Seq(InputEvents) /\ Numbered(inbox')
        /\ AllBefore(Range(handed), Offered(inbox'))
        /\ \A x \in Range(handed) : x.input \in 1 .. Cardinality(Queued(inbox'))
        /\ \A w \in Workers :
             /\ Range(view[w]) \subseteq 1 .. Cardinality(Queued(inbox'))
             /\ view[w] # <<>> => \A i \in Offered(inbox') : Head(view[w]) <= i
             /\ e.input \notin Range(view[w])
        /\ \A i : InProcess(inbox, i) => InProcess(inbox', i)
    BY <2>1, <2>2, LogGrows
  <2>4. \A i \in Offered(inbox') : i \in Offered(inbox) \/ i = e.input
    BY <1>0, <1>00, <2>1, <2>2, ReadAppended
  <2>5. ASSUME NEW w \in Workers PROVE WorkerInv(w)'
    <3>1. WorkerInv(w)
      BY <1>0
    <3>2. inboxAt[w].at = "reloadHand" =>
            inboxAt[w].input \notin Offered(inbox') \/ inboxAt[w].place > InboxReadLimit
      <4>1. inboxAt[w].at = "reloadHand" => inboxAt[w].input \in Range(view[w])
        BY <1>00, <3>1, RisingTail DEF WorkerInv
      <4> QED
        BY <2>3, <2>4, <3>1, <4>1 DEF WorkerInv
    <3> QED
      BY <2>1, <2>3, <3>1, <3>2 DEF WorkerInv
  <2> QED
    BY <1>0, <2>1, <2>3, <2>5 DEF InboxInv, InboxTypes
<1>10. CASE OtherEvent
  <2> DEFINE e == Event("other", 0)
  <2>1. inbox' = Append(inbox, e) /\ UNCHANGED <<view, inboxAt, handed>>
    BY <1>10 DEF OtherEvent, Log
  <2>2. e \in InputEvents /\ e.type = "other"
    BY DEF Event, InputEvents
  <2> HIDE DEF e
  <2>3. /\ inbox' \in Seq(InputEvents) /\ Numbered(inbox')
        /\ AllBefore(Range(handed), Offered(inbox'))
        /\ \A x \in Range(handed) : x.input \in 1 .. Cardinality(Queued(inbox'))
        /\ \A w \in Workers :
             /\ Range(view[w]) \subseteq 1 .. Cardinality(Queued(inbox'))
             /\ view[w] # <<>> => \A i \in Offered(inbox') : Head(view[w]) <= i
             /\ \A i : i \notin Offered(inbox) => i \notin Offered(inbox')
        /\ \A i : InProcess(inbox, i) => InProcess(inbox', i)
    BY <2>1, <2>2, LogGrows
  <2>4. \A w \in Workers : WorkerInv(w)'
    BY <1>0, <2>1, <2>3 DEF WorkerInv
  <2> QED
    BY <1>0, <2>1, <2>3, <2>4 DEF InboxInv, InboxTypes
<1>2. ASSUME NEW h \in Handles, AppendInput(h) PROVE InboxInv'
  <2> DEFINE at == inboxAt[h].at
             i  == inboxAt[h].input
             e  == Event(at, i)
  <2>1. /\ at \in {"dequeued", "processed", "cancelled", "cleared"}
        /\ inbox' = Append(inbox, e) /\ UNCHANGED <<view, handed>>
        /\ Stand(h, IF at = "dequeued" THEN "reloadHand" ELSE "reload", i, Len(inbox) + 1)
        /\ Len(inbox) + 1 \in Nat
    BY <1>00, <1>2, LenProperties DEF AppendInput, Log
  <2>2. e \in InputEvents /\ e.type = at /\ e.input = i /\ i \in Nat /\ e.type # "queued"
    BY <1>00, <2>1 DEF Event, InputEvents
  <2>3. /\ inboxAt' \in [Handles -> [at : {"idle", "loaded", "dequeued", "processed", "cancelled",
                                           "cleared", "reload", "reloadHand"}, input : Nat, place : Nat]]
        /\ inboxAt'[h].at = (IF at = "dequeued" THEN "reloadHand" ELSE "reload")
        /\ inboxAt'[h].input = i /\ inboxAt'[h].place = Len(inbox) + 1
        /\ \A g \in Handles : g # h => inboxAt'[g] = inboxAt[g]
    <3> HIDE DEF at, i, e
    <3>1. (IF at = "dequeued" THEN "reloadHand" ELSE "reload") \in
            {"idle", "loaded", "dequeued", "processed", "cancelled", "cleared", "reload", "reloadHand"}
      OBVIOUS
    <3> QED
      BY <1>0, <2>1, <2>2, <3>1, HandleGoes
  <2> HIDE DEF e
  <2>4. /\ inbox' \in Seq(InputEvents) /\ Numbered(inbox')
        /\ AllBefore(Range(handed), Offered(inbox'))
        /\ \A x \in Range(handed) : x.input \in 1 .. Cardinality(Queued(inbox'))
        /\ \A w \in Workers :
             /\ Range(view[w]) \subseteq 1 .. Cardinality(Queued(inbox'))
             /\ view[w] # <<>> => \A j \in Offered(inbox') : Head(view[w]) <= j
             /\ \A j : j \notin Offered(inbox) => j \notin Offered(inbox')
        /\ e.type = "dequeued" => InProcess(inbox', e.input)
        /\ e.type = "dequeued" =>
             e.input \notin Offered(inbox') \/ Len(inbox) + 1 > InboxReadLimit
        /\ e.type \notin {"dequeued", "processed"} =>
             \A j : InProcess(inbox, j) => InProcess(inbox', j)
    BY <2>1, <2>2, LogGrows
  <2>5. ASSUME NEW w \in Workers PROVE WorkerInv(w)'
    <3>1. WorkerInv(w) /\ w \in Handles /\ w \notin Clients
      BY <1>0, <1>00
    <3>2. CASE h = w /\ at = "dequeued"
      <4>1. /\ inboxAt'[w].at = "reloadHand" /\ inboxAt'[w].input = i
            /\ inboxAt'[w].place = Len(inbox) + 1
        BY <2>3, <3>2
      <4>2. i = Head(view[w]) /\ view[w] # <<>>
        BY <3>1, <3>2 DEF WorkerInv
      <4>3. /\ i \notin Offered(inbox') \/ Len(inbox) + 1 > InboxReadLimit
            /\ InProcess(inbox', i)
        BY <2>2, <2>4, <3>2
      <4> QED
        BY <2>1, <2>4, <3>1, <4>1, <4>2, <4>3 DEF WorkerInv
    <3>3. CASE h = w /\ at # "dequeued"
      <4>1. inboxAt'[w].at = "reload"
        BY <2>3, <3>3
      <4> QED
        BY <2>1, <2>4, <3>1, <4>1 DEF WorkerInv
    <3>4. CASE h # w
      <4>1. h \in Clients
        BY <3>4 DEF OneWorker, Handles
      <4>2. e.type \notin {"dequeued", "processed"}
        BY <1>0, <2>2, <4>1
      <4>3. inboxAt'[w] = inboxAt[w]
        BY <2>3, <3>1, <3>4
      <4> QED
        BY <2>1, <2>4, <3>1, <4>2, <4>3 DEF WorkerInv
    <3> QED
      BY <3>2, <3>3, <3>4
  <2>6. \A c \in Clients : inboxAt'[c].at \in {"idle", "loaded", "cancelled", "cleared", "reload"}
    <3> SUFFICES ASSUME NEW c \in Clients
                 PROVE  inboxAt'[c].at \in {"idle", "loaded", "cancelled", "cleared", "reload"}
      OBVIOUS
    <3>1. c \in Handles /\ inboxAt[c].at \in {"idle", "loaded", "cancelled", "cleared", "reload"}
      BY <1>0, <1>00
    <3> QED
      BY <2>3, <3>1
  <2> QED
    BY <1>0, <2>1, <2>3, <2>4, <2>5, <2>6 DEF InboxInv, InboxTypes
<1>3. ASSUME NEW h \in Handles, Reload(h) PROVE InboxInv'
  <2> DEFINE at == inboxAt[h].at
             i  == inboxAt[h].input
             p  == Pending(InboxRead(inbox))
             n  == inboxAt[h].place
             hand == [input |-> i, place |-> n]
  <2>1. /\ \/ at = "idle" /\ Goto(h, IF h \in Clients THEN "loaded" ELSE "idle", i)
           \/ at = "reload" /\ Goto(h, "idle", 0)
           \/ at = "reloadHand" /\ Goto(h, "idle", i)
        /\ handed' = (IF at = "reloadHand" THEN Append(handed, hand) ELSE handed)
        /\ view' = [view EXCEPT ![h] = p] /\ UNCHANGED inbox
    BY <1>3 DEF Reload, Hand
  <2>2. p \in Seq(Nat) /\ Rising(p, {}) /\ Range(p) = Offered(inbox)
    BY <1>0, <1>00, ReadIs, PendingIs DEF Offered
  <2>3. i \in Nat /\ n \in Nat /\ hand \in Handouts /\ hand.input = i /\ hand.place = n
    BY <1>00 DEF Handouts
  <2>4. /\ inboxAt' \in [Handles -> [at : {"idle", "loaded", "dequeued", "processed", "cancelled",
                                           "cleared", "reload", "reloadHand"}, input : Nat, place : Nat]]
        /\ \A g \in Handles : g # h => inboxAt'[g] = inboxAt[g]
        /\ inboxAt'[h].at \in {"idle", "loaded"} /\ (h \notin Clients => inboxAt'[h].at = "idle")
        /\ inboxAt'[h].input = 0 \/ (inboxAt'[h].input = i /\ at \in {"idle", "reloadHand"})
    <3> HIDE DEF at, i, p, n, hand
    <3>1. CASE at = "idle" /\ Goto(h, IF h \in Clients THEN "loaded" ELSE "idle", i)
      <4>1. (IF h \in Clients THEN "loaded" ELSE "idle") \in
              {"idle", "loaded", "dequeued", "processed", "cancelled", "cleared", "reload", "reloadHand"}
        OBVIOUS
      <4>2. /\ inboxAt' \in [Handles -> [at : {"idle", "loaded", "dequeued", "processed", "cancelled",
                                               "cleared", "reload", "reloadHand"}, input : Nat, place : Nat]]
            /\ inboxAt'[h].at = (IF h \in Clients THEN "loaded" ELSE "idle") /\ inboxAt'[h].input = i
            /\ \A g \in Handles : g # h => inboxAt'[g] = inboxAt[g]
        BY <1>0, <2>3, <3>1, <4>1, HandleGoes DEF Goto
      <4> QED
        BY <3>1, <4>2
    <3>2. CASE at \in {"reload", "reloadHand"} /\ ~(at = "idle")
      <4> DEFINE j == IF at = "reload" THEN 0 ELSE i
      <4>1. Goto(h, "idle", j) /\ j \in Nat
        BY <2>1, <2>3, <3>2
      <4>2. "idle" \in {"idle", "loaded", "dequeued", "processed", "cancelled", "cleared", "reload", "reloadHand"}
        OBVIOUS
      <4> HIDE DEF j
      <4>3. /\ inboxAt' \in [Handles -> [at : {"idle", "loaded", "dequeued", "processed", "cancelled",
                                               "cleared", "reload", "reloadHand"}, input : Nat, place : Nat]]
            /\ inboxAt'[h].at = "idle" /\ inboxAt'[h].input = j
            /\ \A g \in Handles : g # h => inboxAt'[g] = inboxAt[g]
        BY <1>0, <4>1, <4>2, HandleGoes DEF Goto
      <4> QED
        BY <3>2, <4>3 DEF j
    <3> QED
      BY <2>1, <3>1, <3>2
  <2>5. /\ view' \in [Handles -> Seq(Nat)] /\ view'[h] = p
        /\ \A g \in Handles : g # h => view'[g] = view[g]
    BY <1>00, <2>1, <2>2
  <2>6. /\ handed' \in Seq(Handouts) /\ HandedInOrder(handed')
        /\ AllBefore(Range(handed'), Offered(inbox))
        /\ \A x \in Range(handed') : x.input \in 1 .. Cardinality(Queued(inbox))
    <3>1. CASE at # "reloadHand"
      BY <1>0, <1>00, <2>1, <3>1
    <3>2. CASE at = "reloadHand"
      <4>1. h \in Workers
        BY <1>0, <3>2 DEF Handles
      <4>2. WorkerInv(h)
        BY <1>0, <4>1
      <4>3. /\ view[h] # <<>> /\ i = Head(view[h])
            /\ i \notin Offered(inbox) \/ n > InboxReadLimit
            /\ \A j \in Offered(inbox) : i <= j
            /\ AllBefore(Range(handed), Range(view[h])) /\ Rising(view[h], {})
            /\ Range(view[h]) \subseteq 1 .. Cardinality(Queued(inbox))
        BY <3>2, <4>2 DEF WorkerInv
      <4>4. i \in Range(view[h])
        BY <1>00, <4>3, RisingTail
      <4> HIDE DEF i, at, p, n, hand
      <4>5. \A y \in Range(handed) : Precedes(y, hand.input)
        BY <2>3, <4>3, <4>4 DEF AllBefore
      <4>6. /\ handed' \in Seq(Handouts) /\ HandedInOrder(handed')
            /\ Range(handed') = Range(handed) \cup {hand}
        BY <1>0, <1>00, <2>1, <2>3, <3>2, <4>5, HandedMore
      <4>7. \A j \in Offered(inbox) : Precedes(hand, j)
        <5>1. \A j \in Offered(inbox) : j \in Nat
          BY <2>2, ElementOfSeq, LenProperties DEF Range
        <5> QED
          BY <2>3, <4>3, <5>1 DEF Precedes
      <4>8. AllBefore(Range(handed'), Offered(inbox))
        BY <1>0, <4>6, <4>7 DEF AllBefore
      <4>9. \A x \in Range(handed') : x.input \in 1 .. Cardinality(Queued(inbox))
        BY <1>0, <2>3, <4>3, <4>4, <4>6
      <4> QED
        BY <4>6, <4>8, <4>9
    <3> QED
      BY <3>1, <3>2
  <2>7. ASSUME NEW w \in Workers PROVE WorkerInv(w)'
    <3>1. WorkerInv(w) /\ w \in Handles /\ w \notin Clients
      BY <1>0, <1>00
    <3>2. CASE h = w
      <4>1. inboxAt'[w].at = "idle" /\ view'[w] = p
        BY <2>4, <2>5, <3>1, <3>2
      <4>2. inboxAt'[w].input # 0 => InProcess(inbox, inboxAt'[w].input)
        BY <2>4, <3>1, <3>2 DEF WorkerInv
      <4> HIDE DEF p, i, at, n, hand
      <4>3. Range(p) \subseteq 1 .. Cardinality(Queued(inbox))
        BY <1>0, <1>00, <2>2, ReadIs
      <4>4. p # <<>> => \A j \in Offered(inbox) : Head(p) <= j
        <5> SUFFICES ASSUME p # <<>>, NEW j \in Offered(inbox) PROVE Head(p) <= j
          OBVIOUS
        <5>1. /\ Head(p) = p[1] /\ DOMAIN p = 1 .. Len(p) /\ Len(p) \in Nat
              /\ \A k \in 1 .. Len(p) : p[k] \in Nat
          BY <2>2, HeadTailProperties, LenProperties, ElementOfSeq
        <5>2. PICK k \in 1 .. Len(p) : p[k] = j
          BY <2>2, <5>1 DEF Range
        <5>3. CASE k = 1
          BY <5>1, <5>2, <5>3
        <5>4. CASE k # 1
          <6>1. 1 \in 1 .. Len(p) /\ 1 < k
            BY <5>1, <5>4
          <6>2. p[1] < p[k]
            BY <2>2, <6>1 DEF Rising
          <6> QED
            BY <5>1, <5>2, <6>1, <6>2
        <5> QED
          BY <5>3, <5>4
      <4>5. AllBefore(Range(handed'), Range(p))
        BY <2>2, <2>6
      <4> QED
        BY <2>1, <2>2, <4>1, <4>2, <4>3, <4>4, <4>5 DEF WorkerInv
    <3>3. CASE h # w
      <4>1. h \in Clients
        BY <3>3 DEF OneWorker, Handles
      <4>2. handed' = handed /\ inboxAt'[w] = inboxAt[w] /\ view'[w] = view[w]
        BY <1>0, <2>1, <2>4, <2>5, <3>1, <3>3, <4>1
      <4> QED
        BY <2>1, <3>1, <4>2 DEF WorkerInv
    <3> QED
      BY <3>2, <3>3
  <2>8. \A c \in Clients : inboxAt'[c].at \in {"idle", "loaded", "cancelled", "cleared", "reload"}
    <3> SUFFICES ASSUME NEW c \in Clients
                 PROVE  inboxAt'[c].at \in {"idle", "loaded", "cancelled", "cleared", "reload"}
      OBVIOUS
    <3>1. c \in Handles /\ inboxAt[c].at \in {"idle", "loaded", "cancelled", "cleared", "reload"}
      BY <1>0, <1>00
    <3> QED
      BY <2>4, <3>1
  <2> QED
    BY <1>0, <1>00, <2>1, <2>4, <2>5, <2>6, <2>7, <2>8 DEF InboxInv, InboxTypes
\* The steps that only move a handle.
<1>4. ASSUME NEW h \in Handles, NEW i \in Nat,
             NEW at \in {"idle", "loaded", "dequeued", "processed", "cancelled", "cleared", "reload", "reloadHand"},
             Goto(h, at, i), UNCHANGED <<inbox, view, handed>>,
             h \in Clients => at \in {"idle", "loaded", "cancelled", "cleared", "reload"},
             h \in Workers => at \in {"idle", "dequeued", "processed"},
             h \in Workers /\ at = "dequeued" => view[h] # <<>> /\ i = Head(view[h]),
             h \in Workers /\ at \in {"idle", "processed"} /\ i # 0 => InProcess(inbox, i)
      PROVE  InboxInv'
  <2>1. /\ inboxAt' \in [Handles -> [at : {"idle", "loaded", "dequeued", "processed", "cancelled",
                                           "cleared", "reload", "reloadHand"}, input : Nat, place : Nat]]
        /\ inboxAt'[h].at = at /\ inboxAt'[h].input = i
        /\ \A g \in Handles : g # h => inboxAt'[g] = inboxAt[g]
    BY <1>0, <1>4, HandleGoes DEF Goto
  <2>2. ASSUME NEW w \in Workers PROVE WorkerInv(w)'
    <3>1. WorkerInv(w) /\ w \in Handles
      BY <1>0, <1>00
    <3>2. CASE h # w
      <4>1. inboxAt'[w] = inboxAt[w]
        BY <2>1, <3>1, <3>2
      <4> QED
        BY <1>4, <3>1, <4>1 DEF WorkerInv
    <3>3. CASE h = w
      BY <1>4, <2>1, <3>1, <3>3 DEF WorkerInv
    <3> QED
      BY <3>2, <3>3
  <2>3. \A c \in Clients : inboxAt'[c].at \in {"idle", "loaded", "cancelled", "cleared", "reload"}
    BY <1>0, <1>00, <1>4, <2>1
  <2> QED
    BY <1>0, <1>4, <2>1, <2>2, <2>3 DEF InboxInv, InboxTypes
<1>5. ASSUME NEW w \in Workers, Dequeue(w) PROVE InboxInv'
  <2>1. /\ view[w] # <<>> /\ Goto(w, "dequeued", Head(view[w])) /\ UNCHANGED <<inbox, view, handed>>
        /\ w \in Handles /\ w \notin Clients
    BY <1>00, <1>5 DEF Dequeue
  <2>2. Head(view[w]) \in Nat
    BY <1>00, <2>1, HeadTailProperties
  <2> QED
    BY <1>4, <2>1, <2>2
<1>6. ASSUME NEW w \in Workers, MarkProcessed(w) PROVE InboxInv'
  <2>1. /\ inboxAt[w].at = "idle" /\ Goto(w, "processed", inboxAt[w].input) /\ inboxAt[w].input # 0
        /\ UNCHANGED <<inbox, view, handed>>
        /\ w \in Handles /\ w \notin Clients /\ inboxAt[w].input \in Nat
    BY <1>00, <1>6 DEF MarkProcessed
  <2>2. InProcess(inbox, inboxAt[w].input)
    BY <1>0, <2>1 DEF WorkerInv
  <2> QED
    BY <1>4, <2>1, <2>2
<1>7. ASSUME NEW c \in Clients, Withdraw(c) PROVE InboxInv'
  <2>1. /\ UNCHANGED <<inbox, view, handed>> /\ c \in Handles /\ c \notin Workers
        /\ \/ \E i \in Nat : Goto(c, "cancelled", i)
           \/ Goto(c, "cleared", 0) \/ Goto(c, "idle", 0)
    BY <1>00, <1>7 DEF Withdraw, Inputs
  <2>2. 0 \in Nat
    OBVIOUS
  <2> QED
    BY <1>4, <2>1, <2>2
<1>8. ASSUME NEW h \in Handles, AppendInputFails(h) PROVE InboxInv'
  <2> DEFINE i == IF inboxAt[h].at = "processed" THEN inboxAt[h].input ELSE 0
  <2>1. /\ Goto(h, "idle", i) /\ UNCHANGED <<inbox, view, handed>>
        /\ i \in Nat
    BY <1>00, <1>8 DEF AppendInputFails
  <2>2. h \in Workers /\ i # 0 => InProcess(inbox, i)
    BY <1>0 DEF WorkerInv
  <2> HIDE DEF i
  <2> QED
    BY <1>4, <2>1, <2>2
<1>9. CASE UNCHANGED inboxVars
  <2>1. UNCHANGED <<inbox, view, inboxAt, handed>>
    BY <1>9 DEF inboxVars
  <2>2. \A w \in Workers : WorkerInv(w)'
    BY <1>0, <2>1 DEF WorkerInv
  <2> QED
    BY <1>0, <2>1, <2>2 DEF InboxInv, InboxTypes
<1> QED
  BY <1>1, <1>2, <1>3, <1>5, <1>6, <1>7, <1>8, <1>9, <1>10 DEF InputNext

LEMMA InboxHolds == InboxInv => InboxInStep
<1> SUFFICES ASSUME InboxInv PROVE InboxInStep
  OBVIOUS
<1>1. \A j, k \in DOMAIN handed :
        j < k => \/ handed[j].input < handed[k].input
                 \/ handed[j].input = handed[k].input /\ handed[j].place > InboxReadLimit
  BY LenProperties DEF InboxInv, InboxTypes, HandedInOrder, Precedes
<1>2. ASSUME NEW w \in Workers, inboxAt[w].at = "idle", inboxAt[w].input # 0
      PROVE  Processing(inbox) = inboxAt[w].input
  <2> DEFINE slots == {k \in DOMAIN inbox : inbox[k].type \in {"dequeued", "processed"}}
  <2>1. InProcess(inbox, inboxAt[w].input)
    BY <1>2 DEF InboxInv, WorkerInv
  <2>2. PICK k \in DOMAIN inbox :
          /\ inbox[k].type = "dequeued" /\ inbox[k].input = inboxAt[w].input
          /\ \A l \in DOMAIN inbox : l > k => inbox[l].type \notin {"dequeued", "processed"}
    BY <2>1 DEF InProcess
  <2>3. DOMAIN inbox \in SUBSET Int
    BY LenProperties DEF InboxInv, InboxTypes
  <2>4. k \in slots /\ slots \in SUBSET Int /\ \A l \in slots : k >= l
    BY <2>2, <2>3
  <2> HIDE DEF slots
  <2>5. Max(slots) \in slots /\ \A l \in slots : Max(slots) >= l
    <3>1. \E x \in slots : \A l \in slots : x >= l
      BY <2>4
    <3> QED
      BY <3>1 DEF Max
  <2>6. Max(slots) = k
    <3>1. Max(slots) >= k /\ k >= Max(slots) /\ k \in Int /\ Max(slots) \in Int
      BY <2>4, <2>5
    <3> QED
      BY <3>1
  <2> QED
    BY <2>2, <2>4, <2>6 DEF Processing, slots
<1> QED
  BY <1>1, <1>2 DEF InboxInStep

\* The inbox and the run loop share nothing.
LEMMA QueuesAreApart ==
  [InputNext \/ RunnerNext]_inputVars => [InputNext]_inboxVars /\ [RunnerNext]_runnerVars
<1>1. InputNext => UNCHANGED runnerVars
  BY DEF InputNext, Enqueue, OtherEvent, Reload, Dequeue, MarkProcessed, Withdraw, AppendInput, AppendInputFails
<1>2. RunnerNext => UNCHANGED inboxVars
  BY DEF RunnerNext, AdmitInput, StartRunner, PromoteSteers, ProcessSteer, PromoteQueued, NextTurn,
         StopRunner, CancelRunner
<1> QED
  BY <1>1, <1>2 DEF inputVars

(***************************************************************************)
(* Steers and queued inputs are handled once each and in their order, and  *)
(* one queued input at most overtakes a steer, for any number of inputs.   *)
(***************************************************************************)
THEOREM SteersGoFirst == InputSpec => []SteersFirst
<1>1. RunInv /\ [InputNext \/ RunnerNext]_inputVars => RunInv'
  BY RunStep, QueuesAreApart
<1> QED
  BY <1>1, RunStart, RunHolds, PTL DEF InputSpec

(***************************************************************************)
(* One worker gets the inputs in the order they were queued, one a second  *)
(* time only when the event that took it out is beyond what a reload       *)
(* reads, and the log shows the one it works on, for any limit, any number *)
(* of inputs and of requests that cancel and clear, whichever calls fail.  *)
(***************************************************************************)
THEOREM InboxKeepsStep == ASSUME OneWorker PROVE InputSpec => []InboxInStep
<1>1. InboxInv /\ [InputNext \/ RunnerNext]_inputVars => InboxInv'
  BY InboxStep, QueuesAreApart
<1> QED
  BY <1>1, InboxStart, InboxHolds, PTL DEF InputSpec

-----------------------------------------------------------------------------
\* A call that is about to set the globals knows what is in them, and is the
\* only one, as long as such calls have not met.
ChangerKnows ==
  ~crossing =>
    /\ \A k, l \in Changing : k = l
    /\ \A k \in Tasks : visit[k].at = "launching" => browser = NotSet
    /\ \A k \in Tasks : visit[k].at \in {"paging", "closing"} => visit[k].on = browser

BrowserInv == BrowserTypeOK /\ ChangerKnows /\ OneBrowser

\* The parts of the type invariant, for n browsers launched.
BrowserStages == {"rest", "launching", "paging", "going", "titling", "using", "closing"}
VisitsOK(v, n) == v \in [Tasks -> [at : BrowserStages, on : 0..n]]
ReturnsOK == returned \in [Tasks -> {"none", "success", "error", "stopped"}]
GlobalsOK == launched \in 0..MaxLaunches /\ browser \in 0..launched /\ shown \in 0..launched
AliveOK == \A b \in alive : b \in 1..launched

LEMMA TypeParts ==
  BrowserTypeOK <=> /\ GlobalsOK /\ AliveOK /\ VisitsOK(visit, launched) /\ ReturnsOK
                    /\ crossing \in BOOLEAN
  BY DEF BrowserTypeOK, GlobalsOK, AliveOK, VisitsOK, ReturnsOK, BrowserStages

LEMMA TypePartsNext ==
  BrowserTypeOK' <=> /\ GlobalsOK' /\ AliveOK' /\ VisitsOK(visit', launched') /\ ReturnsOK'
                     /\ crossing' \in BOOLEAN
  BY DEF BrowserTypeOK, GlobalsOK, AliveOK, VisitsOK, ReturnsOK, BrowserStages

LEMMA BrowserInvInitially == BrowserInit => BrowserInv
<1> SUFFICES ASSUME BrowserInit PROVE BrowserInv
  OBVIOUS
<1> USE DEF BrowserInit, Resting, NotSet
<1>1. GlobalsOK /\ AliveOK
  BY BrowserAssumption DEF GlobalsOK, AliveOK
<1>2. VisitsOK(visit, launched)
  <2>1. 0 \in 0..launched
    OBVIOUS
  <2> QED
    BY <2>1 DEF VisitsOK, BrowserStages
<1>3. ReturnsOK /\ crossing \in BOOLEAN
  BY DEF ReturnsOK
<1>4. \A k \in Tasks : visit[k].at = "rest"
  OBVIOUS
<1>5. ChangerKnows /\ OneBrowser
  BY <1>4 DEF ChangerKnows, OneBrowser, Changing
<1> QED
  BY <1>1, <1>2, <1>3, <1>5, TypeParts DEF BrowserInv

LEMMA ReturnsKept ==
  ASSUME ReturnsOK, NEW k \in Tasks, NEW what \in {"success", "error", "stopped"},
         returned' = [returned EXCEPT ![k] = what]
  PROVE  ReturnsOK'
  BY DEF ReturnsOK

Others(k) == \A l \in Tasks \ {k} : visit'[l] = visit[l]

\* The two ways in which a call goes on.
LEMMA GoesTo ==
  ASSUME BrowserTypeOK, GlobalsOK', launched <= launched',
         NEW k \in Tasks, NEW stage \in BrowserStages, NEW b \in 0..launched', At(k, stage, b)
  PROVE  /\ VisitsOK(visit', launched') /\ Others(k)
         /\ visit'[k].at = stage /\ visit'[k].on = b
<1>1. launched \in Nat /\ launched' \in Nat
  BY BrowserAssumption, TypeParts DEF GlobalsOK
<1>2. [at |-> stage, on |-> b] \in [at : BrowserStages, on : 0..launched']
  OBVIOUS
<1>3. \A l \in Tasks : visit[l] \in [at : BrowserStages, on : 0..launched']
  <2> TAKE l \in Tasks
  <2>1. visit[l] \in [at : BrowserStages, on : 0..launched]
    BY TypeParts DEF VisitsOK
  <2> QED
    BY <1>1, <2>1
<1>4. visit \in [Tasks -> [at : BrowserStages, on : 0..launched]]
  BY TypeParts DEF VisitsOK
<1> QED
  BY <1>2, <1>3, <1>4 DEF VisitsOK, At, Others

LEMMA GoesHome ==
  ASSUME BrowserTypeOK, GlobalsOK', launched' = launched,
         NEW k \in Tasks, NEW what \in {"success", "error", "stopped"}, Returns(k, what)
  PROVE  /\ VisitsOK(visit', launched') /\ Others(k) /\ ReturnsOK'
         /\ visit'[k].at = "rest"
<1>1. At(k, "rest", 0) /\ "rest" \in BrowserStages /\ 0 \in 0..launched'
  <2>1. 0 \in 0..launched'
    BY BrowserAssumption DEF GlobalsOK
  <2> QED
    BY <2>1 DEF Returns, Resting, At, NotSet, BrowserStages
<1>2. launched <= launched'
  BY BrowserAssumption, TypeParts DEF GlobalsOK
<1>3. ReturnsOK'
  BY TypeParts, ReturnsKept DEF Returns
<1> QED
  BY <1>1, <1>2, <1>3, GoesTo

\* What Use, Status, Gone, PageAnswers and CallFails have in common: the call
\* goes on, or home, without a global having been set.
Calm(k) ==
  /\ UNCHANGED <<browser, shown, launched, alive>>
  /\ Others(k) /\ VisitsOK(visit', launched') /\ ReturnsOK'
  /\ visit'[k].at \in {"rest", "going", "titling", "using"}

LEMMA CalmCall ==
  ASSUME BrowserTypeOK, NEW k \in Tasks, UNCHANGED <<browser, shown, launched, alive>>,
         \/ \E what \in {"success", "error", "stopped"} : Returns(k, what)
         \/ (\E stage \in {"going", "titling", "using"} : At(k, stage, shown)) /\ UNCHANGED returned
  PROVE  Calm(k)
<1>1. GlobalsOK' /\ launched <= launched' /\ shown \in 0..launched'
  BY BrowserAssumption, TypeParts DEF GlobalsOK
<1>2. CASE \E what \in {"success", "error", "stopped"} : Returns(k, what)
  BY <1>1, <1>2, GoesHome DEF Calm
<1>3. ASSUME NEW stage \in {"going", "titling", "using"}, At(k, stage, shown), UNCHANGED returned
      PROVE  Calm(k)
  <2>1. stage \in BrowserStages
    BY DEF BrowserStages
  <2>2. ReturnsOK'
    BY <1>3, TypeParts DEF ReturnsOK
  <2> QED
    BY <1>1, <1>3, <2>1, <2>2, GoesTo DEF Calm
<1> QED
  BY <1>2, <1>3

LEMMA CalmKeeps ==
  ASSUME BrowserInv, NEW k \in Tasks, Calm(k), crossing' \in BOOLEAN, crossing => crossing'
  PROVE  BrowserInv'
<1>1. BrowserTypeOK'
  <2>1. GlobalsOK' /\ AliveOK'
    BY TypeParts DEF BrowserInv, Calm, GlobalsOK, AliveOK
  <2> QED
    BY <2>1, TypePartsNext DEF Calm
<1>2. ASSUME ~crossing' PROVE OneBrowser
  BY <1>2 DEF BrowserInv
<1>3. OneBrowser'
  BY <1>2 DEF BrowserInv, OneBrowser, Calm
<1>4. Changing' \subseteq Changing /\ \A l \in Changing' : visit'[l] = visit[l]
  BY DEF Calm, Others, Changing
<1>5. ChangerKnows'
  <2> SUFFICES ASSUME ~crossing' PROVE ChangerKnows'
    BY DEF ChangerKnows
  <2>1. ~crossing
    OBVIOUS
  <2>2. \A l, j \in Changing' : l = j
    BY <2>1, <1>4 DEF BrowserInv, ChangerKnows
  <2>3. ASSUME NEW l \in Tasks, visit'[l].at \in {"launching", "paging", "closing"}
        PROVE  visit'[l] = visit[l]
    BY <1>4, <2>3 DEF Changing
  <2>4. \A l \in Tasks : visit'[l].at = "launching" => browser' = NotSet
    BY <2>1, <2>3 DEF BrowserInv, ChangerKnows, Calm
  <2>5. \A l \in Tasks : visit'[l].at \in {"paging", "closing"} => visit'[l].on = browser'
    BY <2>1, <2>3 DEF BrowserInv, ChangerKnows, Calm
  <2> QED
    BY <2>2, <2>4, <2>5 DEF ChangerKnows
<1> QED
  BY <1>1, <1>3, <1>5 DEF BrowserInv

\* Every kind of step.
LEMMA OpenKeeps ==
  ASSUME BrowserInv, NEW k \in Tasks, Open(k)
  PROVE  BrowserInv'
<1>1. crossing' \in BOOLEAN /\ (crossing => crossing') /\ (~crossing' => Changing = {})
  BY TypeParts DEF BrowserInv, Open, Meets
<1>2. CASE Calm(k)
  BY <1>1, <1>2, CalmKeeps
<1>3. CASE browser = NotSet /\ At(k, "launching", NotSet) /\ UNCHANGED returned
  <2>1. GlobalsOK' /\ AliveOK' /\ ReturnsOK' /\ launched <= launched' /\ NotSet \in 0..launched'
    BY <1>3, BrowserAssumption, TypeParts
    DEF BrowserInv, Open, GlobalsOK, AliveOK, ReturnsOK, NotSet
  <2>2. VisitsOK(visit', launched') /\ Others(k) /\ visit'[k].at = "launching"
    BY <1>3, <2>1, GoesTo DEF BrowserInv, BrowserStages
  <2>3. BrowserTypeOK'
    BY <1>1, <2>1, <2>2, TypePartsNext
  <2>4. ~crossing' => Changing' = {k} /\ \A l \in Tasks \ {k} : l \notin Changing
    BY <1>1, <2>2 DEF Changing, Others
  <2>5. ChangerKnows'
    BY <1>3, <2>2, <2>4 DEF ChangerKnows, Open, Changing
  <2>6. OneBrowser'
    BY <1>1 DEF BrowserInv, OneBrowser, Open
  <2> QED
    BY <2>3, <2>5, <2>6 DEF BrowserInv
<1>4. Calm(k) \/ (browser = NotSet /\ At(k, "launching", NotSet) /\ UNCHANGED returned)
  BY CalmCall DEF Open, BrowserInv
<1> QED
  BY <1>2, <1>3, <1>4

LEMMA CalmSteps ==
  ASSUME BrowserInv, NEW k \in Tasks, Gone(k) \/ Use(k) \/ Status(k) \/ PageAnswers(k) \/ CallFails(k)
  PROVE  BrowserInv'
<1>1. crossing' \in BOOLEAN /\ (crossing => crossing')
  BY TypeParts DEF BrowserInv, Gone, Use, Status, PageAnswers, CallFails
<1>2. Calm(k)
  BY CalmCall DEF BrowserInv, Gone, Use, Status, PageAnswers, CallFails
<1> QED
  BY <1>1, <1>2, CalmKeeps

LEMMA LaunchedKeeps ==
  ASSUME BrowserInv, NEW k \in Tasks, Launched(k)
  PROVE  BrowserInv'
<1>1. launched' = launched + 1 /\ browser' = launched' /\ At(k, "paging", launched')
  BY DEF Launched
<1>2. GlobalsOK' /\ launched <= launched' /\ launched' \in 0..launched'
  BY <1>1, BrowserAssumption, TypeParts DEF BrowserInv, Launched, GlobalsOK
<1>3. AliveOK'
  BY <1>1, BrowserAssumption, TypeParts DEF BrowserInv, Launched, GlobalsOK, AliveOK
<1>4. VisitsOK(visit', launched') /\ Others(k) /\ visit'[k].at = "paging" /\ visit'[k].on = launched'
  BY <1>1, <1>2, GoesTo DEF BrowserInv, BrowserStages
<1>5. ReturnsOK' /\ crossing' \in BOOLEAN /\ crossing' = crossing
  BY TypeParts DEF BrowserInv, Launched, ReturnsOK
<1>6. BrowserTypeOK'
  BY <1>2, <1>3, <1>4, <1>5, TypePartsNext
<1>7. ASSUME ~crossing PROVE Changing = {k} /\ browser = NotSet
  BY <1>7 DEF BrowserInv, ChangerKnows, Launched, Changing
<1>8. ASSUME ~crossing PROVE Changing' = {k}
  BY <1>4, <1>7, <1>8 DEF Changing, Others
<1>9. ChangerKnows'
  BY <1>1, <1>4, <1>5, <1>8 DEF ChangerKnows, Changing
<1>10. OneBrowser'
  <2> SUFFICES ASSUME ~crossing PROVE alive' \subseteq {browser'} /\ shown' \in {NotSet, browser'}
    BY <1>5 DEF OneBrowser
  <2>1. \A b \in alive : b = 0 /\ b \in 1..launched
    BY <1>7, TypeParts DEF BrowserInv, OneBrowser, NotSet, AliveOK
  <2>2. alive = {}
    BY <2>1
  <2>3. shown = NotSet
    BY <1>7 DEF BrowserInv, OneBrowser
  <2> QED
    BY <1>1, <2>2, <2>3 DEF Launched
<1> QED
  BY <1>6, <1>9, <1>10 DEF BrowserInv

LEMMA NewPageKeeps ==
  ASSUME BrowserInv, NEW k \in Tasks, NewPage(k)
  PROVE  BrowserInv'
<1>1. /\ At(k, "going", shown') /\ shown' = visit[k].on /\ launched' = launched
      /\ UNCHANGED <<browser, alive, returned, crossing>>
  BY DEF NewPage
<1>2. visit[k].on \in 0..launched
  BY TypeParts DEF BrowserInv, VisitsOK
<1>3. GlobalsOK' /\ AliveOK' /\ launched <= launched' /\ shown' \in 0..launched'
  BY <1>1, <1>2, BrowserAssumption, TypeParts DEF BrowserInv, GlobalsOK, AliveOK
<1>4. VisitsOK(visit', launched') /\ Others(k) /\ visit'[k].at = "going"
  BY <1>1, <1>3, GoesTo DEF BrowserInv, BrowserStages
<1>5. ReturnsOK' /\ crossing' \in BOOLEAN /\ crossing' = crossing
  BY <1>1, TypeParts DEF BrowserInv, ReturnsOK
<1>6. BrowserTypeOK'
  BY <1>3, <1>4, <1>5, TypePartsNext
<1>7. ASSUME ~crossing PROVE Changing = {k} /\ visit[k].on = browser
  BY <1>7 DEF BrowserInv, ChangerKnows, NewPage, Changing
<1>8. ASSUME ~crossing PROVE Changing' = {}
  BY <1>4, <1>7, <1>8 DEF Changing, Others
<1>9. ChangerKnows'
  BY <1>5, <1>8 DEF ChangerKnows, Changing
<1>10. OneBrowser'
  BY <1>1, <1>7 DEF BrowserInv, OneBrowser
<1> QED
  BY <1>6, <1>9, <1>10 DEF BrowserInv

LEMMA CloseKeeps ==
  ASSUME BrowserInv, NEW k \in Tasks, Close(k)
  PROVE  BrowserInv'
<1>1. crossing' \in BOOLEAN /\ (crossing => crossing') /\ (~crossing' => Changing = {})
  BY TypeParts DEF BrowserInv, Close, Meets
<1>2. UNCHANGED <<browser, shown, launched, alive>>
  BY DEF Close
<1>3. CASE browser = NotSet
  <2>1. Calm(k)
    BY <1>2, <1>3, CalmCall DEF BrowserInv, Close
  <2> QED
    BY <1>1, <2>1, CalmKeeps
<1>4. CASE browser # NotSet
  <2>1. At(k, "closing", browser) /\ UNCHANGED returned
    BY <1>4 DEF Close
  <2>2. GlobalsOK' /\ AliveOK' /\ ReturnsOK' /\ launched <= launched' /\ browser \in 0..launched'
    BY <1>2, <2>1, BrowserAssumption, TypeParts DEF BrowserInv, GlobalsOK, AliveOK, ReturnsOK
  <2>3. /\ VisitsOK(visit', launched') /\ Others(k)
        /\ visit'[k].at = "closing" /\ visit'[k].on = browser
    BY <2>1, <2>2, GoesTo DEF BrowserInv, BrowserStages
  <2>4. BrowserTypeOK'
    BY <1>1, <2>2, <2>3, TypePartsNext
  <2>5. ~crossing' => Changing' = {k}
    BY <1>1, <2>3 DEF Changing, Others
  <2>6. ChangerKnows'
    BY <1>2, <2>3, <2>5 DEF ChangerKnows, Changing
  <2>7. OneBrowser'
    BY <1>1, <1>2 DEF BrowserInv, OneBrowser
  <2> QED
    BY <2>4, <2>6, <2>7 DEF BrowserInv
<1> QED
  BY <1>3, <1>4

LEMMA ClosedKeeps ==
  ASSUME BrowserInv, NEW k \in Tasks, Closed(k)
  PROVE  BrowserInv'
<1>1. /\ alive' = alive \ {visit[k].on} /\ browser' = NotSet /\ shown' = NotSet
      /\ Returns(k, "success") /\ launched' = launched /\ crossing' = crossing
  BY DEF Closed
<1>2. GlobalsOK' /\ AliveOK'
  BY <1>1, BrowserAssumption, TypeParts DEF BrowserInv, GlobalsOK, AliveOK, NotSet
<1>3. VisitsOK(visit', launched') /\ Others(k) /\ ReturnsOK' /\ visit'[k].at = "rest"
  BY <1>1, <1>2, GoesHome DEF BrowserInv
<1>4. crossing' \in BOOLEAN
  BY <1>1, TypeParts DEF BrowserInv
<1>5. BrowserTypeOK'
  BY <1>2, <1>3, <1>4, TypePartsNext
<1>6. ASSUME ~crossing PROVE Changing = {k} /\ visit[k].on = browser
  BY <1>6 DEF BrowserInv, ChangerKnows, Closed, Changing
<1>7. ASSUME ~crossing PROVE Changing' = {}
  BY <1>3, <1>6, <1>7 DEF Changing, Others
<1>8. ChangerKnows'
  BY <1>1, <1>7 DEF ChangerKnows, Changing
<1>9. OneBrowser'
  BY <1>1, <1>6 DEF BrowserInv, OneBrowser
<1> QED
  BY <1>5, <1>8, <1>9 DEF BrowserInv

LEMMA CancelKeeps ==
  ASSUME BrowserInv, NEW k \in Tasks, CancelTask(k)
  PROVE  BrowserInv'
<1>1. At(k, "rest", 0) /\ crossing' = TRUE /\ UNCHANGED <<browser, shown, returned>>
  BY DEF CancelTask, At, Resting, NotSet
<1>2. \/ launched < MaxLaunches /\ launched' = launched + 1 /\ alive' = alive \cup {launched'}
      \/ launched' = launched /\ \E b : alive' = alive \ {b}
      \/ launched' = launched /\ alive' = alive
  BY DEF CancelTask
<1>3. GlobalsOK' /\ launched <= launched' /\ 0 \in 0..launched'
  BY <1>1, <1>2, BrowserAssumption, TypeParts DEF BrowserInv, GlobalsOK
<1>4. AliveOK'
  BY <1>2, BrowserAssumption, TypeParts DEF BrowserInv, GlobalsOK, AliveOK
<1>5. VisitsOK(visit', launched')
  BY <1>1, <1>3, GoesTo DEF BrowserInv, BrowserStages
<1>6. ReturnsOK'
  BY <1>1, TypeParts DEF BrowserInv, ReturnsOK
<1> QED
  BY <1>1, <1>3, <1>4, <1>5, <1>6, TypePartsNext DEF BrowserInv, ChangerKnows, OneBrowser

LEMMA DiesKeeps ==
  ASSUME BrowserInv, BrowserDies
  PROVE  BrowserInv'
<1>1. alive' \subseteq alive /\ UNCHANGED <<browser, shown, launched, visit, returned, crossing>>
  BY DEF BrowserDies
<1>2. GlobalsOK' /\ AliveOK' /\ VisitsOK(visit', launched') /\ ReturnsOK' /\ crossing' \in BOOLEAN
  BY <1>1, TypeParts DEF BrowserInv, GlobalsOK, AliveOK, ReturnsOK
<1>3. ChangerKnows'
  BY <1>1 DEF BrowserInv, ChangerKnows, Changing
<1>4. OneBrowser'
  BY <1>1 DEF BrowserInv, OneBrowser
<1> QED
  BY <1>2, <1>3, <1>4, TypePartsNext DEF BrowserInv

LEMMA BrowserInvKept == BrowserInv /\ [BrowserNext]_browserVars => BrowserInv'
<1> SUFFICES ASSUME BrowserInv, [BrowserNext]_browserVars PROVE BrowserInv'
  OBVIOUS
<1>1. CASE UNCHANGED browserVars
  BY <1>1 DEF browserVars, BrowserInv, BrowserTypeOK, ChangerKnows, OneBrowser, Changing
<1>2. CASE BrowserDies
  BY <1>2, DiesKeeps
<1>3. ASSUME NEW k \in Tasks,
             \/ Open(k) \/ Launched(k) \/ NewPage(k) \/ Gone(k) \/ Use(k) \/ Status(k)
             \/ PageAnswers(k) \/ CallFails(k) \/ Close(k) \/ Closed(k) \/ CancelTask(k)
      PROVE  BrowserInv'
  BY <1>3, OpenKeeps, CalmSteps, LaunchedKeeps, NewPageKeeps, CloseKeeps, ClosedKeeps, CancelKeeps
<1> QED
  BY <1>1, <1>2, <1>3 DEF BrowserNext
-----------------------------------------------------------------------------
(***************************************************************************)
(* As long as calls that open or close do not meet and none is cancelled,  *)
(* the only browser that runs is the one in the global, whatever fails,    *)
(* dies or is used in between, for any number of agents and launches.      *)
(***************************************************************************)
THEOREM OneBrowserRuns == BrowserSpec => [](BrowserTypeOK /\ OneBrowser)
<1>1. BrowserSpec => []BrowserInv
  BY BrowserInvInitially, BrowserInvKept, PTL DEF BrowserSpec
<1>2. BrowserInv => BrowserTypeOK /\ OneBrowser
  BY DEF BrowserInv
<1> QED
  BY <1>1, <1>2, PTL
-----------------------------------------------------------------------------
(***************************************************************************)
(* RpcClient: who waits is heard.                                          *)
(***************************************************************************)
RpcInv ==
  /\ WaitersAreHeard
  /\ DOMAIN rpcCall = Ids /\ hurt \in BOOLEAN
  /\ owner = "idle" => process = "none" /\ \A i \in Ids : rpcCall[i] = "new"
  /\ owner = "terminating" => hurt
  /\ process = "up" => hurt \/ readLoop = "running"
  /\ process # "up" => inServer = {}
  /\ hurt \/ readLoop = "running" \/ (inServer = {} /\ inPipe = {})

LEMMA RpcStart == RpcInit => RpcInv
BY DEF RpcInit, RpcInv, WaitersAreHeard

LEMMA RpcStep == RpcInv /\ [ClientNext]_clientVars => RpcInv'
<1> SUFFICES ASSUME RpcInv, [ClientNext]_clientVars PROVE RpcInv'
  OBVIOUS
<1> USE DEF RpcInv, WaitersAreHeard, Ids
<1>1. ASSUME NEW i \in Ids, Request(i) PROVE RpcInv'
  BY <1>1 DEF Request, Sent
<1>2. ASSUME NEW i \in Ids, ServerAnswers(i) PROVE RpcInv'
  BY <1>2 DEF ServerAnswers
<1>3. ASSUME NEW i \in Ids, Receive(i) PROVE RpcInv'
  BY <1>3 DEF Receive
<1>4. ASSUME NEW i \in Ids, CancelCall(i) PROVE RpcInv'
  BY <1>4 DEF CancelCall
<1>5. CASE ServerExits
  <2>1. /\ readLoop' = readLoop /\ owner' = owner /\ rpcCall' = rpcCall /\ pendingIds' = pendingIds
        /\ inPipe' = inPipe /\ hurt' = hurt
    BY <1>5 DEF ServerExits
  <2>2. process = "up" /\ process' = "exited" /\ inServer' = {} /\ lost' = lost \cup inServer
    BY <1>5 DEF ServerExits
  <2>3. inServer \cup inPipe \cup lost = inServer' \cup inPipe' \cup lost' /\ lost \subseteq lost'
    BY <2>1, <2>2
  <2>4. WaitersAreHeard'
    <3>1. ASSUME NEW i \in Ids, rpcCall'[i] = "waiting"
          PROVE  /\ i \in pendingIds'
                 /\ i \in inServer' \cup inPipe' \cup lost'
                 /\ hurt' \/ readLoop' = "running" \/ i \in lost'
      <4>1. rpcCall[i] = "waiting"
        BY <2>1, <3>1
      <4>2. /\ i \in pendingIds
            /\ i \in inServer \cup inPipe \cup lost
            /\ hurt \/ readLoop = "running" \/ i \in lost
        BY <4>1
      <4>3. i \in pendingIds' /\ i \in inServer' \cup inPipe' \cup lost'
        <5>1. i \in pendingIds'
          BY <2>1, <4>2
        <5>2. i \in inServer' \cup inPipe' \cup lost'
          BY <2>3, <4>2
        <5> QED
          BY <5>1, <5>2
      <4>4. CASE hurt
        <5>1. hurt'
          BY <2>1, <4>4
        <5> QED
          BY <4>3, <5>1, Zenon
      <4>5. CASE readLoop = "running" \/ i \in lost
        <5>1. readLoop' = "running" \/ i \in lost'
          BY <2>1, <2>3, <4>5
        <5> QED
          BY <4>3, <5>1, Zenon
      <4> QED
        BY <4>2, <4>4, <4>5, Zenon
    <3> QED
      BY <3>1, Zenon
  <2>5. /\ DOMAIN rpcCall = Ids /\ hurt \in BOOLEAN /\ owner # "idle"
        /\ owner = "terminating" => hurt
        /\ hurt \/ readLoop = "running"
    BY <2>2
  <2>6. hurt' \/ readLoop' = "running"
    BY <2>1, <2>5, Zenon
  <2> QED
    BY <2>1, <2>2, <2>4, <2>5, <2>6
<1>6. CASE LoopEnds
  BY <1>6 DEF LoopEnds
<1>7. CASE Launch
  BY <1>7 DEF Launch
<1>8. CASE HandshakeEnds
  BY <1>8 DEF HandshakeEnds
<1>9. CASE CloseBegins
  BY <1>9 DEF CloseBegins, StopReading
<1>10. CASE ShutdownSent
  BY <1>10 DEF ShutdownSent, StopReading
<1>11. CASE Terminated
  BY <1>11 DEF Terminated
<1>12. CASE UNCHANGED clientVars
  BY <1>12 DEF clientVars
<1> QED
  BY <1>1, <1>2, <1>3, <1>4, <1>5, <1>6, <1>7, <1>8, <1>9, <1>10, <1>11, <1>12 DEF ClientNext

(***************************************************************************)
(* While the read loop of a client runs, no call waits in vain, for any    *)
(* number of requests; starting and closing clients does not touch that.   *)
(***************************************************************************)
THEOREM WaitersHold == RpcSpec => []WaitersAreHeard
<1>1. RpcInit => RpcInv
  BY RpcStart
<1>2. RpcInv /\ [ClientNext \/ ManagerNext]_rpcVars => RpcInv'
  <2>1. CASE ManagerNext
    <3>1. UNCHANGED clientVars
      BY <2>1 DEF ManagerNext, CloseAll, GetClient, ClientStarts
    <3> QED
      BY <3>1, RpcStep
  <2>2. CASE ClientNext \/ UNCHANGED rpcVars
    BY <2>2, RpcStep DEF rpcVars
  <2> QED
    BY <2>1, <2>2
<1>3. RpcInv => WaitersAreHeard
  BY DEF RpcInv
<1> QED
  BY <1>1, <1>2, <1>3, PTL DEF RpcSpec
-----------------------------------------------------------------------------
(***************************************************************************)
(* OAuthTokens: a token is refreshed once, and one client asks at a time.  *)
(***************************************************************************)
AsksServer  == {"refreshing", "authorizing"}
UsesLock    == {"waiting", "refreshing", "authorizing", "clearing"}
ClientState == [at : UsesLock \cup {"out", "ready", "sent"}, token : Nat,
                retried : BOOLEAN, from : Nat]

\* The store has one of the tokens or none, and the one that is stored has not
\* been refreshed.
TokensInv ==
  /\ refreshed \in Seq(Nat) /\ storedToken \in 0 .. Issued
  /\ refreshable \subseteq Tokens /\ expired \subseteq Tokens
  /\ RefreshedOnce

\* Who stands in the line of the lock, and who is first when it asks.
OAuthLockInv ==
  /\ OneByOne(OAuthClients, lockQueue)
  /\ \A c \in OAuthClients : InLine(lockQueue, c) <=> oauth[c].at \in UsesLock
  /\ \A c \in OAuthClients : oauth[c].at \in AsksServer => First(lockQueue, c)

\* Who asks has found what is still stored.
AskerInv(c) ==
  oauth[c].at \in AsksServer =>
    /\ storedToken = oauth[c].from /\ (storedToken = 0 \/ storedToken \in expired)
    /\ oauth[c].at = "refreshing" => storedToken # 0

OAuthInv ==
  /\ oauth \in [OAuthClients -> ClientState]
  /\ TokensInv /\ OAuthLockInv /\ \A c \in OAuthClients : AskerInv(c)

\* One client goes to another stage, and the others stay where they are.
ClientMoves(c, stage, from) ==
  /\ oauth' \in [OAuthClients -> ClientState]
  /\ oauth'[c].at = stage /\ oauth'[c].from = from
  /\ \A d \in OAuthClients \ {c} : oauth'[d] = oauth[d]

LEMMA OAuthStart == OAuthInit => OAuthInv
<1> SUFFICES ASSUME OAuthInit PROVE OAuthInv
  OBVIOUS
<1>1. Outside \in ClientState /\ Outside.at = "out"
  BY DEF Outside, ClientState, UsesLock
<1>2. <<>> \in Seq(Nat) /\ <<>> \in Seq(OAuthClients) /\ Len(<<>>) = 0
  BY EmptySeq
<1>3. TokensInv
  BY <1>2 DEF OAuthInit, TokensInv, RefreshedOnce, Tokens, Issued
<1>4. OAuthLockInv
  BY <1>1, <1>2 DEF OAuthInit, OAuthLockInv, OneByOne, InLine, UsesLock, AsksServer
<1> QED
  BY <1>1, <1>3, <1>4 DEF OAuthInit, OAuthInv, AskerInv, AsksServer

\* The line of the lock follows what the clients do: one joins it, leaves it,
\* or changes its stage in it.
LEMMA LockFollows ==
  ASSUME OAuthInv, NEW c \in OAuthClients, NEW stage, NEW from, ClientMoves(c, stage, from),
         \/ /\ UNCHANGED lockQueue /\ (stage \in UsesLock <=> oauth[c].at \in UsesLock)
            /\ stage \in AsksServer => First(lockQueue, c)
         \/ Waits(c) /\ stage \in UsesLock \ AsksServer /\ oauth[c].at \notin UsesLock
         \/ Releases(c) /\ stage \notin UsesLock
  PROVE  OAuthLockInv'
<1>0. /\ OneByOne(OAuthClients, lockQueue)
      /\ \A d \in OAuthClients : InLine(lockQueue, d) <=> oauth[d].at \in UsesLock
      /\ \A d \in OAuthClients : oauth[d].at \in AsksServer => First(lockQueue, d)
      /\ oauth'[c].at = stage
      /\ \A d \in OAuthClients \ {c} : oauth'[d] = oauth[d]
      /\ AsksServer \subseteq UsesLock
  BY DEF OAuthInv, OAuthLockInv, ClientMoves, AsksServer, UsesLock
<1>1. CASE /\ UNCHANGED lockQueue /\ (stage \in UsesLock <=> oauth[c].at \in UsesLock)
           /\ stage \in AsksServer => First(lockQueue, c)
  BY <1>0, <1>1 DEF OAuthLockInv
<1>2. CASE Waits(c) /\ stage \in UsesLock \ AsksServer /\ oauth[c].at \notin UsesLock
  <2>1. ~InLine(lockQueue, c)
    BY <1>0, <1>2
  <2>2. /\ OneByOne(OAuthClients, lockQueue')
        /\ \A x : InLine(lockQueue', x) <=> InLine(lockQueue, x) \/ x = c
        /\ \A x : First(lockQueue, x) => First(lockQueue', x)
    BY <1>0, <1>2, <2>1, LineGrows DEF Waits
  <2> QED
    BY <1>0, <1>2, <2>2 DEF OAuthLockInv
<1>3. CASE Releases(c) /\ stage \notin UsesLock
  <2>1. /\ OneByOne(OAuthClients, lockQueue')
        /\ \A x : InLine(lockQueue', x) <=> InLine(lockQueue, x) /\ x # c
        /\ \A x : First(lockQueue, x) /\ x # c => First(lockQueue', x)
    BY <1>0, <1>3, LineShrinks DEF Releases
  <2> QED
    BY <1>0, <1>3, <2>1 DEF OAuthLockInv
<1> QED
  BY <1>1, <1>2, <1>3

\* The tokens stay, or more of them are over; who asks has still found the same.
LEMMA CalmStep ==
  ASSUME OAuthInv, NEW c \in OAuthClients, NEW stage, NEW from, ClientMoves(c, stage, from),
         UNCHANGED <<storedToken, refreshable, expired, refreshed>>, OAuthLockInv',
         stage \in AsksServer =>
           /\ storedToken = from /\ (storedToken = 0 \/ storedToken \in expired)
           /\ stage = "refreshing" => storedToken # 0
  PROVE  OAuthInv'
<1>1. TokensInv'
  BY DEF OAuthInv, TokensInv, RefreshedOnce, Tokens, Issued
<1>2. ASSUME NEW d \in OAuthClients PROVE AskerInv(d)'
  <2>1. CASE d = c
    BY <2>1 DEF ClientMoves, AskerInv
  <2>2. CASE d # c
    <3>1. oauth'[d] = oauth[d] /\ AskerInv(d)
      BY <2>2 DEF ClientMoves, OAuthInv
    <3> QED
      BY <3>1 DEF AskerInv
  <2> QED
    BY <2>1, <2>2
<1> QED
  BY <1>1, <1>2 DEF OAuthInv, ClientMoves

\* No other client asks while this one is first.
LEMMA NobodyElseAsks ==
  ASSUME OAuthInv, NEW c \in OAuthClients, First(lockQueue, c), NEW d \in OAuthClients, d # c
  PROVE  oauth[d].at \notin AsksServer
BY DEF OAuthInv, OAuthLockInv, First

\* A token that is got ends the asking.
LEMMA GetsGoes ==
  ASSUME OAuthInv, NEW c \in OAuthClients, NEW k \in Nat, Gets(c, k)
  PROVE  /\ \E stage \in {"sent", "ready"} : ClientMoves(c, stage, 0)
         /\ Releases(c)
<1>1. oauth \in [OAuthClients -> ClientState] /\ oauth[c] \in ClientState
  BY DEF OAuthInv
<1>2. PICK stage \in {"sent", "ready"} :
        oauth' = [oauth EXCEPT ![c].token = k, ![c].from = 0, ![c].at = stage]
  BY DEF Gets
<1>3. oauth' = [oauth EXCEPT ![c] = [oauth[c] EXCEPT !.token = k, !.from = 0, !.at = stage]]
  BY <1>1, <1>2
<1> DEFINE r == [oauth[c] EXCEPT !.token = k, !.from = 0, !.at = stage]
<1>4. r \in ClientState /\ r.at = stage /\ r.from = 0
  BY <1>1 DEF ClientState
<1> HIDE DEF r
<1>5. ClientMoves(c, stage, 0)
  BY <1>1, <1>3, <1>4 DEF ClientMoves, r
<1> QED
  BY <1>5 DEF Gets

\* A client that asks and gets a token: it is new, and it is stored.
LEMMA StoresHolds ==
  ASSUME OAuthInv, NEW c \in OAuthClients, oauth[c].at \in AsksServer, NEW grown,
         grown \in Seq(Nat), Len(grown) = Issued,
         \A k \in Tokens : grown[k] = refreshed[k] \/ (k = storedToken /\ grown[k] = refreshed[k] + 1),
         StoresToken(c, grown)
  PROVE  OAuthInv'
<1> DEFINE n == Issued
<1>1. /\ n \in Nat /\ refreshed \in Seq(Nat) /\ n = Len(refreshed) /\ Tokens = 1 .. n
      /\ storedToken \in 0 .. n /\ refreshable \subseteq 1 .. n /\ expired \subseteq 1 .. n
      /\ \A k \in 1 .. n : refreshed[k] <= 1 /\ (refreshed[k] = 1 => storedToken # k)
      /\ \A k \in 1 .. n : refreshed[k] \in Nat
  BY LenProperties, ElementOfSeq DEF OAuthInv, TokensInv, RefreshedOnce, Tokens, Issued
<1>2. /\ refreshed' = Append(grown, 0) /\ storedToken' = n + 1
      /\ refreshable' \in {refreshable, refreshable \cup {n + 1}} /\ expired' = expired
      /\ Gets(c, n + 1)
  BY DEF StoresToken
<1>3. Len(grown) = n /\ \A k \in 1 .. n : grown[k] = refreshed[k] \/ (k = storedToken /\ grown[k] = refreshed[k] + 1)
  BY <1>1
<1>4. First(lockQueue, c)
  BY DEF OAuthInv, OAuthLockInv
<1>5. /\ \E stage \in {"sent", "ready"} : ClientMoves(c, stage, 0)
      /\ Releases(c)
  BY <1>1, <1>2, GetsGoes
<1>6. PICK stage \in {"sent", "ready"} : ClientMoves(c, stage, 0)
  BY <1>5
<1>7. stage \notin UsesLock /\ stage \notin AsksServer
  BY DEF UsesLock, AsksServer
<1>8. OAuthLockInv'
  BY <1>5, <1>6, <1>7, LockFollows
<1>9. /\ refreshed' \in Seq(Nat) /\ Len(refreshed') = n + 1 /\ refreshed'[n + 1] = 0
      /\ \A k \in 1 .. n : refreshed'[k] = grown[k]
  BY <1>2, <1>3, AppendProperties
<1> HIDE DEF n
<1>10. ASSUME NEW k \in 1 .. n + 1
       PROVE  refreshed'[k] <= 1 /\ (refreshed'[k] = 1 => storedToken' # k)
  <2>1. CASE k = n + 1
    BY <1>9, <2>1
  <2>2. CASE k \in 1 .. n
    <3>1. storedToken' # k
      BY <1>1, <1>2, <2>2
    <3>2. refreshed'[k] <= 1
      <4>1. refreshed[k] \in Nat /\ refreshed[k] <= 1 /\ refreshed'[k] = grown[k]
        BY <1>1, <1>9, <2>2
      <4>2. CASE grown[k] = refreshed[k]
        BY <4>1, <4>2
      <4>3. CASE k = storedToken /\ grown[k] = refreshed[k] + 1
        <5>1. refreshed[k] # 1
          BY <1>1, <2>2, <4>3
        <5> QED
          BY <4>1, <4>3, <5>1
      <4> QED
        BY <1>3, <2>2, <4>2, <4>3
    <3> QED
      BY <3>1, <3>2
  <2> QED
    BY <1>1, <2>1, <2>2
<1>11. TokensInv'
  <2>1. Issued' = n + 1 /\ Tokens' = 1 .. (n + 1)
    BY <1>9 DEF Issued, Tokens
  <2>2. RefreshedOnce'
    BY <1>10, <2>1 DEF RefreshedOnce
  <2>3. storedToken' \in 0 .. (n + 1) /\ refreshable' \subseteq 1 .. (n + 1) /\ expired' \subseteq 1 .. (n + 1)
    BY <1>1, <1>2
  <2> QED
    BY <1>9, <2>1, <2>2, <2>3 DEF TokensInv
<1>12. ASSUME NEW d \in OAuthClients PROVE AskerInv(d)'
  <2>1. oauth'[d].at \notin AsksServer
    <3>1. CASE d = c
      BY <1>6, <1>7, <3>1 DEF ClientMoves
    <3>2. CASE d # c
      <4>1. oauth'[d] = oauth[d]
        BY <1>6, <3>2 DEF ClientMoves
      <4> QED
        BY <1>4, <3>2, <4>1, NobodyElseAsks
    <3> QED
      BY <3>1, <3>2
  <2> QED
    BY <2>1 DEF AskerInv
<1> QED
  BY <1>6, <1>8, <1>11, <1>12 DEF OAuthInv, ClientMoves

\* What an action that leaves the tokens alone does to its client.
LEMMA ClientGoes ==
  ASSUME OAuthInv, NEW c \in OAuthClients
  PROVE  /\ EnterClient(c) => ClientMoves(c, "waiting", oauth[c].from)
         /\ AskToClear(c) => ClientMoves(c, "clearing", oauth[c].from)
         /\ RefreshFails(c) => ClientMoves(c, "authorizing", oauth[c].from)
         /\ SendRequest(c) => ClientMoves(c, "sent", oauth[c].from)
         /\ LeaveClient(c) \/ AuthorizeFails(c) \/ ClearAuth(c) => ClientMoves(c, "out", 0)
         /\ RequestAnswered(c) =>
              \/ ClientMoves(c, "waiting", oauth[c].from) /\ Waits(c)
              \/ ClientMoves(c, "ready", oauth[c].from) /\ UNCHANGED lockQueue
<1> /\ oauth \in [OAuthClients -> ClientState] /\ oauth[c] \in ClientState
  BY DEF OAuthInv
<1>0. ASSUME NEW r \in ClientState, oauth' = [oauth EXCEPT ![c] = r] PROVE ClientMoves(c, r.at, r.from)
  BY <1>0 DEF ClientMoves
<1>1. \A stage \in {"waiting", "clearing", "authorizing"} :
        oauth' = [oauth EXCEPT ![c].at = stage] => ClientMoves(c, stage, oauth[c].from)
  <2> SUFFICES ASSUME NEW stage \in {"waiting", "clearing", "authorizing"},
                      oauth' = [oauth EXCEPT ![c].at = stage]
               PROVE  ClientMoves(c, stage, oauth[c].from)
    OBVIOUS
  <2> DEFINE r == [oauth[c] EXCEPT !.at = stage]
  <2>1. r \in ClientState /\ r.at = stage /\ r.from = oauth[c].from
    BY DEF ClientState, UsesLock
  <2> QED
    BY <1>0, <2>1
<1>2. \A stage \in {"waiting", "ready", "sent"} : \A b \in BOOLEAN :
        oauth' = [oauth EXCEPT ![c].at = stage, ![c].retried = b] => ClientMoves(c, stage, oauth[c].from)
  <2> SUFFICES ASSUME NEW stage \in {"waiting", "ready", "sent"}, NEW b \in BOOLEAN,
                      oauth' = [oauth EXCEPT ![c].at = stage, ![c].retried = b]
               PROVE  ClientMoves(c, stage, oauth[c].from)
    OBVIOUS
  <2> DEFINE r == [oauth[c] EXCEPT !.at = stage, !.retried = b]
  <2>1. r \in ClientState /\ r.at = stage /\ r.from = oauth[c].from
    BY DEF ClientState, UsesLock
  <2>2. oauth' = [oauth EXCEPT ![c] = r]
    OBVIOUS
  <2> HIDE DEF r
  <2> QED
    BY <1>0, <2>1, <2>2
<1>3. oauth' = [oauth EXCEPT ![c] = Outside] => ClientMoves(c, "out", 0)
  <2>1. Outside \in ClientState /\ Outside.at = "out" /\ Outside.from = 0
    BY DEF Outside, ClientState, UsesLock
  <2> QED
    BY <1>0, <2>1
<1>4. EnterClient(c) => ClientMoves(c, "waiting", oauth[c].from)
  BY <1>1 DEF EnterClient
<1>5. AskToClear(c) => ClientMoves(c, "clearing", oauth[c].from)
  BY <1>1 DEF AskToClear
<1>6. RefreshFails(c) => ClientMoves(c, "authorizing", oauth[c].from)
  BY <1>1 DEF RefreshFails
<1>7. SendRequest(c) => ClientMoves(c, "sent", oauth[c].from)
  <2>1. SendRequest(c) => \E b \in BOOLEAN : b = FALSE /\ oauth' = [oauth EXCEPT ![c].at = "sent", ![c].retried = b]
    BY Zenon DEF SendRequest
  <2> QED
    BY <1>2, <2>1
<1>8. LeaveClient(c) \/ AuthorizeFails(c) \/ ClearAuth(c) => ClientMoves(c, "out", 0)
  BY <1>3 DEF LeaveClient, AuthorizeFails, ClearAuth
<1>9. RequestAnswered(c) => \/ ClientMoves(c, "waiting", oauth[c].from) /\ Waits(c)
                            \/ ClientMoves(c, "ready", oauth[c].from) /\ UNCHANGED lockQueue
  <2>1. RequestAnswered(c) =>
          \E b \in BOOLEAN :
            \/ oauth' = [oauth EXCEPT ![c].at = "waiting", ![c].retried = b] /\ Waits(c)
            \/ oauth' = [oauth EXCEPT ![c].at = "ready", ![c].retried = b] /\ UNCHANGED lockQueue
    BY Zenon DEF RequestAnswered
  <2> QED
    BY <1>2, <2>1
<1> QED
  BY <1>4, <1>5, <1>6, <1>7, <1>8, <1>9

LEMMA ReadTokenHolds ==
  ASSUME OAuthInv, NEW c \in OAuthClients, ReadToken(c)
  PROVE  OAuthInv'
<1>1. First(lockQueue, c) /\ oauth[c].at = "waiting"
      /\ UNCHANGED <<storedToken, refreshable, expired, refreshed>>
  BY DEF ReadToken, HasLock, First
<1>2. storedToken \in Nat /\ refreshable \subseteq Tokens /\ 0 \notin Tokens
  BY LenProperties DEF OAuthInv, TokensInv, Issued, Tokens
<1>3. oauth \in [OAuthClients -> ClientState] /\ oauth[c] \in ClientState
  BY DEF OAuthInv
<1>4. CASE Gets(c, storedToken)
  <2>1. PICK stage \in {"sent", "ready"} : ClientMoves(c, stage, 0)
    BY <1>2, <1>4, GetsGoes
  <2>2. Releases(c) /\ stage \notin UsesLock /\ stage \notin AsksServer
    BY <1>4 DEF Gets, UsesLock, AsksServer
  <2>3. OAuthLockInv'
    BY <2>1, <2>2, LockFollows
  <2> QED
    BY <1>1, <2>1, <2>2, <2>3, CalmStep
<1>5. CASE ~Gets(c, storedToken)
  <2> DEFINE stage == IF storedToken \in refreshable THEN "refreshing" ELSE "authorizing"
             r == [oauth[c] EXCEPT !.from = storedToken, !.at = stage]
  <2>1. /\ oauth' = [oauth EXCEPT ![c].from = storedToken, ![c].at = stage]
        /\ UNCHANGED lockQueue
        /\ storedToken = 0 \/ storedToken \in expired
    BY <1>5 DEF ReadToken
  <2>2. stage \in AsksServer /\ stage \in UsesLock /\ (stage = "refreshing" => storedToken \in refreshable)
    BY DEF AsksServer, UsesLock
  <2> HIDE DEF stage
  <2>3. r \in ClientState /\ r.at = stage /\ r.from = storedToken
    BY <1>2, <1>3, <2>2 DEF ClientState
  <2>4. oauth' = [oauth EXCEPT ![c] = r]
    BY <2>1
  <2> HIDE DEF r
  <2>5. ClientMoves(c, stage, storedToken)
    BY <1>3, <2>3, <2>4 DEF ClientMoves
  <2>6. oauth[c].at \in UsesLock
    BY <1>1 DEF UsesLock
  <2>7. OAuthLockInv'
    BY <1>1, <2>1, <2>2, <2>5, <2>6, LockFollows
  <2>8. stage = "refreshing" => storedToken # 0
    BY <1>2, <2>2
  <2> QED
    BY <1>1, <2>1, <2>5, <2>7, <2>8, CalmStep
<1> QED
  BY <1>4, <1>5

LEMMA AuthorizedHolds ==
  ASSUME OAuthInv, NEW c \in OAuthClients, RefreshToken(c) \/ Authorize(c)
  PROVE  OAuthInv'
<1>1. refreshed \in Seq(Nat) /\ Issued = Len(refreshed) /\ Tokens = 1 .. Issued
      /\ AskerInv(c) /\ storedToken \in 0 .. Issued /\ Issued \in Nat
  BY LenProperties DEF OAuthInv, TokensInv, Issued, Tokens
<1>2. CASE Authorize(c)
  <2>1. oauth[c].at \in AsksServer /\ StoresToken(c, refreshed)
    BY <1>2 DEF Authorize, AsksServer
  <2> QED
    BY <1>1, <2>1, StoresHolds
<1>3. CASE RefreshToken(c)
  <2> DEFINE grown == [refreshed EXCEPT ![storedToken] = @ + 1]
  <2>1. oauth[c].at = "refreshing" /\ oauth[c].at \in AsksServer
    BY <1>3 DEF RefreshToken, AsksServer
  <2>2. storedToken = oauth[c].from /\ storedToken \in 1 .. Len(refreshed)
    BY <1>1, <2>1 DEF AskerInv
  <2>3. refreshed[storedToken] \in Nat /\ refreshed[storedToken] + 1 \in Nat
    BY <1>1, <2>2, ElementOfSeq
  <2>4. /\ grown \in Seq(Nat) /\ Len(grown) = Len(refreshed)
        /\ \A k \in 1 .. Len(refreshed) : grown[k] = IF k = storedToken THEN refreshed[k] + 1 ELSE refreshed[k]
    BY <1>1, <2>2, <2>3, ExceptSeq
  <2>5. StoresToken(c, grown)
    BY <1>3, <2>2 DEF RefreshToken
  <2> HIDE DEF grown
  <2>6. \A k \in Tokens : grown[k] = refreshed[k] \/ (k = storedToken /\ grown[k] = refreshed[k] + 1)
    BY <1>1, <2>4
  <2>7. Len(grown) = Issued
    BY <1>1, <2>4
  <2> QED
    BY <2>1, <2>4, <2>5, <2>6, <2>7, StoresHolds
<1> QED
  BY <1>2, <1>3

LEMMA ClearHolds ==
  ASSUME OAuthInv, NEW c \in OAuthClients, ClearAuth(c)
  PROVE  OAuthInv'
<1>1. ClientMoves(c, "out", 0) /\ Releases(c) /\ First(lockQueue, c)
      /\ storedToken' = 0 /\ UNCHANGED <<refreshable, expired, refreshed>>
  BY ClientGoes DEF ClearAuth, HasLock, First
<1>2. OAuthLockInv'
  BY <1>1, LockFollows DEF UsesLock
<1>3. TokensInv'
  <2>1. Issued' = Issued /\ Tokens' = Tokens /\ Issued \in Nat
    BY <1>1, LenProperties DEF Issued, Tokens, OAuthInv, TokensInv
  <2>2. \A k \in Tokens : k # 0
    BY <2>1 DEF Tokens
  <2> QED
    BY <1>1, <2>1, <2>2 DEF OAuthInv, TokensInv, RefreshedOnce
<1>4. ASSUME NEW d \in OAuthClients PROVE AskerInv(d)'
  <2>1. CASE d = c
    BY <1>1, <2>1 DEF ClientMoves, AskerInv, AsksServer
  <2>2. CASE d # c
    <3>1. oauth'[d] = oauth[d]
      BY <1>1, <2>2 DEF ClientMoves
    <3> QED
      BY <1>1, <2>2, <3>1, NobodyElseAsks DEF AskerInv
  <2> QED
    BY <2>1, <2>2
<1> QED
  BY <1>1, <1>2, <1>3, <1>4 DEF OAuthInv, ClientMoves

LEMMA OAuthStep == OAuthInv /\ [OAuthNext]_oauthVars => OAuthInv'
<1> SUFFICES ASSUME OAuthInv, [OAuthNext]_oauthVars PROVE OAuthInv'
  OBVIOUS
<1> DEFINE tokens == <<storedToken, refreshable, expired, refreshed>>
<1>1. ASSUME NEW c \in OAuthClients, EnterClient(c) \/ AskToClear(c) \/ RequestAnswered(c)
                                      \/ RefreshFails(c) \/ SendRequest(c) \/ LeaveClient(c)
                                      \/ AuthorizeFails(c)
      PROVE  OAuthInv'
  <2>0. UNCHANGED tokens /\ AskerInv(c)
    BY <1>1 DEF EnterClient, AskToClear, RequestAnswered, RefreshFails, SendRequest, LeaveClient,
                AuthorizeFails, OAuthInv
  <2> HIDE DEF tokens
  <2>1. ASSUME NEW stage \in {"waiting", "clearing"}, ClientMoves(c, stage, oauth[c].from), Waits(c),
               oauth[c].at \in {"out", "sent"}
        PROVE  OAuthInv'
    <3>1. stage \in UsesLock \ AsksServer /\ oauth[c].at \notin UsesLock
      BY <2>1 DEF UsesLock, AsksServer
    <3>2. OAuthLockInv'
      BY <2>1, <3>1, LockFollows
    <3> QED
      BY <2>0, <2>1, <3>1, <3>2, CalmStep DEF tokens
  <2>2. ASSUME NEW stage \in {"ready", "sent", "out"}, NEW from, ClientMoves(c, stage, from),
               UNCHANGED lockQueue, oauth[c].at \in {"ready", "sent"}
        PROVE  OAuthInv'
    <3>1. stage \notin UsesLock /\ stage \notin AsksServer /\ oauth[c].at \notin UsesLock
      BY <2>2 DEF UsesLock, AsksServer
    <3>2. OAuthLockInv'
      BY <2>2, <3>1, LockFollows
    <3> QED
      BY <2>0, <2>2, <3>1, <3>2, CalmStep DEF tokens
  <2>3. CASE EnterClient(c)
    BY <2>1, <2>3, ClientGoes DEF EnterClient
  <2>4. CASE AskToClear(c)
    BY <2>1, <2>4, ClientGoes DEF AskToClear
  <2>5. CASE RequestAnswered(c)
    BY <2>1, <2>2, <2>5, ClientGoes DEF RequestAnswered
  <2>6. CASE SendRequest(c)
    BY <2>2, <2>6, ClientGoes DEF SendRequest
  <2>7. CASE LeaveClient(c)
    BY <2>2, <2>7, ClientGoes DEF LeaveClient
  <2>8. CASE RefreshFails(c)
    <3>1. /\ oauth[c].at = "refreshing" /\ UNCHANGED lockQueue /\ ClientMoves(c, "authorizing", oauth[c].from)
          /\ First(lockQueue, c)
      BY <2>8, ClientGoes DEF RefreshFails, OAuthInv, OAuthLockInv, AsksServer
    <3>2. OAuthLockInv'
      BY <3>1, LockFollows DEF UsesLock
    <3>3. storedToken = oauth[c].from /\ (storedToken = 0 \/ storedToken \in expired)
      BY <2>0, <3>1 DEF AskerInv, AsksServer
    <3> QED
      BY <2>0, <3>1, <3>2, <3>3, CalmStep DEF tokens
  <2>9. CASE AuthorizeFails(c)
    <3>1. Releases(c) /\ ClientMoves(c, "out", 0)
      BY <2>9, ClientGoes DEF AuthorizeFails
    <3>2. OAuthLockInv'
      BY <3>1, LockFollows DEF UsesLock
    <3> QED
      BY <2>0, <3>1, <3>2, CalmStep DEF tokens, AsksServer
  <2> QED
    BY <1>1, <2>3, <2>4, <2>5, <2>6, <2>7, <2>8, <2>9
<1>2. ASSUME UNCHANGED <<storedToken, refreshable, refreshed, lockQueue, oauth>>,
             expired \subseteq expired', expired' \subseteq Tokens
      PROVE  OAuthInv'
  BY <1>2 DEF OAuthInv, TokensInv, RefreshedOnce, Tokens, Issued, OAuthLockInv, AskerInv
<1>3. CASE TokenExpires
  <2>1. expired \subseteq Tokens
    BY DEF OAuthInv, TokensInv
  <2> QED
    BY <1>2, <1>3, <2>1 DEF TokenExpires
<1>4. CASE TokenRevoked \/ UNCHANGED oauthVars
  <2>1. expired \subseteq Tokens
    BY DEF OAuthInv, TokensInv
  <2> QED
    BY <1>2, <1>4, <2>1 DEF TokenRevoked, oauthVars
<1> QED
  BY <1>1, <1>3, <1>4, ReadTokenHolds, AuthorizedHolds, ClearHolds DEF OAuthNext

LEMMA OAuthHolds == OAuthInv => RefreshedOnce /\ OneAsks
<1>1. ASSUME OAuthInv, NEW c \in OAuthClients, oauth[c].at \in AsksServer,
             NEW d \in OAuthClients \ {c}
      PROVE  oauth[d].at \notin AsksServer
  <2>1. First(lockQueue, c)
    BY <1>1 DEF OAuthInv, OAuthLockInv
  <2> QED
    BY <1>1, <2>1, NobodyElseAsks
<1> QED
  BY <1>1 DEF OAuthInv, TokensInv, AskerInv, OneAsks, AsksServer

(***************************************************************************)
(* No token is refreshed twice, and one client at a time is with the       *)
(* authorization server, for any number of clients and tokens.             *)
(***************************************************************************)
THEOREM TokensHold == OAuthSpec => [](RefreshedOnce /\ OneAsks)
<1>1. OAuthSpec => []OAuthInv
  BY OAuthStart, OAuthStep, PTL DEF OAuthSpec
<1> QED
  BY <1>1, OAuthHolds, PTL
-----------------------------------------------------------------------------
(***************************************************************************)
(* Terminals: exec() returns the output of its own command.                *)
(***************************************************************************)
TermTypes ==
  /\ term \in [Terms -> {"new", "creating", "open", "closing", "closed"}]
  /\ masterFd \in [Terms -> Fds \cup {NoTerminal}] /\ fdOwner \in [Fds -> Terms \cup {NoTerminal}]
  /\ DOMAIN shellIn = Terms /\ DOMAIN shellOut = Terms /\ DOMAIN line = Terms
  /\ execAt \in [Execs -> {"new", "locking", "reading", "returned", "failed", "timedOut"}]
  /\ execTerm \in [Execs -> Terms \cup {NoTerminal}]
  /\ DOMAIN got = Execs /\ spoilt \subseteq Terms
  /\ DOMAIN readAt = Readers /\ DOMAIN readTerm = Readers

\* A session that is not closed has its descriptor for itself.
FdsInv ==
  \A t \in Terms :
    /\ term[t] # "new" => masterFd[t] \in Fds
    /\ term[t] \in {"creating", "open", "closing"} => fdOwner[masterFd[t]] = t

\* A call is of a session that was open once, and stands in its line until it
\* returns; who reads has the lock.
CallsInv ==
  /\ \A e \in Execs : execAt[e] # "new" =>
       execTerm[e] \in Terms /\ term[execTerm[e]] \notin {"new", "creating"}
  /\ \A t \in Terms : OneByOne(Execs, line[t])
  /\ \A t \in Terms : \A e \in Execs :
       InLine(line[t], e) <=> execAt[e] \in {"locking", "reading"} /\ execTerm[e] = t
  /\ \A e \in Execs : execAt[e] = "reading" => First(line[execTerm[e]], e)

ReadersInv ==
  \A r \in Readers : readAt[r] = "reading" => readTerm[r] \in Terms /\ term[readTerm[r]] \notin {"new", "creating"}

\* The command is written, or its call ended without.
Begun(e) == execAt[e] \notin {"new", "locking"}

\* The pieces that a terminal may hold: of its session's commands, and of
\* calls which met it as a foreign one.
PiecesAt(s) == {p \in Pieces : Begun(p[1]) /\ (execTerm[p[1]] = s \/ execTerm[p[1]] \in spoilt)}

PipesTyped ==
  /\ \A s \in Terms : shellIn[s] \in Seq(PiecesAt(s)) /\ shellOut[s] \in Seq(PiecesAt(s))
  /\ \A p \in seized : p \in Pieces /\ Begun(p[1])
  /\ \A e \in Execs : ~Begun(e) => got[e] = <<>>

\* Where the text t and the marker m of the command are whose call reads: still
\* to be written (in), written (out), read by the call (g) or by a read() (z).
Underway(t, m, in, out, g, z) ==
  /\ m \notin z
  /\ \/ in = <<t, m>> /\ out = <<>> /\ g = <<>> /\ t \notin z
     \/ in = <<m>> /\ out = <<t>> /\ g = <<>> /\ t \notin z
     \/ in = <<m>> /\ out = <<>> /\ g = <<t>> /\ t \notin z
     \/ in = <<m>> /\ out = <<>> /\ g = <<>> /\ t \in z
     \/ in = <<>> /\ out = <<t, m>> /\ g = <<>> /\ t \notin z
     \/ in = <<>> /\ out = <<m>> /\ g = <<t>> /\ t \notin z
     \/ in = <<>> /\ out = <<m>> /\ g = <<>> /\ t \in z

\* A session that is not spoilt has at most one command on its way, that of the
\* call which reads.
PipeInv(s) ==
  \/ shellIn[s] = <<>> /\ shellOut[s] = <<>>
  \/ \E e \in Execs : /\ execAt[e] = "reading" /\ execTerm[e] = s
                      /\ Underway(<<e, "text">>, <<e, "marker">>, shellIn[s], shellOut[s], got[e], seized)

PipesInv == \A s \in Terms \ spoilt : PipeInv(s)

ReturnsInv ==
  \A e \in Execs : execAt[e] = "returned" /\ execTerm[e] \notin spoilt => got[e] = LeftOf(e)

TermInv == TermTypes /\ FdsInv /\ CallsInv /\ ReadersInv /\ PipesTyped /\ PipesInv /\ ReturnsInv

LEMMA TermStart == TermInit => TermInv
<1> SUFFICES ASSUME TermInit PROVE TermInv
  OBVIOUS
<1>1. <<>> \in Seq(Execs) /\ Len(<<>>) = 0
  BY EmptySeq
<1>2. \A t \in Terms : OneByOne(Execs, line[t]) /\ \A e \in Execs : ~InLine(line[t], e)
  BY <1>1 DEF TermInit, OneByOne, InLine
<1>3. CallsInv /\ ReadersInv
  BY <1>2 DEF TermInit, CallsInv, ReadersInv
<1>4. PipesTyped
  BY EmptySeq DEF TermInit, PipesTyped
<1> QED
  BY <1>3, <1>4 DEF TermInit, TermInv, TermTypes, FdsInv, PipesInv, PipeInv, ReturnsInv

\* A sequence of one item, and one of two.
LEMMA OneItem ==
  ASSUME NEW x
  PROVE  /\ <<x>> # <<>> /\ Head(<<x>>) = x /\ Tail(<<x>>) = <<>> /\ Append(<<>>, x) = <<x>>
         /\ \A k \in DOMAIN <<x>> : k = 1 /\ SubSeq(<<x>>, 1, k) = <<x>> /\ SubSeq(<<x>>, k + 1, Len(<<x>>)) = <<>>
<1>1. <<x>> # <<>> /\ Head(<<x>>) = x /\ Tail(<<x>>) = <<>> /\ Append(<<>>, x) = <<x>>
  OBVIOUS
<1>2. DOMAIN <<x>> = {1} /\ Len(<<x>>) = 1
  OBVIOUS
<1>3. SubSeq(<<x>>, 1, 1) = <<x>>
  <2> DEFINE S == {x}
             s == <<x>>
             r == SubSeq(s, 1, 1)
  <2>1. s \in Seq(S) /\ Len(s) = 1 /\ s[1] = x /\ \A i \in 1 .. 1 : s[i] \in S
    OBVIOUS
  <2> HIDE DEF s
  <2>2. r \in Seq(S) /\ Len(r) = 1 /\ r[1] = s[1]
    BY <2>1, SubSeqProperties
  <2> HIDE DEF r
  <2>3. r = s
    BY <2>1, <2>2, SeqEqual
  <2> QED
    BY <2>3 DEF r, s
<1>4. SubSeq(<<x>>, 1 + 1, 1) = <<>>
  BY SubSeqEmpty
<1> QED
  BY <1>1, <1>2, <1>3, <1>4

LEMMA TwoSplit ==
  ASSUME NEW x, NEW y
  PROVE  /\ <<x, y>> # <<>> /\ Head(<<x, y>>) = x /\ Tail(<<x, y>>) = <<y>> /\ Append(<<x>>, y) = <<x, y>>
         /\ DOMAIN <<x, y>> = {1, 2} /\ Len(<<x, y>>) = 2
         /\ SubSeq(<<x, y>>, 1, 1) = <<x>> /\ SubSeq(<<x, y>>, 1 + 1, Len(<<x, y>>)) = <<y>>
         /\ SubSeq(<<x, y>>, 1, 2) = <<x, y>> /\ SubSeq(<<x, y>>, 2 + 1, Len(<<x, y>>)) = <<>>
<1> DEFINE S == {x, y}
           s == <<x, y>>
           a == SubSeq(s, 1, 1)
           b == SubSeq(s, 1 + 1, Len(s))
           c == SubSeq(s, 1, 2)
           u == <<x>>
           v == <<y>>
           d == Append(u, y)
<1>1. s \in Seq(S) /\ Len(s) = 2 /\ s[1] = x /\ s[2] = y /\ DOMAIN s = {1, 2} /\ \A i \in 1 .. 2 : s[i] \in S
  OBVIOUS
<1>2. u \in Seq(S) /\ Len(u) = 1 /\ u[1] = x /\ v \in Seq(S) /\ Len(v) = 1 /\ v[1] = y
  OBVIOUS
<1>3. s # <<>> /\ Head(s) = x /\ Tail(s) = v
  OBVIOUS
<1> HIDE DEF s, u, v
<1>4. a \in Seq(S) /\ Len(a) = 1 /\ a[1] = x
  BY <1>1, SubSeqProperties
<1>5. b \in Seq(S) /\ Len(b) = 1 /\ b[1] = y
  BY <1>1, SubSeqProperties
<1>6. c \in Seq(S) /\ Len(c) = 2 /\ c[1] = x /\ c[2] = y
  BY <1>1, SubSeqProperties
<1>7. d = u \o <<y>>
  BY <1>2, AppendIsConcat
<1>8. u \o <<y>> = s
  <2>1. x \in {x, y} /\ y \in {x, y}
    OBVIOUS
  <2> QED
    BY <2>1, TwoItems, Zenon DEF u, s
<1>9. SubSeq(s, 2 + 1, Len(s)) = <<>>
  BY <1>1, SubSeqEmpty
<1> HIDE DEF a, b, c, d
<1>10. a = u /\ b = v /\ c = s
  BY <1>1, <1>2, <1>4, <1>5, <1>6, SeqEqual
<1> QED
  BY <1>1, <1>3, <1>7, <1>8, <1>9, <1>10 DEF s, a, b, c, u, v, d

\* The ways of a command's output: the shell writes a piece, ...
LEMMA UnderwayRuns ==
  ASSUME NEW t, NEW m, NEW in, NEW out, NEW g, NEW z, Underway(t, m, in, out, g, z), in # <<>>
  PROVE  Underway(t, m, Tail(in), Append(out, Head(in)), g, z)
<1>1. /\ Head(<<t, m>>) = t /\ Tail(<<t, m>>) = <<m>> /\ Append(<<>>, t) = <<t>>
      /\ Head(<<m>>) = m /\ Tail(<<m>>) = <<>> /\ Append(<<>>, m) = <<m>> /\ Append(<<t>>, m) = <<t, m>>
  <2>1. /\ Head(<<t, m>>) = t /\ Tail(<<t, m>>) = <<m>> /\ Append(<<t>>, m) = <<t, m>>
    BY TwoSplit, Zenon
  <2> QED
    BY <2>1
<1> QED
  BY <1>1 DEF Underway

\* ... a read() takes some, ...
LEMMA UnderwayTaken ==
  ASSUME NEW t, NEW m, NEW in, NEW out, NEW g, NEW z, Underway(t, m, in, out, g, z), t # m,
         NEW k \in DOMAIN out,
         NEW y, \A p \in {t, m} : p \in y <=> p \in z \/ \E i \in 1 .. k : out[i] = p
  PROVE  LET rest == SubSeq(out, k + 1, Len(out)) IN
         (in = <<>> /\ rest = <<>>) \/ Underway(t, m, in, rest, g, y)
<1> DEFINE rest == SubSeq(out, k + 1, Len(out))
<1>1. DOMAIN <<>> = {} /\ DOMAIN <<t>> = {1} /\ DOMAIN <<m>> = {1} /\ <<t>>[1] = t /\ <<m>>[1] = m
      /\ DOMAIN <<t, m>> = {1, 2} /\ <<t, m>>[1] = t /\ <<t, m>>[2] = m
  OBVIOUS
<1>2. CASE out = <<t>>
  <2>1. rest = <<>> /\ k = 1
    BY <1>2, OneItem
  <2>2. t \in y /\ (m \in y <=> m \in z)
    BY <1>1, <1>2, <2>1
  <2> QED
    BY <1>1, <1>2, <2>1, <2>2 DEF Underway
<1>3. CASE out = <<m>>
  <2>1. rest = <<>>
    BY <1>3, OneItem
  <2> QED
    BY <1>3, <2>1 DEF Underway
<1>4. CASE out = <<t, m>>
  <2>0. in = <<>> /\ g = <<>> /\ m \notin z
    BY <1>4, TwoSplit, OneItem DEF Underway
  <2>1. CASE k = 1
    <3>1. rest = SubSeq(<<t, m>>, 1 + 1, Len(<<t, m>>))
      BY <1>4, <2>1
    <3>2. SubSeq(<<t, m>>, 1 + 1, Len(<<t, m>>)) = <<m>>
      BY TwoSplit
    <3>3. rest = <<m>>
      BY <3>1, <3>2, Zenon
    <3>4. t \in y /\ m \notin y
      BY <1>1, <1>4, <2>0, <2>1
    <3> HIDE DEF rest
    <3>5. Underway(t, m, in, rest, g, y)
      BY <2>0, <3>3, <3>4 DEF Underway
    <3> QED
      BY <3>5 DEF rest
  <2>2. CASE k = 2
    <3>1. rest = <<>>
      BY <1>4, <2>2, TwoSplit
    <3> QED
      BY <2>0, <3>1
  <2> QED
    BY <1>1, <1>4, <2>1, <2>2
<1> HIDE DEF rest
<1> QED
  BY <1>1, <1>2, <1>3, <1>4 DEF Underway, rest

\* ... or the call does, until it has the marker.
LEMMA UnderwayRead ==
  ASSUME NEW t, NEW m, NEW in, NEW out, NEW g, NEW z, Underway(t, m, in, out, g, z), t # m,
         t[2] # "marker", m[2] = "marker", NEW k \in DOMAIN out
  PROVE  LET rest == SubSeq(out, k + 1, Len(out))
             more == g \o SubSeq(out, 1, k)
             marked == \E i \in DOMAIN more : more[i][2] = "marker" IN
         /\ marked => in = <<>> /\ rest = <<>> /\ more = IF t \in z THEN <<m>> ELSE <<t, m>>
         /\ ~marked => Underway(t, m, in, rest, more, z)
<1> DEFINE rest == SubSeq(out, k + 1, Len(out))
           part == SubSeq(out, 1, k)
           more == g \o part
           marked == \E i \in DOMAIN more : more[i][2] = "marker"
<1>1. DOMAIN <<>> = {} /\ DOMAIN <<t>> = {1} /\ DOMAIN <<m>> = {1} /\ <<t>>[1] = t /\ <<m>>[1] = m
      /\ DOMAIN <<t, m>> = {1, 2} /\ <<t, m>>[1] = t /\ <<t, m>>[2] = m
  OBVIOUS
<1>2. <<>> \o <<t>> = <<t>> /\ <<>> \o <<m>> = <<m>> /\ <<>> \o <<t, m>> = <<t, m>> /\ <<t>> \o <<m>> = <<t, m>>
  <2>1. <<t>> \o <<m>> = <<t, m>>
    <3>1. t \in {t, m} /\ m \in {t, m}
      OBVIOUS
    <3> QED
      BY <3>1, TwoItems, Zenon
  <2> QED
    BY <2>1
<1>3. CASE out = <<t>>
  <2>1. rest = <<>> /\ part = <<t>> /\ k = 1
    BY <1>3, OneItem
  <2>2. g = <<>> /\ in = <<m>> /\ t \notin z /\ m \notin z
    BY <1>1, <1>3, OneItem DEF Underway
  <2> HIDE DEF rest, part
  <2>3. more = <<t>>
    BY <1>2, <2>1, <2>2
  <2> HIDE DEF more
  <2>4. ~marked
    BY <1>1, <2>3
  <2> HIDE DEF marked
  <2>5. Underway(t, m, in, rest, more, z)
    BY <2>1, <2>2, <2>3 DEF Underway
  <2> QED
    BY <2>4, <2>5 DEF marked, more, part, rest
<1>4. CASE out = <<m>>
  <2>1. rest = <<>> /\ part = <<m>> /\ k = 1
    BY <1>4, OneItem
  <2>2. in = <<>> /\ ((g = <<t>> /\ t \notin z) \/ (g = <<>> /\ t \in z))
    BY <1>1, <1>4, OneItem DEF Underway
  <2> HIDE DEF rest, part
  <2>3. more = IF t \in z THEN <<m>> ELSE <<t, m>>
    BY <1>2, <2>1, <2>2
  <2> HIDE DEF more
  <2>4. marked
    BY <1>1, <2>3
  <2> HIDE DEF marked
  <2> QED
    BY <2>1, <2>2, <2>3, <2>4 DEF marked, more, part, rest
<1>5. CASE out = <<t, m>>
  <2>0. in = <<>> /\ g = <<>> /\ m \notin z /\ t \notin z
    BY <1>5, TwoSplit, OneItem DEF Underway
  <2>1. CASE k = 1
    <3>1. rest = <<m>> /\ part = <<t>>
      BY <1>5, <2>1, TwoSplit, Zenon
    <3> HIDE DEF rest, part
    <3>2. more = <<t>>
      BY <1>2, <2>0, <3>1
    <3> HIDE DEF more
    <3>3. ~marked
      BY <1>1, <3>2
    <3> HIDE DEF marked
    <3>4. Underway(t, m, in, rest, more, z)
      BY <2>0, <3>1, <3>2 DEF Underway
    <3> QED
      BY <3>3, <3>4 DEF marked, more, part, rest
  <2>2. CASE k = 2
    <3>1. rest = <<>> /\ part = <<t, m>>
      BY <1>5, <2>2, TwoSplit, Zenon
    <3> HIDE DEF rest, part
    <3>2. more = <<t, m>>
      BY <1>2, <2>0, <3>1
    <3> HIDE DEF more
    <3>3. marked
      BY <1>1, <3>2
    <3> HIDE DEF marked
    <3> QED
      BY <2>0, <3>1, <3>2, <3>3 DEF marked, more, part, rest
  <2> QED
    BY <1>1, <1>5, <2>1, <2>2
<1> QED
  BY <1>1, <1>3, <1>4, <1>5 DEF Underway

LEMMA TermParts ==
  ASSUME TermInv
  PROVE  TermTypes /\ FdsInv /\ CallsInv /\ ReadersInv /\ PipesTyped /\ PipesInv /\ ReturnsInv
  BY DEF TermInv

LEMMA SeqGrows ==
  ASSUME NEW S, NEW T, S \subseteq T, NEW q \in Seq(S)
  PROVE  q \in Seq(T)
  OBVIOUS

\* Calls go on, and sessions are spoilt for good: a terminal may hold what it
\* held.
LEMMA PiecesStay ==
  ASSUME \A e \in Execs : Begun(e) => Begun(e)' /\ execTerm'[e] = execTerm[e],
         spoilt \subseteq spoilt'
  PROVE  \A s : \A q \in Seq(PiecesAt(s)) : q \in Seq(PiecesAt(s)')
<1>1. \A p \in Pieces : p[1] \in Execs
  BY DEF Pieces
<1>2. \A s : PiecesAt(s) \subseteq PiecesAt(s)'
  BY <1>1 DEF PiecesAt
<1> QED
  BY <1>2, SeqGrows

\* Who still reads, with the same pieces.
LEMMA PipeStays ==
  ASSUME NEW s, PipeInv(s),
         shellIn'[s] = shellIn[s], shellOut'[s] = shellOut[s],
         \A e \in Execs : execAt[e] = "reading" /\ execTerm[e] = s =>
           /\ execAt'[e] = "reading" /\ execTerm'[e] = s /\ got'[e] = got[e]
           /\ \A part \in {"text", "marker"} : <<e, part>> \in seized' <=> <<e, part>> \in seized
  PROVE  PipeInv(s)'
<1>1. CASE shellIn[s] = <<>> /\ shellOut[s] = <<>>
  BY <1>1 DEF PipeInv
<1>2. CASE ~(shellIn[s] = <<>> /\ shellOut[s] = <<>>)
  <2>1. PICK e \in Execs :
          /\ execAt[e] = "reading" /\ execTerm[e] = s
          /\ Underway(<<e, "text">>, <<e, "marker">>, shellIn[s], shellOut[s], got[e], seized)
    BY <1>2 DEF PipeInv
  <2>2. /\ execAt'[e] = "reading" /\ execTerm'[e] = s /\ got'[e] = got[e]
        /\ <<e, "text">> \in seized' <=> <<e, "text">> \in seized
        /\ <<e, "marker">> \in seized' <=> <<e, "marker">> \in seized
    BY <2>1
  <2>3. Underway(<<e, "text">>, <<e, "marker">>, shellIn'[s], shellOut'[s], got'[e], seized')
    BY <2>1, <2>2 DEF Underway
  <2> QED
    BY <2>2, <2>3 DEF PipeInv
<1> QED
  BY <1>1, <1>2

\* The steps of sessions that are no steps of calls.
LEMMA SessionHolds ==
  ASSUME TermInv, NEW t \in Terms,
         OpenPty(t) \/ ShellStarts(t) \/ ClosePty(t) \/ PtyClosed(t)
  PROVE  TermInv'
<1>0. TermTypes /\ FdsInv /\ CallsInv /\ ReadersInv /\ PipesTyped /\ PipesInv /\ ReturnsInv
  BY TermParts
<1>1. UNCHANGED <<line, execAt, execTerm, got, spoilt, readAt, readTerm, seized>>
  BY DEF OpenPty, ShellStarts, ClosePty, PtyClosed, execState, readState
<1>2. TermTypes' /\ FdsInv'
  <2>1. CASE OpenPty(t)
    BY <1>0, <1>1, <2>1, TerminalsAssumption DEF OpenPty, TermTypes, FdsInv, NoTerminal
  <2>2. CASE ShellStarts(t)
    BY <1>0, <1>1, <2>2, TerminalsAssumption DEF ShellStarts, TermTypes, FdsInv, NoTerminal
  <2>3. CASE ClosePty(t)
    BY <1>0, <1>1, <2>3, TerminalsAssumption DEF ClosePty, TermTypes, FdsInv, NoTerminal
  <2>4. CASE PtyClosed(t)
    BY <1>0, <1>1, <2>4, TerminalsAssumption DEF PtyClosed, TermTypes, FdsInv, NoTerminal
  <2> QED
    BY <2>1, <2>2, <2>3, <2>4
<1>3. CallsInv' /\ ReadersInv'
  <2>1. \A s \in Terms : term[s] \notin {"new", "creating"} => term'[s] \notin {"new", "creating"}
    BY <1>0 DEF OpenPty, ShellStarts, ClosePty, PtyClosed, TermTypes
  <2> QED
    BY <1>0, <1>1, <2>1 DEF CallsInv, ReadersInv
<1>4. ASSUME NEW s \in Terms
      PROVE  \/ shellIn'[s] = shellIn[s] /\ shellOut'[s] = shellOut[s]
             \/ shellIn'[s] = <<>> /\ shellOut'[s] = <<>>
  BY <1>0 DEF OpenPty, ShellStarts, ClosePty, PtyClosed, TermTypes
<1>5. PipesInv'
  <2>1. ASSUME NEW s \in Terms \ spoilt PROVE PipeInv(s)'
    <3>1. PipeInv(s)
      BY <1>0 DEF PipesInv
    <3>2. CASE shellIn'[s] = shellIn[s] /\ shellOut'[s] = shellOut[s]
      BY <1>1, <3>1, <3>2, PipeStays
    <3>3. CASE shellIn'[s] = <<>> /\ shellOut'[s] = <<>>
      BY <3>3 DEF PipeInv
    <3> QED
      BY <1>4, <3>2, <3>3
  <2> QED
    BY <1>1, <2>1 DEF PipesInv
<1>6. PipesTyped'
  <2>1. \A s \in Terms : PiecesAt(s)' = PiecesAt(s)
    BY <1>1 DEF PiecesAt, Begun
  <2>2. \A S : <<>> \in Seq(S)
    BY EmptySeq
  <2> QED
    BY <1>0, <1>1, <1>4, <2>1, <2>2 DEF PipesTyped, Begun
<1>7. ReturnsInv'
  BY <1>0, <1>1 DEF ReturnsInv, LeftOf
<1> QED
  BY <1>2, <1>3, <1>5, <1>6, <1>7 DEF TermInv

LEMMA ShellHolds ==
  ASSUME TermInv, NEW t \in Terms, ShellRuns(t)
  PROVE  TermInv'
<1>0. TermTypes /\ FdsInv /\ CallsInv /\ ReadersInv /\ PipesTyped /\ PipesInv /\ ReturnsInv
  BY TermParts
<1>1. UNCHANGED <<term, masterFd, fdOwner, line, execAt, execTerm, got, spoilt, readAt, readTerm, seized>>
  BY DEF ShellRuns, termState, execState, readState
<1>2. /\ shellIn[t] # <<>>
      /\ shellIn'[t] = Tail(shellIn[t]) /\ shellOut'[t] = Append(shellOut[t], Head(shellIn[t]))
      /\ \A s \in Terms \ {t} : shellIn'[s] = shellIn[s] /\ shellOut'[s] = shellOut[s]
      /\ DOMAIN shellIn' = Terms /\ DOMAIN shellOut' = Terms
  BY <1>0 DEF ShellRuns, TermTypes
<1>3. TermTypes'
  BY <1>0, <1>1, <1>2 DEF TermTypes
<1>4. FdsInv' /\ CallsInv' /\ ReadersInv' /\ ReturnsInv'
  BY <1>0, <1>1 DEF FdsInv, CallsInv, ReadersInv, ReturnsInv, LeftOf
<1>5. ASSUME NEW s \in Terms \ spoilt PROVE PipeInv(s)'
  <2>1. PipeInv(s)
    BY <1>0, <1>5 DEF PipesInv
  <2>2. CASE s # t
    BY <1>1, <1>2, <2>1, <2>2, PipeStays
  <2>3. CASE s = t
    <3>1. PICK e \in Execs :
            /\ execAt[e] = "reading" /\ execTerm[e] = s
            /\ Underway(<<e, "text">>, <<e, "marker">>, shellIn[s], shellOut[s], got[e], seized)
      BY <1>2, <2>1, <2>3 DEF PipeInv
    <3>2. Underway(<<e, "text">>, <<e, "marker">>, shellIn'[s], shellOut'[s], got[e], seized)
      <4> DEFINE a == <<e, "text">>
                 b == <<e, "marker">>
                 in == shellIn[s]
                 out == shellOut[s]
      <4>1. Underway(a, b, in, out, got[e], seized) /\ in # <<>>
        BY <1>2, <2>3, <3>1
      <4>2. shellIn'[s] = Tail(in) /\ shellOut'[s] = Append(out, Head(in))
        BY <1>2, <2>3
      <4> HIDE DEF a, b, in, out
      <4>3. Underway(a, b, Tail(in), Append(out, Head(in)), got[e], seized)
        BY <4>1, UnderwayRuns, Zenon
      <4>4. Underway(a, b, shellIn'[s], shellOut'[s], got[e], seized)
        BY <4>2, <4>3, Zenon
      <4> QED
        BY <4>4 DEF a, b
    <3> QED
      BY <1>1, <3>1, <3>2 DEF PipeInv
  <2> QED
    BY <2>2, <2>3
<1>6. PipesTyped'
  <2>1. \A s \in Terms : PiecesAt(s)' = PiecesAt(s)
    BY <1>1 DEF PiecesAt, Begun
  <2> DEFINE S == PiecesAt(t)
  <2>2. shellIn[t] \in Seq(S) /\ shellOut[t] \in Seq(S)
    BY <1>0 DEF PipesTyped
  <2> HIDE DEF S
  <2>3. shellIn'[t] \in Seq(S) /\ shellOut'[t] \in Seq(S)
    BY <1>2, <2>2, HeadTailProperties, AppendProperties
  <2> QED
    BY <1>0, <1>1, <1>2, <2>1, <2>3 DEF PipesTyped, Begun, S
<1> QED
  BY <1>1, <1>3, <1>4, <1>5, <1>6 DEF TermInv, PipesInv

\* What is left of a pipe, and the pieces that were taken from it.
LEMMA PipeShrinks ==
  ASSUME NEW S, NEW q \in Seq(S), NEW k \in DOMAIN q
  PROVE  SubSeq(q, k + 1, Len(q)) \in Seq(S) /\ \A i \in 1 .. k : i \in DOMAIN q /\ q[i] \in S
<1>1. Len(q) \in Nat /\ DOMAIN q = 1 .. Len(q) /\ \A i \in 1 .. Len(q) : q[i] \in S
  BY LenProperties, ElementOfSeq
<1>2. SubSeq(q, k + 1, Len(q)) \in Seq(S)
  BY <1>1, SubSeqProperties
<1> QED
  BY <1>1, <1>2

\* Only the call that reads has pieces on the way in a session that is not
\* spoilt.
LEMMA PieceOfReader ==
  ASSUME TermInv, NEW s \in Terms, NEW i \in DOMAIN shellOut[s], execTerm[shellOut[s][i][1]] \notin spoilt
  PROVE  LET e == shellOut[s][i][1] IN
         e \in Execs /\ execTerm[e] = s /\ s \notin spoilt /\ execAt[e] = "reading"
<1> DEFINE p == shellOut[s][i]
           e == p[1]
<1>1. p \in PiecesAt(s)
  BY ElementOfSeq, LenProperties DEF TermInv, PipesTyped
<1>2. e \in Execs /\ execTerm[e] = s /\ s \notin spoilt
  BY <1>1 DEF PiecesAt, Pieces
<1>3. PipeInv(s) /\ shellOut[s] # <<>>
  BY <1>2 DEF TermInv, PipesInv
<1>4. PICK x \in Execs :
        /\ execAt[x] = "reading"
        /\ Underway(<<x, "text">>, <<x, "marker">>, shellIn[s], shellOut[s], got[x], seized)
  BY <1>3 DEF PipeInv
<1>5. shellOut[s] \in {<<<<x, "text">>>>, <<<<x, "marker">>>>, <<<<x, "text">>, <<x, "marker">>>>}
  BY <1>3, <1>4 DEF Underway
<1>6. p[1] = x
  <2>1. CASE shellOut[s] = <<<<x, "text">>>>
    BY <2>1
  <2>2. CASE shellOut[s] = <<<<x, "marker">>>>
    BY <2>2
  <2>3. CASE shellOut[s] = <<<<x, "text">>, <<x, "marker">>>>
    <3>1. i \in {1, 2}
      BY <2>3
    <3> QED
      BY <2>3, <3>1
  <2> QED
    BY <1>5, <2>1, <2>2, <2>3
<1> QED
  BY <1>2, <1>4, <1>6

LEMMA ReaderHolds ==
  ASSUME TermInv, NEW r \in Readers, ReadOutput(r)
  PROVE  TermInv'
<1>0. TermTypes /\ FdsInv /\ CallsInv /\ ReadersInv /\ PipesTyped /\ PipesInv /\ ReturnsInv
  BY TermParts
<1> DEFINE t == ReadsFrom(r)
<1>1. UNCHANGED <<term, masterFd, fdOwner, shellIn, line, execAt, execTerm, got, spoilt, readAt, readTerm>>
  BY DEF ReadOutput, termState, execState
<1>2. t \in Terms
  <2>1. readTerm[r] \in Terms /\ masterFd[readTerm[r]] \in Fds
    BY <1>0 DEF ReadOutput, ReadersInv, FdsInv
  <2> QED
    BY <1>0, <2>1 DEF ReadOutput, ReadsFrom, TermTypes
<1>3. PICK k \in DOMAIN shellOut[t] :
        /\ shellOut' = [shellOut EXCEPT ![t] = SubSeq(shellOut[t], k + 1, Len(shellOut[t]))]
        /\ seized' = seized \cup {shellOut[t][i] : i \in 1 .. k}
  BY DEF ReadOutput
<1> HIDE DEF t
<1>4. /\ shellOut'[t] = SubSeq(shellOut[t], k + 1, Len(shellOut[t]))
      /\ \A s \in Terms \ {t} : shellOut'[s] = shellOut[s]
      /\ DOMAIN shellOut' = Terms
  BY <1>0, <1>2, <1>3 DEF TermTypes
<1>5. TermTypes' /\ FdsInv' /\ CallsInv' /\ ReadersInv'
  BY <1>0, <1>1, <1>4 DEF TermTypes, FdsInv, CallsInv, ReadersInv
<1>6. /\ shellOut'[t] \in Seq(PiecesAt(t))
      /\ \A i \in 1 .. k : i \in DOMAIN shellOut[t] /\ shellOut[t][i] \in PiecesAt(t)
  <2> DEFINE S == PiecesAt(t)
  <2>1. shellOut[t] \in Seq(S)
    BY <1>0, <1>2 DEF PipesTyped
  <2> HIDE DEF S
  <2>2. shellOut'[t] \in Seq(S) /\ \A i \in 1 .. k : i \in DOMAIN shellOut[t] /\ shellOut[t][i] \in S
    BY <1>4, <2>1, PipeShrinks
  <2> QED
    BY <2>2 DEF S
<1>7. PipesTyped'
  <2>1. \A s \in Terms : PiecesAt(s)' = PiecesAt(s)
    BY <1>1 DEF PiecesAt, Begun
  <2>2. \A p \in seized' : p \in Pieces /\ Begun(p[1])
    BY <1>0, <1>3, <1>6 DEF PipesTyped, PiecesAt
  <2> QED
    BY <1>0, <1>1, <1>4, <1>6, <2>1, <2>2 DEF PipesTyped, Begun
\* A piece of a session that is not spoilt is taken only from that session.
<1>8. ASSUME NEW e \in Execs, execTerm[e] \notin spoilt, NEW part, <<e, part>> \in seized', <<e, part>> \notin seized
      PROVE  execTerm[e] = t /\ execAt[e] = "reading"
  <2>1. PICK i \in 1 .. k : shellOut[t][i] = <<e, part>>
    BY <1>3, <1>8
  <2>2. i \in DOMAIN shellOut[t] /\ shellOut[t][i][1] = e
    BY <1>6, <2>1
  <2> QED
    BY <1>2, <1>8, <2>2, PieceOfReader
<1>9. seized \subseteq seized'
  BY <1>3
<1>10. ASSUME NEW s \in Terms \ spoilt PROVE PipeInv(s)'
  <2>1. PipeInv(s)
    BY <1>0, <1>10 DEF PipesInv
  <2>2. CASE s # t
    <3>1. \A e \in Execs : execTerm[e] = s =>
            \A part \in {"text", "marker"} : <<e, part>> \in seized' <=> <<e, part>> \in seized
      BY <1>8, <1>9, <1>10, <2>2
    <3>2. shellOut'[s] = shellOut[s]
      BY <1>4, <2>2
    <3> QED
      BY <1>1, <2>1, <3>1, <3>2, PipeStays
  <2>3. CASE s = t
    <3>1. shellOut[s] # <<>>
      BY <1>3, <2>3, EmptySeq
    <3>2. PICK e \in Execs :
            /\ execAt[e] = "reading" /\ execTerm[e] = s
            /\ Underway(<<e, "text">>, <<e, "marker">>, shellIn[s], shellOut[s], got[e], seized)
      BY <2>1, <3>1 DEF PipeInv
    <3>3. \A p : p \in seized' <=> p \in seized \/ \E i \in 1 .. k : shellOut[s][i] = p
      BY <1>3, <2>3
    <3>4. <<e, "text">> # <<e, "marker">>
      OBVIOUS
    <3>5. \/ shellIn[s] = <<>> /\ shellOut'[s] = <<>>
          \/ Underway(<<e, "text">>, <<e, "marker">>, shellIn[s], shellOut'[s], got[e], seized')
      <4> DEFINE a == <<e, "text">>
                 b == <<e, "marker">>
                 in == shellIn[s]
                 out == shellOut[s]
                 rest == SubSeq(out, k + 1, Len(out))
      <4>1. Underway(a, b, in, out, got[e], seized) /\ a # b /\ k \in DOMAIN out
        BY <1>3, <2>3, <3>2, <3>4
      <4>2. shellOut'[s] = rest
        BY <1>4, <2>3
      <4>3. \A p : p \in seized' <=> p \in seized \/ \E i \in 1 .. k : out[i] = p
        BY <3>3
      <4> HIDE DEF a, b, in, out
      <4>4. \A p \in {a, b} : p \in seized' <=> p \in seized \/ \E i \in 1 .. k : out[i] = p
        BY <4>3
      <4>5. (in = <<>> /\ rest = <<>>) \/ Underway(a, b, in, rest, got[e], seized')
        BY <4>1, <4>4, UnderwayTaken, Zenon DEF rest
      <4> HIDE DEF rest
      <4>6. (in = <<>> /\ shellOut'[s] = <<>>) \/ Underway(a, b, in, shellOut'[s], got[e], seized')
        BY <4>2, <4>5, Zenon
      <4> QED
        BY <4>6 DEF a, b, in
    <3> QED
      BY <1>1, <3>2, <3>5 DEF PipeInv
  <2> QED
    BY <2>2, <2>3
<1>11. ReturnsInv'
  <2> SUFFICES ASSUME NEW e \in Execs, execAt[e] = "returned", execTerm[e] \notin spoilt
               PROVE  got[e] = LeftOf(e)'
    BY <1>1 DEF ReturnsInv
  <2>1. got[e] = LeftOf(e)
    BY <1>0 DEF ReturnsInv
  <2>2. <<e, "text">> \in seized' <=> <<e, "text">> \in seized
    BY <1>8, <1>9
  <2> QED
    BY <2>1, <2>2 DEF LeftOf
<1> QED
  BY <1>1, <1>5, <1>7, <1>10, <1>11 DEF TermInv, PipesInv

\* A read() comes or ends.
LEMMA ReaderMoves ==
  ASSUME TermInv, NEW r \in Readers, (\E t \in Terms : Read(r, t)) \/ ReadEnds(r)
  PROVE  TermInv'
<1>0. TermTypes /\ FdsInv /\ CallsInv /\ ReadersInv /\ PipesTyped /\ PipesInv /\ ReturnsInv
  BY TermParts
<1>1. UNCHANGED <<term, masterFd, fdOwner, shellIn, shellOut, line, execAt, execTerm, got, spoilt, seized>>
  BY DEF Read, ReadEnds, termState, execState
<1>2. TermTypes' /\ ReadersInv'
  BY <1>0, <1>1 DEF Read, ReadEnds, TermTypes, ReadersInv
<1>3. FdsInv' /\ CallsInv' /\ ReturnsInv'
  BY <1>0, <1>1 DEF FdsInv, CallsInv, ReturnsInv, LeftOf
<1>4. PipesTyped' /\ PipesInv'
  BY <1>0, <1>1 DEF PipesTyped, PiecesAt, Begun, PipesInv, PipeInv
<1> QED
  BY <1>2, <1>3, <1>4 DEF TermInv

\* A call that goes leaves the line of its session.
LEMMA CallGoes ==
  ASSUME TermInv, NEW e \in Execs, execAt[e] \in {"locking", "reading"},
         NEW how \in {"returned", "failed", "timedOut"}, Leaves(e, how),
         UNCHANGED <<term, execTerm>>
  PROVE  /\ CallsInv'
         /\ execAt' = [execAt EXCEPT ![e] = how] /\ DOMAIN line' = Terms
<1>0. TermTypes /\ CallsInv
  BY DEF TermInv
<1> DEFINE t == execTerm[e]
<1>1. t \in Terms
  BY <1>0 DEF CallsInv
<1>2. /\ execAt' = [execAt EXCEPT ![e] = how]
      /\ line' = [line EXCEPT ![t] = StepOut(line[t], e)]
  BY DEF Leaves
<1>3. /\ OneByOne(Execs, line[t])
      /\ \A x \in Execs : InLine(line[t], x) <=> execAt[x] \in {"locking", "reading"} /\ execTerm[x] = t
  BY <1>0, <1>1 DEF CallsInv
<1> HIDE DEF t
<1>4. /\ OneByOne(Execs, StepOut(line[t], e))
      /\ \A x : InLine(StepOut(line[t], e), x) <=> InLine(line[t], x) /\ x # e
      /\ \A x : First(line[t], x) /\ x # e => First(StepOut(line[t], e), x)
  BY <1>3, LineShrinks
<1>5. /\ DOMAIN line' = Terms /\ line'[t] = StepOut(line[t], e)
      /\ \A s \in Terms \ {t} : line'[s] = line[s]
  BY <1>0, <1>1, <1>2 DEF TermTypes
<1>6. /\ execAt'[e] = how /\ \A x \in Execs \ {e} : execAt'[x] = execAt[x]
      /\ how \notin {"locking", "reading", "new"}
  BY <1>0, <1>2 DEF TermTypes
<1>7. \A s \in Terms : OneByOne(Execs, line'[s])
  BY <1>0, <1>4, <1>5 DEF CallsInv
<1>8. ASSUME NEW s \in Terms, NEW x \in Execs
      PROVE  InLine(line'[s], x) <=> execAt'[x] \in {"locking", "reading"} /\ execTerm[x] = s
  <2>1. CASE s = t
    BY <1>3, <1>4, <1>5, <1>6, <2>1
  <2>2. CASE s # t
    <3>1. InLine(line'[s], x) <=> execAt[x] \in {"locking", "reading"} /\ execTerm[x] = s
      BY <1>0, <1>5, <2>2 DEF CallsInv
    <3>2. execTerm[e] # s
      BY <2>2 DEF t
    <3> QED
      BY <1>6, <3>1, <3>2
  <2> QED
    BY <2>1, <2>2
<1>9. ASSUME NEW x \in Execs, execAt'[x] = "reading" PROVE First(line'[execTerm[x]], x)
  <2>1. x # e /\ execAt[x] = "reading"
    BY <1>6, <1>9
  <2>2. First(line[execTerm[x]], x) /\ execTerm[x] \in Terms
    BY <1>0, <2>1 DEF CallsInv
  <2>3. CASE execTerm[x] = t
    BY <1>4, <1>5, <2>1, <2>2, <2>3
  <2>4. CASE execTerm[x] # t
    BY <1>5, <2>2, <2>4
  <2> QED
    BY <2>3, <2>4
<1>10. ASSUME NEW x \in Execs, execAt'[x] # "new"
       PROVE  execTerm[x] \in Terms /\ term[execTerm[x]] \notin {"new", "creating"}
  <2>1. execAt[x] # "new"
    BY <1>6, <1>10
  <2> QED
    BY <1>0, <2>1 DEF CallsInv
<1> QED
  BY <1>2, <1>5, <1>7, <1>8, <1>9, <1>10 DEF CallsInv

LEMMA ExecHolds ==
  ASSUME TermInv, NEW e \in Execs, NEW t \in Terms, Exec(e, t)
  PROVE  TermInv'
<1>0. TermTypes /\ FdsInv /\ CallsInv /\ ReadersInv /\ PipesTyped /\ PipesInv /\ ReturnsInv
  BY TermParts
<1>1. /\ execAt[e] = "new" /\ term[t] = "open"
      /\ execAt' = [execAt EXCEPT ![e] = "locking"] /\ execTerm' = [execTerm EXCEPT ![e] = t]
      /\ line' = [line EXCEPT ![t] = Append(line[t], e)]
      /\ UNCHANGED <<term, masterFd, fdOwner, shellIn, shellOut, got, spoilt, readAt, readTerm, seized>>
  BY DEF Exec, termState, readState
<1>2. TermTypes' /\ FdsInv' /\ ReadersInv'
  BY <1>0, <1>1 DEF TermTypes, FdsInv, ReadersInv
<1>3. /\ execAt'[e] = "locking" /\ execTerm'[e] = t
      /\ \A x \in Execs \ {e} : execAt'[x] = execAt[x] /\ execTerm'[x] = execTerm[x]
      /\ line'[t] = Append(line[t], e) /\ \A s \in Terms \ {t} : line'[s] = line[s]
  BY <1>0, <1>1 DEF TermTypes
<1>4. \A s \in Terms : OneByOne(Execs, line[s]) /\ ~InLine(line[s], e)
  BY <1>0, <1>1 DEF CallsInv
<1>5. /\ OneByOne(Execs, line'[t])
      /\ \A x : InLine(line'[t], x) <=> InLine(line[t], x) \/ x = e
      /\ \A x : First(line[t], x) => First(line'[t], x)
  BY <1>3, <1>4, LineGrows
<1>6. CallsInv'
  <2>1. \A s \in Terms : OneByOne(Execs, line'[s])
    BY <1>3, <1>4, <1>5
  <2>2. ASSUME NEW s \in Terms, NEW x \in Execs
        PROVE  InLine(line'[s], x) <=> execAt'[x] \in {"locking", "reading"} /\ execTerm'[x] = s
    <3>0. InLine(line[s], x) <=> execAt[x] \in {"locking", "reading"} /\ execTerm[x] = s
      BY <1>0 DEF CallsInv
    <3>1. CASE x = e
      BY <1>3, <1>4, <1>5, <3>1
    <3>2. CASE x # e
      <4>1. InLine(line'[s], x) <=> InLine(line[s], x)
        BY <1>3, <1>5, <3>2
      <4> QED
        BY <1>3, <3>0, <3>2, <4>1
    <3> QED
      BY <3>1, <3>2
  <2>3. ASSUME NEW x \in Execs, execAt'[x] = "reading" PROVE First(line'[execTerm'[x]], x)
    <3>1. x # e /\ execAt[x] = "reading" /\ execTerm'[x] = execTerm[x]
      BY <1>3, <2>3
    <3>2. First(line[execTerm[x]], x) /\ execTerm[x] \in Terms
      BY <1>0, <3>1 DEF CallsInv
    <3> QED
      BY <1>3, <1>5, <3>1, <3>2
  <2>4. ASSUME NEW x \in Execs, execAt'[x] # "new"
        PROVE  execTerm'[x] \in Terms /\ term'[execTerm'[x]] \notin {"new", "creating"}
    BY <1>0, <1>1, <1>3, <2>4 DEF CallsInv
  <2> QED
    BY <2>1, <2>2, <2>3, <2>4 DEF CallsInv
<1>7. PipesInv'
  <2>1. ASSUME NEW s \in Terms \ spoilt PROVE PipeInv(s)'
    <3>1. PipeInv(s)
      BY <1>0, <2>1 DEF PipesInv
    <3>2. \A x \in Execs : execAt[x] = "reading" => execAt'[x] = "reading" /\ execTerm'[x] = execTerm[x]
      BY <1>1, <1>3
    <3> QED
      BY <1>1, <3>1, <3>2, PipeStays
  <2> QED
    BY <1>1, <2>1 DEF PipesInv
<1>8. ReturnsInv'
  BY <1>0, <1>1, <1>3 DEF ReturnsInv, LeftOf
<1>9. PipesTyped'
  <2>1. \A x \in Execs : ~Begun(x)' => ~Begun(x)
    BY <1>1, <1>3 DEF Begun
  <2>2. \A x \in Execs : Begun(x) => Begun(x)' /\ execTerm'[x] = execTerm[x]
    BY <1>1, <1>3 DEF Begun
  <2>3. \A s : \A q \in Seq(PiecesAt(s)) : q \in Seq(PiecesAt(s)')
    BY <1>1, <2>2, PiecesStay
  <2>4. \A p \in Pieces : p[1] \in Execs
    BY DEF Pieces
  <2>5. \A s \in Terms : shellIn'[s] \in Seq(PiecesAt(s)') /\ shellOut'[s] \in Seq(PiecesAt(s)')
    BY <1>0, <1>1, <2>3 DEF PipesTyped
  <2>6. \A p \in seized' : p \in Pieces /\ Begun(p[1])'
    BY <1>0, <1>1, <2>2, <2>4 DEF PipesTyped
  <2>7. \A x \in Execs : ~Begun(x)' => got'[x] = <<>>
    BY <1>0, <1>1, <2>1 DEF PipesTyped
  <2> QED
    BY <2>5, <2>6, <2>7 DEF PipesTyped
<1> QED
  BY <1>2, <1>6, <1>7, <1>8, <1>9 DEF TermInv

\* What a call does to a foreign terminal spoils it, and its own session.
LEMMA SpoilHolds ==
  ASSUME TermInv, NEW e \in Execs, execAt[e] # "new"
  PROVE  /\ execTerm[e] \in Terms
         /\ Reaches(e) \in Terms \cup {NoTerminal} /\ Reaches(e) # NoTerminal => Reaches(e) \in Terms
         /\ Spoil(e) => /\ spoilt' \subseteq Terms /\ spoilt \subseteq spoilt'
                        /\ execTerm[e] \in spoilt'
                        /\ Reaches(e) # NoTerminal => Reaches(e) \in spoilt'
<1>1. execTerm[e] \in Terms /\ masterFd[execTerm[e]] \in Fds
  BY DEF TermInv, CallsInv, FdsInv
<1>2. Reaches(e) \in Terms \cup {NoTerminal}
  BY <1>1 DEF TermInv, TermTypes, Reaches
<1> QED
  BY <1>1, <1>2 DEF Spoil, TermInv, TermTypes

\* The calls that end without an answer.
LEMMA FailureHolds ==
  ASSUME TermInv, NEW e \in Execs, ExecFails(e) \/ GiveUp(e)
  PROVE  TermInv'
<1>0. TermTypes /\ FdsInv /\ CallsInv /\ ReadersInv /\ PipesTyped /\ PipesInv /\ ReturnsInv
  BY TermParts
<1>1. /\ execAt[e] \in {"locking", "reading"}
      /\ IF execAt[e] = "reading" THEN Spoil(e) ELSE UNCHANGED spoilt
      /\ UNCHANGED <<term, masterFd, fdOwner, shellIn, shellOut, execTerm, got, readAt, readTerm, seized>>
  BY DEF ExecFails, GiveUp, termState, readState
<1>2. PICK how \in {"failed", "timedOut"} : Leaves(e, how)
  BY DEF ExecFails, GiveUp
<1>3. CallsInv' /\ execAt' = [execAt EXCEPT ![e] = how] /\ DOMAIN line' = Terms
  BY <1>1, <1>2, CallGoes
<1>4. /\ spoilt' \subseteq Terms /\ spoilt \subseteq spoilt'
      /\ execAt[e] = "reading" => execTerm[e] \in spoilt'
  BY <1>0, <1>1, SpoilHolds DEF TermTypes
<1>5. TermTypes' /\ FdsInv' /\ ReadersInv'
  BY <1>0, <1>1, <1>3, <1>4 DEF TermTypes, FdsInv, ReadersInv
<1>6. execAt'[e] = how /\ \A x \in Execs \ {e} : execAt'[x] = execAt[x]
  BY <1>0, <1>3 DEF TermTypes
<1>7. ASSUME NEW s \in Terms \ spoilt' PROVE PipeInv(s)'
  <2>1. PipeInv(s)
    BY <1>0, <1>4, <1>7 DEF PipesInv
  <2>2. ~(execAt[e] = "reading" /\ execTerm[e] = s)
    BY <1>4, <1>7
  <2> QED
    BY <1>1, <1>6, <2>1, <2>2, PipeStays
<1>8. ReturnsInv'
  BY <1>0, <1>1, <1>4, <1>6 DEF ReturnsInv, LeftOf
<1>9. PipesTyped'
  <2>1. \A x \in Execs : Begun(x) => Begun(x)' /\ execTerm'[x] = execTerm[x]
    BY <1>1, <1>6 DEF Begun
  <2>2. \A s : \A q \in Seq(PiecesAt(s)) : q \in Seq(PiecesAt(s)')
    BY <1>4, <2>1, PiecesStay
  <2>3. \A p \in Pieces : p[1] \in Execs
    BY DEF Pieces
  <2> QED
    BY <1>0, <1>1, <2>1, <2>2, <2>3 DEF PipesTyped
<1> QED
  BY <1>3, <1>5, <1>7, <1>8, <1>9 DEF TermInv, PipesInv

LEMMA WriteHolds ==
  ASSUME TermInv, NEW e \in Execs, WriteCommand(e)
  PROVE  TermInv'
<1>0. TermTypes /\ FdsInv /\ CallsInv /\ ReadersInv /\ PipesTyped /\ PipesInv /\ ReturnsInv
  BY TermParts
<1> DEFINE t == execTerm[e]
<1>r. PICK r : r = Reaches(e)
  OBVIOUS
<1>1. /\ execAt[e] = "locking" /\ Head(line[t]) = e /\ r # NoTerminal
      /\ execAt' = [execAt EXCEPT ![e] = "reading"]
      /\ shellIn' = [shellIn EXCEPT ![r] = shellIn[r] \o OutputOf(e)]
      /\ r # t => Spoil(e)
      /\ r = t => UNCHANGED spoilt
      /\ UNCHANGED <<term, masterFd, fdOwner, shellOut, line, execTerm, got, readAt, readTerm, seized>>
  BY <1>r DEF WriteCommand, PutsCommand, termState, readState
<1>2. t \in Terms /\ r \in Terms
  BY <1>1, <1>r, SpoilHolds
<1>3. /\ spoilt' \subseteq Terms /\ spoilt \subseteq spoilt'
      /\ r # t => t \in spoilt' /\ r \in spoilt'
  BY <1>0, <1>1, <1>r, SpoilHolds DEF TermTypes
<1> HIDE DEF t
<1>4. /\ execAt'[e] = "reading" /\ \A x \in Execs \ {e} : execAt'[x] = execAt[x]
      /\ shellIn'[r] = shellIn[r] \o OutputOf(e) /\ \A s \in Terms \ {r} : shellIn'[s] = shellIn[s]
      /\ DOMAIN shellIn' = Terms
  BY <1>0, <1>1, <1>2 DEF TermTypes
<1>5. TermTypes' /\ FdsInv' /\ ReadersInv'
  BY <1>0, <1>1, <1>3, <1>4 DEF TermTypes, FdsInv, ReadersInv
<1>6. First(line[t], e)
  <2>1. InLine(line[t], e) /\ OneByOne(Execs, line[t])
    BY <1>0, <1>1, <1>2 DEF CallsInv, t
  <2>2. line[t] # <<>>
    BY <2>1, EmptySeq DEF InLine
  <2> QED
    BY <1>1, <2>2 DEF First
<1>7. CallsInv'
  <2>1. \A s \in Terms : \A x \in Execs :
          execAt'[x] \in {"locking", "reading"} /\ execTerm[x] = s <=>
          execAt[x] \in {"locking", "reading"} /\ execTerm[x] = s
    BY <1>1, <1>4
  <2>2. \A x \in Execs : execAt'[x] = "reading" => First(line[execTerm[x]], x)
    BY <1>0, <1>4, <1>6 DEF CallsInv, t
  <2>3. \A x \in Execs : execAt'[x] # "new" => execAt[x] # "new"
    BY <1>1, <1>4
  <2> QED
    BY <1>0, <1>1, <2>1, <2>2, <2>3 DEF CallsInv
<1>8. \A x \in Execs : execAt[x] = "reading" => execTerm[x] # t
  BY <1>0, <1>1, <1>6 DEF CallsInv, First
\* Nothing of the command was ever read before.
<1>9. /\ got[e] = <<>> /\ \A part : <<e, part>> \notin seized
  <2>1. ~Begun(e)
    BY <1>1 DEF Begun
  <2>2. \A part : <<e, part>> \in seized => Begun(<<e, part>>[1])
    BY <1>0 DEF PipesTyped
  <2> QED
    BY <1>0, <2>1, <2>2 DEF PipesTyped
<1>10. ASSUME NEW s \in Terms \ spoilt' PROVE PipeInv(s)'
  <2>1. PipeInv(s)
    BY <1>0, <1>3, <1>10 DEF PipesInv
  <2>2. CASE s = r
    <3>1. s = t
      BY <1>3, <1>10, <2>2
    <3>2. shellIn[s] = <<>> /\ shellOut[s] = <<>>
      BY <1>8, <2>1, <3>1 DEF PipeInv
    <3>3. OutputOf(e) = <<<<e, "text">>, <<e, "marker">>>>
      BY DEF OutputOf
    <3>4. <<>> \o OutputOf(e) = OutputOf(e)
      <4>1. OutputOf(e) \in Seq({<<e, "text">>, <<e, "marker">>})
        BY <3>3
      <4> QED
        BY <4>1
    <3>5. shellIn'[s] = <<<<e, "text">>, <<e, "marker">>>> /\ shellOut'[s] = <<>>
      BY <1>1, <1>4, <2>2, <3>2, <3>3, <3>4, Zenon
    <3>6. Underway(<<e, "text">>, <<e, "marker">>, shellIn'[s], shellOut'[s], got'[e], seized')
      BY <1>1, <1>9, <3>5 DEF Underway
    <3> QED
      BY <1>1, <1>4, <3>1, <3>6 DEF PipeInv, t
  <2>3. CASE s # r
    <3>1. shellIn'[s] = shellIn[s] /\ shellOut'[s] = shellOut[s]
      BY <1>1, <1>4, <2>3
    <3>2. \A x \in Execs : execAt[x] = "reading" => execAt'[x] = "reading" /\ execTerm'[x] = execTerm[x]
      BY <1>1, <1>4
    <3> QED
      BY <1>1, <2>1, <3>1, <3>2, PipeStays
  <2> QED
    BY <2>2, <2>3
<1>11. ReturnsInv'
  BY <1>0, <1>1, <1>3, <1>4 DEF ReturnsInv, LeftOf
<1>12. PipesTyped'
  <2>1. \A x \in Execs : Begun(x) => Begun(x)' /\ execTerm'[x] = execTerm[x]
    BY <1>1, <1>4 DEF Begun
  <2>2. \A s : \A q \in Seq(PiecesAt(s)) : q \in Seq(PiecesAt(s)')
    BY <1>3, <2>1, PiecesStay
  <2>3. \A p \in Pieces : p[1] \in Execs
    BY DEF Pieces
  <2>4. \A part \in {"text", "marker"} : <<e, part>> \in PiecesAt(r)'
    <3>1. Begun(e)' /\ (execTerm'[e] = r \/ execTerm'[e] \in spoilt')
      BY <1>1, <1>3, <1>4 DEF Begun, t
    <3> QED
      BY <3>1 DEF PiecesAt, Pieces
  <2>5. shellIn'[r] \in Seq(PiecesAt(r)')
    <3> DEFINE S == PiecesAt(r)'
               u == OutputOf(e)
    <3>1. u \in Seq(S)
      BY <2>4 DEF OutputOf
    <3>2. shellIn[r] \in Seq(S)
      BY <1>0, <1>2, <2>2 DEF PipesTyped
    <3> HIDE DEF S, u
    <3>3. shellIn[r] \o u \in Seq(S)
      BY <3>1, <3>2, ConcatProperties
    <3> QED
      BY <1>4, <3>3 DEF S, u
  <2>6. \A s \in Terms : shellIn'[s] \in Seq(PiecesAt(s)') /\ shellOut'[s] \in Seq(PiecesAt(s)')
    <3>1. \A s \in Terms \ {r} : shellIn'[s] \in Seq(PiecesAt(s)')
      BY <1>0, <1>4, <2>2 DEF PipesTyped
    <3>2. \A s \in Terms : shellOut'[s] \in Seq(PiecesAt(s)')
      BY <1>0, <1>1, <2>2 DEF PipesTyped
    <3> QED
      BY <2>5, <3>1, <3>2
  <2> QED
    BY <1>0, <1>1, <2>1, <2>3, <2>6 DEF PipesTyped
<1> QED
  BY <1>5, <1>7, <1>10, <1>11, <1>12 DEF TermInv, PipesInv

LEMMA ReadChunkHolds ==
  ASSUME TermInv, NEW e \in Execs, ReadChunk(e)
  PROVE  TermInv'
<1>0. TermTypes /\ FdsInv /\ CallsInv /\ ReadersInv /\ PipesTyped /\ PipesInv /\ ReturnsInv
  BY TermParts
<1> DEFINE t == execTerm[e]
           r == Reaches(e)
           marked == \E i \in DOMAIN got'[e] : got'[e][i][2] = "marker"
<1>1. PICK k \in DOMAIN shellOut[r] :
        /\ got' = [got EXCEPT ![e] = got[e] \o SubSeq(shellOut[r], 1, k)]
        /\ shellOut' = [shellOut EXCEPT ![r] = SubSeq(shellOut[r], k + 1, Len(shellOut[r]))]
  BY DEF ReadChunk
<1>2. /\ execAt[e] = "reading" /\ r # NoTerminal
      /\ r # t => Spoil(e)
      /\ r = t => UNCHANGED spoilt
      /\ marked => Leaves(e, "returned")
      /\ ~marked => UNCHANGED <<execAt, line>>
      /\ UNCHANGED <<term, masterFd, fdOwner, shellIn, execTerm, readAt, readTerm, seized>>
  BY DEF ReadChunk, termState, readState
<1>3. t \in Terms /\ r \in Terms
  BY <1>2, SpoilHolds
<1>4. /\ spoilt' \subseteq Terms /\ spoilt \subseteq spoilt'
      /\ r # t => t \in spoilt' /\ r \in spoilt'
  BY <1>0, <1>2, SpoilHolds DEF TermTypes
<1> HIDE DEF r, marked
<1>5. marked => CallsInv' /\ execAt' = [execAt EXCEPT ![e] = "returned"] /\ DOMAIN line' = Terms
  BY <1>2, CallGoes
<1>6. ~marked => CallsInv' /\ execAt' = execAt /\ DOMAIN line' = Terms
  BY <1>0, <1>2 DEF CallsInv, TermTypes
<1> HIDE DEF t
<1>7. /\ \A x \in Execs \ {e} : execAt'[x] = execAt[x]
      /\ marked => execAt'[e] = "returned"
      /\ ~marked => execAt'[e] = "reading"
  BY <1>0, <1>2, <1>5, <1>6 DEF TermTypes
<1>8. /\ got'[e] = got[e] \o SubSeq(shellOut[r], 1, k) /\ \A x \in Execs \ {e} : got'[x] = got[x]
      /\ shellOut'[r] = SubSeq(shellOut[r], k + 1, Len(shellOut[r]))
      /\ \A s \in Terms \ {r} : shellOut'[s] = shellOut[s]
      /\ DOMAIN got' = Execs /\ DOMAIN shellOut' = Terms
  BY <1>0, <1>1, <1>3 DEF TermTypes
<1>9. TermTypes' /\ FdsInv' /\ ReadersInv'
  <2>1. execAt' \in [Execs -> {"new", "locking", "reading", "returned", "failed", "timedOut"}]
    BY <1>0, <1>5, <1>6 DEF TermTypes
  <2> QED
    BY <1>0, <1>2, <1>4, <1>5, <1>6, <1>8, <2>1 DEF TermTypes, FdsInv, ReadersInv
<1>10. \A x \in Execs : execAt[x] = "reading" /\ execTerm[x] = t => x = e
  BY <1>0, <1>2, <1>3 DEF CallsInv, First, t
<1>11. ASSUME t \notin spoilt'
       PROVE  /\ r = t
              /\ marked => shellIn'[t] = <<>> /\ shellOut'[t] = <<>> /\ got'[e] = LeftOf(e)'
              /\ ~marked => Underway(<<e, "text">>, <<e, "marker">>, shellIn'[t], shellOut'[t], got'[e], seized')
  <2>1. r = t /\ PipeInv(t)
    BY <1>0, <1>3, <1>4, <1>11 DEF PipesInv
  <2> DEFINE a == <<e, "text">>
             b == <<e, "marker">>
             in == shellIn[t]
             out == shellOut[t]
             rest == SubSeq(out, k + 1, Len(out))
             more == got[e] \o SubSeq(out, 1, k)
  <2>2. out # <<>>
    BY <1>1, <2>1, EmptySeq
  <2>3. Underway(a, b, in, out, got[e], seized)
    BY <1>10, <2>1, <2>2 DEF PipeInv
  <2>4. a # b /\ a[2] # "marker" /\ b[2] = "marker" /\ k \in DOMAIN out
    BY <1>1, <2>1
  <2>5. shellIn'[t] = in /\ shellOut'[t] = rest /\ got'[e] = more /\ seized' = seized
    BY <1>2, <1>8, <2>1
  <2>6. LeftOf(e)' = IF a \in seized THEN <<b>> ELSE <<a, b>>
    BY <2>5 DEF LeftOf, OutputOf
  <2> HIDE DEF a, b, in, out
  <2>7. LET over == \E i \in DOMAIN more : more[i][2] = "marker" IN
        /\ over => in = <<>> /\ rest = <<>> /\ more = IF a \in seized THEN <<b>> ELSE <<a, b>>
        /\ ~over => Underway(a, b, in, rest, more, seized)
    BY <2>3, <2>4, UnderwayRead, Zenon DEF rest, more
  <2> HIDE DEF rest, more
  <2>8. marked <=> \E i \in DOMAIN more : more[i][2] = "marker"
    BY <2>5 DEF marked
  <2>9. /\ marked => shellIn'[t] = <<>> /\ shellOut'[t] = <<>> /\ got'[e] = LeftOf(e)'
        /\ ~marked => Underway(a, b, shellIn'[t], shellOut'[t], got'[e], seized')
    BY <2>5, <2>6, <2>7, <2>8, Zenon
  <2> QED
    BY <2>1, <2>9 DEF a, b
<1>12. ASSUME NEW s \in Terms \ spoilt' PROVE PipeInv(s)'
  <2>1. CASE s = t
    BY <1>2, <1>7, <1>11, <1>12, <2>1 DEF PipeInv, t
  <2>2. CASE s # t
    <3>1. s # r /\ PipeInv(s)
      BY <1>0, <1>4, <1>12, <2>2 DEF PipesInv
    <3>2. shellIn'[s] = shellIn[s] /\ shellOut'[s] = shellOut[s]
      BY <1>2, <1>8, <1>12, <3>1
    <3>3. \A x \in Execs : execAt[x] = "reading" /\ execTerm[x] = s =>
                             execAt'[x] = "reading" /\ execTerm'[x] = s /\ got'[x] = got[x]
      BY <1>2, <1>7, <1>8, <2>2 DEF t
    <3> QED
      BY <1>2, <3>1, <3>2, <3>3, PipeStays
  <2> QED
    BY <2>1, <2>2
<1>13. ASSUME NEW x \in Execs, execAt'[x] = "returned", execTerm'[x] \notin spoilt'
       PROVE  got'[x] = LeftOf(x)'
  <2>1. CASE x = e
    BY <1>2, <1>7, <1>11, <1>13, <2>1 DEF t
  <2>2. CASE x # e
    BY <1>0, <1>2, <1>4, <1>7, <1>8, <1>13, <2>2 DEF ReturnsInv, LeftOf
  <2> QED
    BY <2>1, <2>2
<1>14. PipesTyped'
  <2>1. \A x \in Execs : /\ Begun(x) <=> Begun(x)'
                        /\ execTerm'[x] = execTerm[x]
    BY <1>2, <1>7 DEF Begun
  <2>2. \A s : \A q \in Seq(PiecesAt(s)) : q \in Seq(PiecesAt(s)')
    BY <1>4, <2>1, PiecesStay
  <2>3. \A p \in Pieces : p[1] \in Execs
    BY DEF Pieces
  <2>4. shellOut'[r] \in Seq(PiecesAt(r))
    <3> DEFINE S == PiecesAt(r)
    <3>1. shellOut[r] \in Seq(S)
      BY <1>0, <1>3 DEF PipesTyped
    <3> HIDE DEF S
    <3>2. shellOut'[r] \in Seq(S)
      BY <1>8, <3>1, PipeShrinks
    <3> QED
      BY <3>2 DEF S
  <2>5. \A s \in Terms : shellIn'[s] \in Seq(PiecesAt(s)') /\ shellOut'[s] \in Seq(PiecesAt(s)')
    <3>1. \A s \in Terms : shellIn'[s] \in Seq(PiecesAt(s)')
      BY <1>0, <1>2, <2>2 DEF PipesTyped
    <3>2. \A s \in Terms : shellOut'[s] \in Seq(PiecesAt(s)')
      BY <1>0, <1>8, <2>2, <2>4 DEF PipesTyped
    <3> QED
      BY <3>1, <3>2
  <2>6. \A x \in Execs : ~Begun(x)' => got'[x] = <<>>
    BY <1>0, <1>2, <1>8, <2>1 DEF PipesTyped, Begun
  <2> QED
    BY <1>0, <1>2, <2>1, <2>3, <2>5, <2>6 DEF PipesTyped
<1> QED
  BY <1>5, <1>6, <1>9, <1>12, <1>13, <1>14 DEF TermInv, PipesInv, ReturnsInv

LEMMA TermStep == TermInv /\ [TermNext]_termVars => TermInv'
<1>1. ASSUME TermInv, UNCHANGED termVars PROVE TermInv'
  <2>1. UNCHANGED <<term, masterFd, fdOwner, shellIn, shellOut, line, execAt, execTerm, got, spoilt,
                    readAt, readTerm, seized>>
    BY <1>1 DEF termVars, termState, execState, readState
  <2>2. TermTypes' /\ FdsInv' /\ CallsInv' /\ ReadersInv'
    BY <1>1, <2>1 DEF TermInv, TermTypes, FdsInv, CallsInv, ReadersInv
  <2>3. PipesTyped'
    BY <1>1, <2>1 DEF TermInv, PipesTyped, PiecesAt, Begun
  <2>4. PipesInv'
    BY <1>1, <2>1 DEF TermInv, PipesInv, PipeInv
  <2>5. ReturnsInv'
    BY <1>1, <2>1 DEF TermInv, ReturnsInv, LeftOf
  <2> QED
    BY <2>2, <2>3, <2>4, <2>5 DEF TermInv
<1> QED
  BY <1>1, SessionHolds, ShellHolds, ExecHolds, WriteHolds, FailureHolds, ReadChunkHolds, ReaderHolds, ReaderMoves
     DEF TermNext

LEMMA TermHolds == TermInv => AnswersMatch
<1>1. ASSUME TermInv, NEW t \in Terms, term[t] \in {"open", "closing"}
      PROVE  fdOwner[masterFd[t]] = t
  BY <1>1 DEF TermInv, FdsInv
<1>2. ASSUME TermInv, NEW e \in Execs, execAt[e] \in {"locking", "reading"},
             term[execTerm[e]] \in {"open", "closing"}
      PROVE  Reaches(e) = execTerm[e]
  BY <1>1, <1>2 DEF TermInv, CallsInv, Reaches
<1>3. ASSUME TermInv, NEW r \in Readers, readAt[r] = "reading", term[readTerm[r]] \in {"open", "closing"}
      PROVE  ReadsFrom(r) = readTerm[r]
  BY <1>1, <1>3 DEF TermInv, ReadersInv, ReadsFrom
<1> QED
  BY <1>2, <1>3 DEF TermInv, ReturnsInv, AnswersMatch

(***************************************************************************)
(* A call returns the output of its own command, without what a read() of  *)
(* the same session took from it, as long as no call of the session broke  *)
(* off, for any number of terminals, calls and reads.                      *)
(***************************************************************************)
THEOREM TerminalsHold == TermSpec => [](AnswersMatch)
<1>1. TermSpec => []TermInv
  BY TermStart, TermStep, PTL DEF TermSpec
<1> QED
  BY <1>1, TermHolds, PTL
-----------------------------------------------------------------------------
(***************************************************************************)
(* Messages on the wire: their parts reach the model in what each adapter  *)
(* sends, and results go with the calls they answer.                       *)
(***************************************************************************)

Parts == [type : PartTypes, n : Nat]
Texts(types) == Only(AllParts, Those(types))

WireRoles == {"system", "user", "assistant", "tool"}

\* The messages that are spoken with the number n: what a conversation is made
\* of.  A result answers a call without one.
Said(n) ==
  {Message("system", <<PartOf("system", n)>>),
   Message("user", <<PartOf("text", n)>>),
   Message("user", <<PartOf("text", n), PartOf("image", n + 1)>>),
   Message("user", <<PartOf("text", n), PartOf("file", n + 1)>>),
   Message("assistant", <<PartOf("text", n)>>),
   Message("assistant", <<PartOf("text", n), PartOf("tool-call", n + 1)>>),
   Message("assistant", <<PartOf("tool-call", n), PartOf("tool-call", n + 1)>>)}

ToolAnswer(n) == Message("tool", <<PartOf("tool-result", n)>>)

Utterances == {ToolAnswer(n) : n \in Nat} \cup (UNION {Said(n) : n \in Nat})

LEMMA PartsTyped ==
  ASSUME NEW n \in Nat, NEW type \in PartTypes
  PROVE  /\ PartOf(type, n) \in Parts
         /\ \A types \in SUBSET PartTypes : PartOf(type, n) \in Those(types) <=> type \in types
<1>1. PartOf(type, n) \in Parts
  BY DEF PartOf, Parts
<1>2. ASSUME NEW types \in SUBSET PartTypes
      PROVE  PartOf(type, n) \in Those(types) <=> type \in types
  BY DEF PartOf, Those
<1> QED
  BY <1>1, <1>2

\* What is kept of messages of one and of two parts.
LEMMA KeptOfOne ==
  ASSUME NEW n \in Nat, NEW type \in PartTypes, NEW types \in SUBSET PartTypes
  PROVE  LET p == PartOf(type, n) IN
         Only(<<p>>, Those(types)) = IF type \in types THEN <<p>> ELSE <<>>
<1> DEFINE p == PartOf(type, n)
<1>1. p \in Parts /\ (p \in Those(types) <=> type \in types)
  BY PartsTyped
<1> HIDE DEF p
<1>2. Only(<<p>>, Those(types)) = IF p \in Those(types) THEN <<p>> ELSE <<>>
  BY <1>1, OnlyFew
<1>3. Only(<<p>>, Those(types)) = IF type \in types THEN <<p>> ELSE <<>>
  BY <1>1, <1>2
<1> QED
  BY <1>3 DEF p

LEMMA KeptOfTwo ==
  ASSUME NEW n \in Nat, NEW type \in PartTypes, NEW m \in Nat, NEW kind \in PartTypes,
         NEW types \in SUBSET PartTypes
  PROVE  LET p == PartOf(type, n)
             q == PartOf(kind, m) IN
         Only(<<p, q>>, Those(types)) =
           IF type \in types THEN IF kind \in types THEN <<p, q>> ELSE <<p>>
           ELSE IF kind \in types THEN <<q>> ELSE <<>>
<1> DEFINE p == PartOf(type, n)
           q == PartOf(kind, m)
<1>1. p \in Parts /\ (p \in Those(types) <=> type \in types)
  BY PartsTyped
<1>2. q \in Parts /\ (q \in Those(types) <=> kind \in types)
  BY PartsTyped
<1> HIDE DEF p, q
<1>3. Only(<<p, q>>, Those(types)) = IF p \in Those(types) THEN IF q \in Those(types) THEN <<p, q>> ELSE <<p>>
                                     ELSE IF q \in Those(types) THEN <<q>> ELSE <<>>
  BY <1>1, <1>2, OnlyFew
<1>4. Only(<<p, q>>, Those(types)) = IF type \in types THEN IF kind \in types THEN <<p, q>> ELSE <<p>>
                                     ELSE IF kind \in types THEN <<q>> ELSE <<>>
  BY <1>1, <1>2, <1>3
<1> QED
  BY <1>4 DEF p, q

TypeSets == {TextTypes, {"text", "image"}, {"tool-call"}, {"tool-result"}, {"text", "image", "file"},
             {"text", "tool-call"}, {"text"}, {"system"}, PartTypes \ {"file"}, PartTypes \ {"system"}}

LEMMA TypeSetsTyped == TypeSets \subseteq SUBSET PartTypes
BY DEF TypeSets, PartTypes, TextTypes

Entries == [role : WireRoles, parts : Seq(Parts)]

\* What becomes of an utterance: it is one entry, none with anthropic for the
\* system's, and what the entry carries is what must be seen of its parts.
Carries(m) ==
  /\ m.parts \in Seq(Parts) /\ m.role \in WireRoles
  /\ \E e \in Entries :
       /\ ChatEntries(m) = <<e>> /\ e.parts = Only(m.parts, Those(PartTypes \ {"file"})) /\ e.role = m.role
  /\ m.role \in {"assistant", "tool"} => Only(m.parts, Those(PartTypes \ {"file"})) = m.parts
  /\ m.role = "system" =>
       /\ Content(m) = m.parts /\ AnthropicEntries(m) = <<>>
       /\ Only(m.parts, Those({"system"})) = m.parts /\ Only(m.parts, Those(PartTypes \ {"system"})) = <<>>
  /\ m.role # "system" =>
       /\ \E e \in Entries :
            AnthropicEntries(m) = <<e>> /\ e.parts = m.parts /\ e.role = IF m.role = "tool" THEN "user" ELSE m.role
       /\ Only(m.parts, Those({"system"})) = <<>> /\ Only(m.parts, Those(PartTypes \ {"system"})) = m.parts
  /\ \E e \in Entries : ResponsesEntry(m) = e /\ Only(e.parts, Those({"text"})) = Only(m.parts, Those({"text"}))
  /\ \E e \in Entries : OldMessage(m) = e /\ Only(e.parts, Those({"text"})) = Only(m.parts, Those({"text"}))

LEMMA SystemCarries ==
  ASSUME NEW n \in Nat
  PROVE  Carries(Message("system", <<PartOf("system", n)>>))
<1> DEFINE p == PartOf("system", n)
           ps == <<p>>
           m == Message("system", ps)
<1>1. "system" \in PartTypes /\ p \in Parts /\ p.type = "system"
  BY PartsTyped DEF PartTypes, TextTypes, PartOf
<1>2. \A types \in TypeSets : Only(ps, Those(types)) = IF "system" \in types THEN ps ELSE <<>>
  BY <1>1, KeptOfOne, TypeSetsTyped
<1>3. ps \in Seq(Parts) /\ <<>> \in Seq(Parts) /\ DOMAIN ps = {1} /\ ps[1] = p
  BY <1>1
<1>4. m.role = "system" /\ m.parts = ps
  BY DEF Message
<1> HIDE DEF p, ps
<1>5. /\ Only(ps, Those(TextTypes)) = ps /\ Only(ps, Those(PartTypes \ {"file"})) = ps
      /\ Only(ps, Those({"system"})) = ps /\ Only(ps, Those(PartTypes \ {"system"})) = <<>>
      /\ Only(ps, Those({"text"})) = <<>> /\ Only(ps, Those({"text", "tool-call"})) = <<>>
  BY <1>2 DEF TypeSets, TextTypes, PartTypes
<1>6. Only(<<>>, Those({"text"})) = <<>>
  BY OnlyFew
<1>7. Content(m) = ps
  BY <1>4, <1>5 DEF Content
<1> HIDE DEF m
<1>8. ChatEntries(m) = <<Entry("system", ps)>> /\ AnthropicEntries(m) = <<>>
  BY <1>4, <1>7 DEF ChatEntries, AnthropicEntries
<1>9. ResponsesEntry(m) = Entry("system", ps)
  BY <1>1, <1>3, <1>4, <1>7 DEF ResponsesEntry, IsMedium
<1>10. OldMessage(m) = Entry("system", <<>>)
  BY <1>4, <1>5 DEF OldMessage
<1>11. Entry("system", ps) \in Entries /\ Entry("system", <<>>) \in Entries
  BY <1>3 DEF Entry, Entries, WireRoles
<1>12. Entry("system", ps).parts = ps /\ Entry("system", <<>>).parts = <<>> /\ Entry("system", ps).role = "system"
  BY DEF Entry
<1>13. Carries(m)
  BY <1>3, <1>4, <1>5, <1>6, <1>7, <1>8, <1>9, <1>10, <1>11, <1>12 DEF Carries, WireRoles
<1> QED
  BY <1>13 DEF m, ps, p

LEMMA TextCarries ==
  ASSUME NEW n \in Nat
  PROVE  Carries(Message("user", <<PartOf("text", n)>>))
<1> DEFINE p == PartOf("text", n)
           ps == <<p>>
           m == Message("user", ps)
<1>1. "text" \in PartTypes /\ p \in Parts /\ p.type = "text"
  BY PartsTyped DEF PartTypes, TextTypes, PartOf
<1>2. \A types \in TypeSets : Only(ps, Those(types)) = IF "text" \in types THEN ps ELSE <<>>
  BY <1>1, KeptOfOne, TypeSetsTyped
<1>3. ps \in Seq(Parts) /\ <<>> \in Seq(Parts) /\ DOMAIN ps = {1} /\ ps[1] = p
  BY <1>1
<1>4. m.role = "user" /\ m.parts = ps
  BY DEF Message
<1>5. ps \o <<>> = ps /\ <<>> \o ps = ps
  <2>1. ps \o <<>> = ps /\ <<>> \o ps = ps
    BY <1>3, ConcatEmptySeq
  <2> QED
    BY <2>1
<1>6. Only(<<>>, Those({"text"})) = <<>>
  BY OnlyFew
<1> HIDE DEF p, ps
<1>7. /\ Only(ps, Those(TextTypes)) = ps
      /\ Only(ps, Those({"text", "image"})) = ps
      /\ Only(ps, Those({"tool-call"})) = <<>>
      /\ Only(ps, Those({"tool-result"})) = <<>>
      /\ Only(ps, Those({"text", "image", "file"})) = ps
      /\ Only(ps, Those({"text", "tool-call"})) = ps
      /\ Only(ps, Those({"text"})) = ps
      /\ Only(ps, Those({"system"})) = <<>>
      /\ Only(ps, Those(PartTypes \ {"file"})) = ps
      /\ Only(ps, Those(PartTypes \ {"system"})) = ps
  BY <1>2 DEF TypeSets, TextTypes, PartTypes
<1>8. Content(m) = ps
  BY <1>4, <1>7 DEF Content
<1> HIDE DEF m
<1>9. ChatEntries(m) = <<Entry("user", ps)>> /\ AnthropicEntries(m) = <<Entry("user", ps)>>
  BY <1>4, <1>7 DEF ChatEntries, AnthropicEntries, SerializeUser
<1>10. ResponsesEntry(m) = Entry("user", ps)
  BY <1>1, <1>3, <1>4, <1>8 DEF ResponsesEntry, IsMedium
<1>11. OldMessage(m) = Entry("user", ps)
  BY <1>4, <1>7 DEF OldMessage
<1>12. /\ Entry("user", ps) \in Entries /\ Entry("user", ps).parts = ps /\ Entry("user", ps).role = "user"
  BY <1>3 DEF Entry, Entries, WireRoles
<1>13. Carries(m)
  BY <1>3, <1>4, <1>6, <1>7, <1>9, <1>10, <1>11, <1>12 DEF Carries, WireRoles
<1> QED
  BY <1>13 DEF m, ps, p

LEMMA AnswerCarries ==
  ASSUME NEW n \in Nat
  PROVE  Carries(Message("assistant", <<PartOf("text", n)>>))
<1> DEFINE p == PartOf("text", n)
           ps == <<p>>
           m == Message("assistant", ps)
<1>1. "text" \in PartTypes /\ p \in Parts /\ p.type = "text"
  BY PartsTyped DEF PartTypes, TextTypes, PartOf
<1>2. \A types \in TypeSets : Only(ps, Those(types)) = IF "text" \in types THEN ps ELSE <<>>
  BY <1>1, KeptOfOne, TypeSetsTyped
<1>3. ps \in Seq(Parts) /\ <<>> \in Seq(Parts) /\ DOMAIN ps = {1} /\ ps[1] = p
  BY <1>1
<1>4. m.role = "assistant" /\ m.parts = ps
  BY DEF Message
<1>5. ps \o <<>> = ps /\ <<>> \o ps = ps
  <2>1. ps \o <<>> = ps /\ <<>> \o ps = ps
    BY <1>3, ConcatEmptySeq
  <2> QED
    BY <2>1
<1>6. Only(<<>>, Those({"text"})) = <<>>
  BY OnlyFew
<1> HIDE DEF p, ps
<1>7. /\ Only(ps, Those(TextTypes)) = ps
      /\ Only(ps, Those({"text", "image"})) = ps
      /\ Only(ps, Those({"tool-call"})) = <<>>
      /\ Only(ps, Those({"tool-result"})) = <<>>
      /\ Only(ps, Those({"text", "image", "file"})) = ps
      /\ Only(ps, Those({"text", "tool-call"})) = ps
      /\ Only(ps, Those({"text"})) = ps
      /\ Only(ps, Those({"system"})) = <<>>
      /\ Only(ps, Those(PartTypes \ {"file"})) = ps
      /\ Only(ps, Those(PartTypes \ {"system"})) = ps
  BY <1>2 DEF TypeSets, TextTypes, PartTypes
<1>8. Content(m) = ps
  BY <1>4, <1>7 DEF Content
<1> HIDE DEF m
<1>9. ChatEntries(m) = <<Entry("assistant", ps)>> /\ AnthropicEntries(m) = <<Entry("assistant", ps)>>
  BY <1>4, <1>5, <1>7, <1>8 DEF ChatEntries, AnthropicEntries, SerializeAssistant
<1>10. ResponsesEntry(m) = Entry("assistant", ps)
  BY <1>1, <1>3, <1>4, <1>8 DEF ResponsesEntry, IsMedium
<1>11. OldMessage(m) = Entry("assistant", ps)
  BY <1>4, <1>7 DEF OldMessage
<1>12. /\ Entry("assistant", ps) \in Entries /\ Entry("assistant", ps).parts = ps /\ Entry("assistant", ps).role = "assistant"
  BY <1>3 DEF Entry, Entries, WireRoles
<1>13. Carries(m)
  BY <1>3, <1>4, <1>6, <1>7, <1>9, <1>10, <1>11, <1>12 DEF Carries, WireRoles
<1> QED
  BY <1>13 DEF m, ps, p

LEMMA ResultCarries ==
  ASSUME NEW n \in Nat
  PROVE  Carries(Message("tool", <<PartOf("tool-result", n)>>))
<1> DEFINE p == PartOf("tool-result", n)
           ps == <<p>>
           m == Message("tool", ps)
<1>1. "tool-result" \in PartTypes /\ p \in Parts /\ p.type = "tool-result"
  BY PartsTyped DEF PartTypes, TextTypes, PartOf
<1>2. \A types \in TypeSets : Only(ps, Those(types)) = IF "tool-result" \in types THEN ps ELSE <<>>
  BY <1>1, KeptOfOne, TypeSetsTyped
<1>3. ps \in Seq(Parts) /\ <<>> \in Seq(Parts) /\ DOMAIN ps = {1} /\ ps[1] = p
  BY <1>1
<1>4. m.role = "tool" /\ m.parts = ps
  BY DEF Message
<1>5. ps \o <<>> = ps /\ <<>> \o ps = ps
  <2>1. ps \o <<>> = ps /\ <<>> \o ps = ps
    BY <1>3, ConcatEmptySeq
  <2> QED
    BY <2>1
<1>6. Only(<<>>, Those({"text"})) = <<>>
  BY OnlyFew
<1> HIDE DEF p, ps
<1>7. /\ Only(ps, Those(TextTypes)) = <<>>
      /\ Only(ps, Those({"text", "image"})) = <<>>
      /\ Only(ps, Those({"tool-call"})) = <<>>
      /\ Only(ps, Those({"tool-result"})) = ps
      /\ Only(ps, Those({"text", "image", "file"})) = <<>>
      /\ Only(ps, Those({"text", "tool-call"})) = <<>>
      /\ Only(ps, Those({"text"})) = <<>>
      /\ Only(ps, Those({"system"})) = <<>>
      /\ Only(ps, Those(PartTypes \ {"file"})) = ps
      /\ Only(ps, Those(PartTypes \ {"system"})) = ps
  BY <1>2 DEF TypeSets, TextTypes, PartTypes
<1>8. Content(m) = <<>>
  BY <1>4, <1>7 DEF Content
<1> HIDE DEF m
<1>9. ChatEntries(m) = <<Entry("tool", ps)>> /\ AnthropicEntries(m) = <<Entry("user", ps)>>
  <2>1. \A r : ResultEntries(r, m) = [k \in DOMAIN ps |-> Entry(r, <<ps[k]>>)]
    BY <1>4, <1>7 DEF ResultEntries
  <2>2. \A r : ResultEntries(r, m) = [k \in {1} |-> Entry(r, ps)]
    BY <1>3, <2>1 DEF ps
  <2>3. \A e : [k \in {1} |-> e] = <<e>>
    OBVIOUS
  <2>4. \A r : ResultEntries(r, m) = <<Entry(r, ps)>>
    BY <2>2, <2>3
  <2> QED
    BY <1>4, <2>4 DEF ChatEntries, AnthropicEntries
<1>10. ResponsesEntry(m) = Entry("tool", <<>>)
  BY <1>1, <1>3, <1>4, <1>8 DEF ResponsesEntry, IsMedium
<1>11. OldMessage(m) = Entry("tool", <<>>)
  BY <1>4, <1>7 DEF OldMessage
<1>12. /\ Entry("tool", ps) \in Entries /\ Entry("tool", ps).parts = ps /\ Entry("tool", ps).role = "tool"
       /\ Entry("user", ps) \in Entries /\ Entry("user", ps).parts = ps /\ Entry("user", ps).role = "user"
       /\ Entry("tool", <<>>) \in Entries /\ Entry("tool", <<>>).parts = <<>> /\ Entry("tool", <<>>).role = "tool"
  BY <1>3 DEF Entry, Entries, WireRoles
<1>13. Carries(m)
  BY <1>3, <1>4, <1>6, <1>7, <1>9, <1>10, <1>11, <1>12 DEF Carries, WireRoles
<1> QED
  BY <1>13 DEF m, ps, p

LEMMA ImageCarries ==
  ASSUME NEW n \in Nat
  PROVE  Carries(Message("user", <<PartOf("text", n), PartOf("image", n + 1)>>))
<1> DEFINE p == PartOf("text", n)
           q == PartOf("image", n + 1)
           ps == <<p, q>>
           m == Message("user", ps)
<1>1. /\ "text" \in PartTypes /\ p \in Parts /\ p.type = "text"
      /\ "image" \in PartTypes /\ q \in Parts /\ q.type = "image" /\ n + 1 \in Nat
  <2>1. "text" \in PartTypes /\ "image" \in PartTypes
    BY DEF PartTypes, TextTypes
  <2>2. n + 1 \in Nat
    OBVIOUS
  <2>3. p \in Parts /\ p.type = "text"
    BY <2>1, PartsTyped DEF PartOf
  <2>4. q \in Parts /\ q.type = "image"
    BY <2>1, <2>2, PartsTyped DEF PartOf
  <2> QED
    BY <2>1, <2>2, <2>3, <2>4
<1>2. \A types \in TypeSets : Only(ps, Those(types)) =
        IF "text" \in types THEN IF "image" \in types THEN ps ELSE <<p>>
        ELSE IF "image" \in types THEN <<q>> ELSE <<>>
  <2> SUFFICES ASSUME NEW types \in TypeSets
               PROVE  Only(ps, Those(types)) =
                        IF "text" \in types THEN IF "image" \in types THEN ps ELSE <<p>>
                        ELSE IF "image" \in types THEN <<q>> ELSE <<>>
    OBVIOUS
  <2>1. types \in SUBSET PartTypes
    BY TypeSetsTyped
  <2>2. n \in Nat /\ n + 1 \in Nat /\ "text" \in PartTypes /\ "image" \in PartTypes
    BY <1>1
  <2> QED
    BY ONLY <2>1, <2>2, KeptOfTwo
<1>3. /\ ps \in Seq(Parts) /\ <<p>> \in Seq(Parts) /\ <<>> \in Seq(Parts)
      /\ DOMAIN ps = {1, 2} /\ ps[1] = p /\ ps[2] = q
  BY <1>1
<1>4. m.role = "user" /\ m.parts = ps
  BY DEF Message
<1>5. ps \o <<>> = ps /\ <<>> \o ps = ps /\ <<p>> \o <<q>> = ps
  <2>1. ps \o <<>> = ps /\ <<>> \o ps = ps
    BY <1>3, ConcatEmptySeq
  <2>2. <<p>> \o <<q>> = ps
    BY <1>1, TwoItems
  <2> QED
    BY <2>1, <2>2
<1>6. Only(<<>>, Those({"text"})) = <<>> /\ Only(<<p>>, Those({"text"})) = <<p>>
  <2>1. Only(<<>>, Those({"text"})) = <<>>
    BY OnlyFew
  <2>2. {"text"} \in SUBSET PartTypes
    BY DEF PartTypes, TextTypes
  <2>3. Only(<<p>>, Those({"text"})) = <<p>>
    BY <1>1, <2>2, KeptOfOne
  <2> QED
    BY <2>1, <2>3
<1> HIDE DEF p, q, ps
<1>7. /\ Only(ps, Those(TextTypes)) = <<p>>
      /\ Only(ps, Those({"text", "image"})) = ps
      /\ Only(ps, Those({"tool-call"})) = <<>>
      /\ Only(ps, Those({"tool-result"})) = <<>>
      /\ Only(ps, Those({"text", "image", "file"})) = ps
      /\ Only(ps, Those({"text", "tool-call"})) = <<p>>
      /\ Only(ps, Those({"text"})) = <<p>>
      /\ Only(ps, Those({"system"})) = <<>>
      /\ Only(ps, Those(PartTypes \ {"file"})) = ps
      /\ Only(ps, Those(PartTypes \ {"system"})) = ps
  BY <1>2 DEF TypeSets, TextTypes, PartTypes
<1>8. Content(m) = <<p>>
  BY <1>4, <1>7 DEF Content
<1> HIDE DEF m
<1>9. ChatEntries(m) = <<Entry("user", ps)>> /\ AnthropicEntries(m) = <<Entry("user", ps)>>
  BY <1>4, <1>7 DEF ChatEntries, AnthropicEntries, SerializeUser
<1>10. ResponsesEntry(m) = Entry("user", ps)
  BY <1>1, <1>3, <1>4, <1>8 DEF ResponsesEntry, IsMedium
<1>11. OldMessage(m) = Entry("user", <<p>>)
  BY <1>4, <1>7 DEF OldMessage
<1>12. /\ Entry("user", ps) \in Entries /\ Entry("user", ps).parts = ps /\ Entry("user", ps).role = "user"
       /\ Entry("user", <<p>>) \in Entries /\ Entry("user", <<p>>).parts = <<p>> /\ Entry("user", <<p>>).role = "user"
  BY <1>3 DEF Entry, Entries, WireRoles
<1>13. Carries(m)
  BY <1>3, <1>4, <1>6, <1>7, <1>9, <1>10, <1>11, <1>12 DEF Carries, WireRoles
<1> QED
  BY <1>13 DEF m, ps, p, q

LEMMA FileCarries ==
  ASSUME NEW n \in Nat
  PROVE  Carries(Message("user", <<PartOf("text", n), PartOf("file", n + 1)>>))
<1> DEFINE p == PartOf("text", n)
           q == PartOf("file", n + 1)
           ps == <<p, q>>
           m == Message("user", ps)
<1>1. /\ "text" \in PartTypes /\ p \in Parts /\ p.type = "text"
      /\ "file" \in PartTypes /\ q \in Parts /\ q.type = "file" /\ n + 1 \in Nat
  <2>1. "text" \in PartTypes /\ "file" \in PartTypes
    BY DEF PartTypes, TextTypes
  <2>2. n + 1 \in Nat
    OBVIOUS
  <2>3. p \in Parts /\ p.type = "text"
    BY <2>1, PartsTyped DEF PartOf
  <2>4. q \in Parts /\ q.type = "file"
    BY <2>1, <2>2, PartsTyped DEF PartOf
  <2> QED
    BY <2>1, <2>2, <2>3, <2>4
<1>2. \A types \in TypeSets : Only(ps, Those(types)) =
        IF "text" \in types THEN IF "file" \in types THEN ps ELSE <<p>>
        ELSE IF "file" \in types THEN <<q>> ELSE <<>>
  <2> SUFFICES ASSUME NEW types \in TypeSets
               PROVE  Only(ps, Those(types)) =
                        IF "text" \in types THEN IF "file" \in types THEN ps ELSE <<p>>
                        ELSE IF "file" \in types THEN <<q>> ELSE <<>>
    OBVIOUS
  <2>1. types \in SUBSET PartTypes
    BY TypeSetsTyped
  <2>2. n \in Nat /\ n + 1 \in Nat /\ "text" \in PartTypes /\ "file" \in PartTypes
    BY <1>1
  <2> QED
    BY ONLY <2>1, <2>2, KeptOfTwo
<1>3. /\ ps \in Seq(Parts) /\ <<p>> \in Seq(Parts) /\ <<>> \in Seq(Parts)
      /\ DOMAIN ps = {1, 2} /\ ps[1] = p /\ ps[2] = q
  BY <1>1
<1>4. m.role = "user" /\ m.parts = ps
  BY DEF Message
<1>5. ps \o <<>> = ps /\ <<>> \o ps = ps /\ <<p>> \o <<q>> = ps
  <2>1. ps \o <<>> = ps /\ <<>> \o ps = ps
    BY <1>3, ConcatEmptySeq
  <2>2. <<p>> \o <<q>> = ps
    BY <1>1, TwoItems
  <2> QED
    BY <2>1, <2>2
<1>6. Only(<<>>, Those({"text"})) = <<>> /\ Only(<<p>>, Those({"text"})) = <<p>>
  <2>1. Only(<<>>, Those({"text"})) = <<>>
    BY OnlyFew
  <2>2. {"text"} \in SUBSET PartTypes
    BY DEF PartTypes, TextTypes
  <2>3. Only(<<p>>, Those({"text"})) = <<p>>
    BY <1>1, <2>2, KeptOfOne
  <2> QED
    BY <2>1, <2>3
<1> HIDE DEF p, q, ps
<1>7. /\ Only(ps, Those(TextTypes)) = <<p>>
      /\ Only(ps, Those({"text", "image"})) = <<p>>
      /\ Only(ps, Those({"tool-call"})) = <<>>
      /\ Only(ps, Those({"tool-result"})) = <<>>
      /\ Only(ps, Those({"text", "image", "file"})) = ps
      /\ Only(ps, Those({"text", "tool-call"})) = <<p>>
      /\ Only(ps, Those({"text"})) = <<p>>
      /\ Only(ps, Those({"system"})) = <<>>
      /\ Only(ps, Those(PartTypes \ {"file"})) = <<p>>
      /\ Only(ps, Those(PartTypes \ {"system"})) = ps
  BY <1>2 DEF TypeSets, TextTypes, PartTypes
<1>8. Content(m) = <<p>>
  BY <1>4, <1>7 DEF Content
<1> HIDE DEF m
<1>9. ChatEntries(m) = <<Entry("user", <<p>>)>> /\ AnthropicEntries(m) = <<Entry("user", ps)>>
  BY <1>4, <1>7 DEF ChatEntries, AnthropicEntries, SerializeUser
<1>10. ResponsesEntry(m) = Entry("user", ps)
  BY <1>1, <1>3, <1>4, <1>8 DEF ResponsesEntry, IsMedium
<1>11. OldMessage(m) = Entry("user", <<p>>)
  BY <1>4, <1>7 DEF OldMessage
<1>12. /\ Entry("user", <<p>>) \in Entries /\ Entry("user", <<p>>).parts = <<p>> /\ Entry("user", <<p>>).role = "user"
       /\ Entry("user", ps) \in Entries /\ Entry("user", ps).parts = ps /\ Entry("user", ps).role = "user"
  BY <1>3 DEF Entry, Entries, WireRoles
<1>13. Carries(m)
  BY <1>3, <1>4, <1>6, <1>7, <1>9, <1>10, <1>11, <1>12 DEF Carries, WireRoles
<1> QED
  BY <1>13 DEF m, ps, p, q

LEMMA CallCarries ==
  ASSUME NEW n \in Nat
  PROVE  Carries(Message("assistant", <<PartOf("text", n), PartOf("tool-call", n + 1)>>))
<1> DEFINE p == PartOf("text", n)
           q == PartOf("tool-call", n + 1)
           ps == <<p, q>>
           m == Message("assistant", ps)
<1>1. /\ "text" \in PartTypes /\ p \in Parts /\ p.type = "text"
      /\ "tool-call" \in PartTypes /\ q \in Parts /\ q.type = "tool-call" /\ n + 1 \in Nat
  <2>1. "text" \in PartTypes /\ "tool-call" \in PartTypes
    BY DEF PartTypes, TextTypes
  <2>2. n + 1 \in Nat
    OBVIOUS
  <2>3. p \in Parts /\ p.type = "text"
    BY <2>1, PartsTyped DEF PartOf
  <2>4. q \in Parts /\ q.type = "tool-call"
    BY <2>1, <2>2, PartsTyped DEF PartOf
  <2> QED
    BY <2>1, <2>2, <2>3, <2>4
<1>2. \A types \in TypeSets : Only(ps, Those(types)) =
        IF "text" \in types THEN IF "tool-call" \in types THEN ps ELSE <<p>>
        ELSE IF "tool-call" \in types THEN <<q>> ELSE <<>>
  <2> SUFFICES ASSUME NEW types \in TypeSets
               PROVE  Only(ps, Those(types)) =
                        IF "text" \in types THEN IF "tool-call" \in types THEN ps ELSE <<p>>
                        ELSE IF "tool-call" \in types THEN <<q>> ELSE <<>>
    OBVIOUS
  <2>1. types \in SUBSET PartTypes
    BY TypeSetsTyped
  <2>2. n \in Nat /\ n + 1 \in Nat /\ "text" \in PartTypes /\ "tool-call" \in PartTypes
    BY <1>1
  <2> QED
    BY ONLY <2>1, <2>2, KeptOfTwo
<1>3. /\ ps \in Seq(Parts) /\ <<p>> \in Seq(Parts) /\ <<>> \in Seq(Parts)
      /\ DOMAIN ps = {1, 2} /\ ps[1] = p /\ ps[2] = q
  BY <1>1
<1>4. m.role = "assistant" /\ m.parts = ps
  BY DEF Message
<1>5. ps \o <<>> = ps /\ <<>> \o ps = ps /\ <<p>> \o <<q>> = ps
  <2>1. ps \o <<>> = ps /\ <<>> \o ps = ps
    BY <1>3, ConcatEmptySeq
  <2>2. <<p>> \o <<q>> = ps
    BY <1>1, TwoItems
  <2> QED
    BY <2>1, <2>2
<1>6. Only(<<>>, Those({"text"})) = <<>> /\ Only(<<p>>, Those({"text"})) = <<p>>
  <2>1. Only(<<>>, Those({"text"})) = <<>>
    BY OnlyFew
  <2>2. {"text"} \in SUBSET PartTypes
    BY DEF PartTypes, TextTypes
  <2>3. Only(<<p>>, Those({"text"})) = <<p>>
    BY <1>1, <2>2, KeptOfOne
  <2> QED
    BY <2>1, <2>3
<1> HIDE DEF p, q, ps
<1>7. /\ Only(ps, Those(TextTypes)) = <<p>>
      /\ Only(ps, Those({"text", "image"})) = <<p>>
      /\ Only(ps, Those({"tool-call"})) = <<q>>
      /\ Only(ps, Those({"tool-result"})) = <<>>
      /\ Only(ps, Those({"text", "image", "file"})) = <<p>>
      /\ Only(ps, Those({"text", "tool-call"})) = ps
      /\ Only(ps, Those({"text"})) = <<p>>
      /\ Only(ps, Those({"system"})) = <<>>
      /\ Only(ps, Those(PartTypes \ {"file"})) = ps
      /\ Only(ps, Those(PartTypes \ {"system"})) = ps
  BY <1>2 DEF TypeSets, TextTypes, PartTypes
<1>8. Content(m) = <<p>>
  BY <1>4, <1>7 DEF Content
<1> HIDE DEF m
<1>9. ChatEntries(m) = <<Entry("assistant", ps)>> /\ AnthropicEntries(m) = <<Entry("assistant", ps)>>
  BY <1>4, <1>5, <1>7, <1>8 DEF ChatEntries, AnthropicEntries, SerializeAssistant
<1>10. ResponsesEntry(m) = Entry("assistant", <<p>>)
  BY <1>1, <1>3, <1>4, <1>8 DEF ResponsesEntry, IsMedium
<1>11. OldMessage(m) = Entry("assistant", ps)
  BY <1>4, <1>7 DEF OldMessage
<1>12. /\ Entry("assistant", ps) \in Entries /\ Entry("assistant", ps).parts = ps /\ Entry("assistant", ps).role = "assistant"
       /\ Entry("assistant", <<p>>) \in Entries /\ Entry("assistant", <<p>>).parts = <<p>> /\ Entry("assistant", <<p>>).role = "assistant"
  BY <1>3 DEF Entry, Entries, WireRoles
<1>13. Carries(m)
  BY <1>3, <1>4, <1>6, <1>7, <1>9, <1>10, <1>11, <1>12 DEF Carries, WireRoles
<1> QED
  BY <1>13 DEF m, ps, p, q

LEMMA CallsCarry ==
  ASSUME NEW n \in Nat
  PROVE  Carries(Message("assistant", <<PartOf("tool-call", n), PartOf("tool-call", n + 1)>>))
<1> DEFINE p == PartOf("tool-call", n)
           q == PartOf("tool-call", n + 1)
           ps == <<p, q>>
           m == Message("assistant", ps)
<1>1. /\ "tool-call" \in PartTypes /\ p \in Parts /\ p.type = "tool-call"
      /\ "tool-call" \in PartTypes /\ q \in Parts /\ q.type = "tool-call" /\ n + 1 \in Nat
  <2>1. "tool-call" \in PartTypes /\ "tool-call" \in PartTypes
    BY DEF PartTypes, TextTypes
  <2>2. n + 1 \in Nat
    OBVIOUS
  <2>3. p \in Parts /\ p.type = "tool-call"
    BY <2>1, PartsTyped DEF PartOf
  <2>4. q \in Parts /\ q.type = "tool-call"
    BY <2>1, <2>2, PartsTyped DEF PartOf
  <2> QED
    BY <2>1, <2>2, <2>3, <2>4
<1>2. \A types \in TypeSets : Only(ps, Those(types)) = IF "tool-call" \in types THEN ps ELSE <<>>
  <2> SUFFICES ASSUME NEW types \in TypeSets
               PROVE  Only(ps, Those(types)) = IF "tool-call" \in types THEN ps ELSE <<>>
    OBVIOUS
  <2>1. types \in SUBSET PartTypes
    BY TypeSetsTyped
  <2>2. (p \in Those(types) <=> "tool-call" \in types) /\ (q \in Those(types) <=> "tool-call" \in types)
    <3>1. n + 1 \in Nat
      OBVIOUS
    <3>2. p \in Those(types) <=> "tool-call" \in types
      BY <1>1, <2>1, PartsTyped
    <3>3. q \in Those(types) <=> "tool-call" \in types
      BY <1>1, <2>1, <3>1, PartsTyped
    <3> QED
      BY <3>2, <3>3
  <2> HIDE DEF p, q
  <2>3. Only(<<p, q>>, Those(types)) =
          IF p \in Those(types) THEN IF q \in Those(types) THEN <<p, q>> ELSE <<p>>
          ELSE IF q \in Those(types) THEN <<q>> ELSE <<>>
    BY <1>1, OnlyFew
  <2> QED
    BY <2>2, <2>3
<1>3. /\ ps \in Seq(Parts) /\ <<p>> \in Seq(Parts) /\ <<>> \in Seq(Parts)
      /\ DOMAIN ps = {1, 2} /\ ps[1] = p /\ ps[2] = q
  BY <1>1
<1>4. m.role = "assistant" /\ m.parts = ps
  BY DEF Message
<1>5. ps \o <<>> = ps /\ <<>> \o ps = ps /\ <<p>> \o <<q>> = ps
  <2>1. ps \o <<>> = ps /\ <<>> \o ps = ps
    BY <1>3, ConcatEmptySeq
  <2>2. <<p>> \o <<q>> = ps
    BY <1>1, TwoItems
  <2> QED
    BY <2>1, <2>2
<1>6. Only(<<>>, Those({"text"})) = <<>>
  BY OnlyFew
<1> HIDE DEF p, q, ps
<1>7. /\ Only(ps, Those(TextTypes)) = <<>>
      /\ Only(ps, Those({"text", "image"})) = <<>>
      /\ Only(ps, Those({"tool-call"})) = ps
      /\ Only(ps, Those({"tool-result"})) = <<>>
      /\ Only(ps, Those({"text", "image", "file"})) = <<>>
      /\ Only(ps, Those({"text", "tool-call"})) = ps
      /\ Only(ps, Those({"text"})) = <<>>
      /\ Only(ps, Those({"system"})) = <<>>
      /\ Only(ps, Those(PartTypes \ {"file"})) = ps
      /\ Only(ps, Those(PartTypes \ {"system"})) = ps
  BY <1>2 DEF TypeSets, TextTypes, PartTypes
<1>8. Content(m) = <<>>
  BY <1>4, <1>7 DEF Content
<1> HIDE DEF m
<1>9. ChatEntries(m) = <<Entry("assistant", ps)>> /\ AnthropicEntries(m) = <<Entry("assistant", ps)>>
  BY <1>4, <1>5, <1>7, <1>8 DEF ChatEntries, AnthropicEntries, SerializeAssistant
<1>10. ResponsesEntry(m) = Entry("assistant", <<>>)
  BY <1>1, <1>3, <1>4, <1>8 DEF ResponsesEntry, IsMedium
<1>11. OldMessage(m) = Entry("assistant", ps)
  BY <1>4, <1>7 DEF OldMessage
<1>12. /\ Entry("assistant", ps) \in Entries /\ Entry("assistant", ps).parts = ps /\ Entry("assistant", ps).role = "assistant"
       /\ Entry("assistant", <<>>) \in Entries /\ Entry("assistant", <<>>).parts = <<>> /\ Entry("assistant", <<>>).role = "assistant"
  BY <1>3 DEF Entry, Entries, WireRoles
<1>13. Carries(m)
  BY <1>3, <1>4, <1>6, <1>7, <1>9, <1>10, <1>11, <1>12 DEF Carries, WireRoles
<1> QED
  BY <1>13 DEF m, ps, p, q

LEMMA UtterancesCarry == \A m \in Utterances : Carries(m)
<1> SUFFICES ASSUME NEW m \in Utterances PROVE Carries(m)
  OBVIOUS
<1>1. CASE \E n \in Nat : m = ToolAnswer(n)
  BY <1>1, ResultCarries DEF ToolAnswer
<1>2. CASE \E n \in Nat : m \in Said(n)
  <2>1. PICK n \in Nat : m \in Said(n)
    BY <1>2
  <2>2. /\ Carries(Message("system", <<PartOf("system", n)>>))
        /\ Carries(Message("user", <<PartOf("text", n)>>))
        /\ Carries(Message("user", <<PartOf("text", n), PartOf("image", n + 1)>>))
        /\ Carries(Message("user", <<PartOf("text", n), PartOf("file", n + 1)>>))
        /\ Carries(Message("assistant", <<PartOf("text", n)>>))
        /\ Carries(Message("assistant", <<PartOf("text", n), PartOf("tool-call", n + 1)>>))
        /\ Carries(Message("assistant", <<PartOf("tool-call", n), PartOf("tool-call", n + 1)>>))
    BY SystemCarries, TextCarries, AnswerCarries, ImageCarries, FileCarries, CallCarries, CallsCarry
  <2> QED
    BY <2>1, <2>2, Zenon DEF Said
<1>3. (\E n \in Nat : m \in Said(n)) \/ (\E n \in Nat : m = ToolAnswer(n))
  <2>1. m \in UNION {Said(n) : n \in Nat} \/ m \in {ToolAnswer(n) : n \in Nat}
    <3> DEFINE A == UNION {Said(n) : n \in Nat}
               B == {ToolAnswer(n) : n \in Nat}
    <3>1. Utterances = B \cup A
      BY DEF Utterances
    <3> HIDE DEF A, B
    <3>2. m \in A \/ m \in B
      BY <3>1
    <3> QED
      BY <3>2 DEF A, B
  <2>2. m \in UNION {Said(n) : n \in Nat} => \E n \in Nat : m \in Said(n)
    OBVIOUS
  <2>3. m \in {ToolAnswer(n) : n \in Nat} => \E n \in Nat : m = ToolAnswer(n)
    OBVIOUS
  <2> QED
    BY <2>1, <2>2, <2>3
<1> QED
  BY <1>1, <1>2, <1>3

\* The join of a function's lists when it has one more.
LEMMA FunctionsJoin ==
  ASSUME NEW T, NEW n \in Nat, NEW a \in [1 .. n -> Seq(T)], NEW b \in [1 .. n + 1 -> Seq(T)],
         \A i \in 1 .. n : b[i] = a[i]
  PROVE  Joined(b) = Joined(a) \o b[n + 1] /\ Joined(a) \in Seq(T)
<1>1. a \in Seq(Seq(T)) /\ Len(a) = n
  <2>1. a \in Seq(Seq(T)) /\ DOMAIN a = 1 .. n
    BY SeqDef
  <2> QED
    BY <2>1, LenProperties
<1>2. b \in Seq(Seq(T)) /\ Len(b) = n + 1
  <2>1. n + 1 \in Nat
    OBVIOUS
  <2>2. b \in Seq(Seq(T)) /\ DOMAIN b = 1 .. n + 1
    BY <2>1, SeqDef
  <2> QED
    BY <2>1, <2>2, LenProperties
<1> DEFINE x == b[n + 1]
<1>3. x \in Seq(T) /\ b[Len(a) + 1] = x /\ Len(b) = Len(a) + 1
  <2>1. n + 1 \in 1 .. n + 1
    OBVIOUS
  <2>2. b[n + 1] \in Seq(T)
    BY <2>1
  <2> QED
    BY <1>1, <1>2, <2>2
<1>4. \A i \in 1 .. Len(a) : b[i] = a[i]
  BY <1>1
<1> HIDE DEF x
<1>5. Joined(b) = Joined(a) \o x
  BY <1>1, <1>2, <1>3, <1>4, JoinedMore
<1>6. Joined(a) \in Seq(T)
  BY <1>1, JoinsTyped
<1> QED
  BY <1>5, <1>6 DEF x

LEMMA AppendedIs ==
  ASSUME NEW X, NEW s \in Seq(X), NEW x \in X
  PROVE  /\ Append(s, x) \in Seq(X) /\ Len(s) \in Nat /\ DOMAIN s = 1 .. Len(s)
         /\ DOMAIN Append(s, x) = 1 .. Len(s) + 1
         /\ Append(s, x)[Len(s) + 1] = x
         /\ \A i \in 1 .. Len(s) : Append(s, x)[i] = s[i] /\ s[i] \in X
         /\ Len(Append(s, x)) = Len(s) + 1
<1>1. Len(s) \in Nat /\ DOMAIN s = 1 .. Len(s) /\ \A i \in 1 .. Len(s) : s[i] \in X
  BY LenProperties, ElementOfSeq
<1>2. /\ Append(s, x) \in Seq(X) /\ Len(Append(s, x)) = Len(s) + 1
      /\ \A i \in 1 .. Len(s) : Append(s, x)[i] = s[i]
      /\ Append(s, x)[Len(s) + 1] = x
  BY AppendProperties
<1>3. DOMAIN Append(s, x) = 1 .. Len(s) + 1
  BY <1>2, LenProperties
<1> QED
  BY <1>1, <1>2, <1>3

\* An entry, or a message, more.
LEMMA CarriedMore ==
  ASSUME NEW X, \A x \in X : x.parts \in Seq(Parts), NEW s \in Seq(X), NEW x \in X
  PROVE  Carried(Append(s, x)) = Carried(s) \o x.parts /\ Carried(s) \in Seq(Parts)
<1> DEFINE n == Len(s)
           t == Append(s, x)
           a == [i \in DOMAIN s |-> s[i].parts]
           b == [i \in DOMAIN t |-> t[i].parts]
<1>1. /\ n \in Nat /\ DOMAIN s = 1 .. n /\ DOMAIN t = 1 .. n + 1 /\ t[n + 1] = x
      /\ \A i \in 1 .. n : t[i] = s[i] /\ s[i] \in X
  BY AppendedIs
<1>2. Carried(s) = Joined(a) /\ Carried(t) = Joined(b)
  BY DEF Carried
<1> HIDE DEF t, n
<1>3. a = [i \in 1 .. n |-> s[i].parts] /\ b = [i \in 1 .. n + 1 |-> t[i].parts]
  BY <1>1
<1> HIDE DEF a, b
<1>4. \A i \in 1 .. n + 1 : i = n + 1 \/ i \in 1 .. n
  BY <1>1
<1>5. \A i \in 1 .. n + 1 : t[i] \in X
  BY <1>1, <1>4
<1>6. a \in [1 .. n -> Seq(Parts)] /\ b \in [1 .. n + 1 -> Seq(Parts)]
  BY <1>1, <1>3, <1>5
<1>7. (\A i \in 1 .. n : b[i] = a[i]) /\ b[n + 1] = x.parts
  <2>1. \A i \in 1 .. n : i \in 1 .. n + 1
    BY <1>1
  <2>2. n + 1 \in 1 .. n + 1
    BY <1>1
  <2> QED
    BY <1>1, <1>3, <2>1, <2>2
<1>8. Joined(b) = Joined(a) \o b[n + 1] /\ Joined(a) \in Seq(Parts)
  BY <1>1, <1>6, <1>7, FunctionsJoin
<1> QED
  BY <1>2, <1>7, <1>8 DEF t

\* The parts of a message that are the system's, for anthropic, and its entries
\* but for those.
SystemText(m) == IF m.role = "system" THEN Content(m) ELSE <<>>
OtherEntries(ms) == Joined([i \in DOMAIN ms |-> AnthropicEntries(ms[i])])

LEMMA EntriesTyped ==
  \A m \in Utterances :
    /\ ChatEntries(m) \in Seq(Entries) /\ AnthropicEntries(m) \in Seq(Entries)
    /\ SystemText(m) \in Seq(Parts) /\ m.parts \in Seq(Parts)
    /\ ResponsesEntry(m) \in Entries /\ OldMessage(m) \in Entries
<1> SUFFICES ASSUME NEW m \in Utterances
             PROVE  /\ ChatEntries(m) \in Seq(Entries) /\ AnthropicEntries(m) \in Seq(Entries)
                    /\ SystemText(m) \in Seq(Parts) /\ m.parts \in Seq(Parts)
                    /\ ResponsesEntry(m) \in Entries /\ OldMessage(m) \in Entries
  OBVIOUS
<1>1. Carries(m)
  BY UtterancesCarry
<1>2. (\A e \in Entries : <<e>> \in Seq(Entries)) /\ <<>> \in Seq(Entries) /\ <<>> \in Seq(Parts)
  OBVIOUS
<1>3. m.parts \in Seq(Parts) /\ \E e \in Entries : ChatEntries(m) = <<e>>
  BY <1>1 DEF Carries
<1>4. (\E e \in Entries : AnthropicEntries(m) = <<e>>) \/ AnthropicEntries(m) = <<>>
  BY <1>1 DEF Carries
<1>5. ResponsesEntry(m) \in Entries /\ OldMessage(m) \in Entries
  BY <1>1 DEF Carries
<1>6. SystemText(m) = m.parts \/ SystemText(m) = <<>>
  BY <1>1 DEF Carries, SystemText
<1> QED
  BY <1>2, <1>3, <1>4, <1>5, <1>6

LEMMA EntriesMore ==
  ASSUME NEW s \in Seq(Utterances), NEW m \in Utterances
  PROVE  /\ ChatPayload(Append(s, m)) = ChatPayload(s) \o ChatEntries(m)
         /\ ChatPayload(s) \in Seq(Entries)
<1> DEFINE n == Len(s)
           t == Append(s, m)
           a == [i \in DOMAIN s |-> ChatEntries(s[i])]
           b == [i \in DOMAIN t |-> ChatEntries(t[i])]
<1>0. \A u \in Utterances : ChatEntries(u) \in Seq(Entries)
  BY EntriesTyped
<1>1. /\ n \in Nat /\ DOMAIN s = 1 .. n /\ DOMAIN t = 1 .. n + 1 /\ t[n + 1] = m
      /\ \A i \in 1 .. n : t[i] = s[i] /\ s[i] \in Utterances
  BY AppendedIs
<1>2. ChatPayload(s) = Joined(a) /\ ChatPayload(t) = Joined(b)
  BY DEF ChatPayload
<1> HIDE DEF t, n
<1>3. a = [i \in 1 .. n |-> ChatEntries(s[i])] /\ b = [i \in 1 .. n + 1 |-> ChatEntries(t[i])]
  BY <1>1
<1> HIDE DEF a, b
<1>4. \A i \in 1 .. n + 1 : i = n + 1 \/ i \in 1 .. n
  BY <1>1
<1>5. \A i \in 1 .. n + 1 : t[i] \in Utterances
  BY <1>1, <1>4
<1>6. a \in [1 .. n -> Seq(Entries)] /\ b \in [1 .. n + 1 -> Seq(Entries)]
  BY <1>0, <1>1, <1>3, <1>5
<1>7. (\A i \in 1 .. n : b[i] = a[i]) /\ b[n + 1] = ChatEntries(m)
  <2>1. \A i \in 1 .. n : i \in 1 .. n + 1
    BY <1>1
  <2>2. n + 1 \in 1 .. n + 1
    BY <1>1
  <2> QED
    BY <1>1, <1>3, <2>1, <2>2
<1>8. Joined(b) = Joined(a) \o b[n + 1] /\ Joined(a) \in Seq(Entries)
  BY <1>1, <1>6, <1>7, FunctionsJoin
<1> QED
  BY <1>2, <1>7, <1>8 DEF t
LEMMA SystemMore ==
  ASSUME NEW s \in Seq(Utterances), NEW m \in Utterances
  PROVE  /\ ExtractSystem(Append(s, m)) = ExtractSystem(s) \o SystemText(m)
         /\ ExtractSystem(s) \in Seq(Parts)
<1> DEFINE n == Len(s)
           t == Append(s, m)
           a == [i \in DOMAIN s |-> SystemText(s[i])]
           b == [i \in DOMAIN t |-> SystemText(t[i])]
<1>0. \A u \in Utterances : SystemText(u) \in Seq(Parts)
  BY EntriesTyped
<1>1. /\ n \in Nat /\ DOMAIN s = 1 .. n /\ DOMAIN t = 1 .. n + 1 /\ t[n + 1] = m
      /\ \A i \in 1 .. n : t[i] = s[i] /\ s[i] \in Utterances
  BY AppendedIs
<1>2. ExtractSystem(s) = Joined(a) /\ ExtractSystem(t) = Joined(b)
  BY DEF ExtractSystem, SystemText
<1> HIDE DEF t, n
<1>3. a = [i \in 1 .. n |-> SystemText(s[i])] /\ b = [i \in 1 .. n + 1 |-> SystemText(t[i])]
  BY <1>1
<1> HIDE DEF a, b
<1>4. \A i \in 1 .. n + 1 : i = n + 1 \/ i \in 1 .. n
  BY <1>1
<1>5. \A i \in 1 .. n + 1 : t[i] \in Utterances
  BY <1>1, <1>4
<1>6. a \in [1 .. n -> Seq(Parts)] /\ b \in [1 .. n + 1 -> Seq(Parts)]
  BY <1>0, <1>1, <1>3, <1>5
<1>7. (\A i \in 1 .. n : b[i] = a[i]) /\ b[n + 1] = SystemText(m)
  <2>1. \A i \in 1 .. n : i \in 1 .. n + 1
    BY <1>1
  <2>2. n + 1 \in 1 .. n + 1
    BY <1>1
  <2> QED
    BY <1>1, <1>3, <2>1, <2>2
<1>8. Joined(b) = Joined(a) \o b[n + 1] /\ Joined(a) \in Seq(Parts)
  BY <1>1, <1>6, <1>7, FunctionsJoin
<1> QED
  BY <1>2, <1>7, <1>8 DEF t
LEMMA OthersMore ==
  ASSUME NEW s \in Seq(Utterances), NEW m \in Utterances
  PROVE  /\ OtherEntries(Append(s, m)) = OtherEntries(s) \o AnthropicEntries(m)
         /\ OtherEntries(s) \in Seq(Entries)
<1> DEFINE n == Len(s)
           t == Append(s, m)
           a == [i \in DOMAIN s |-> AnthropicEntries(s[i])]
           b == [i \in DOMAIN t |-> AnthropicEntries(t[i])]
<1>0. \A u \in Utterances : AnthropicEntries(u) \in Seq(Entries)
  BY EntriesTyped
<1>1. /\ n \in Nat /\ DOMAIN s = 1 .. n /\ DOMAIN t = 1 .. n + 1 /\ t[n + 1] = m
      /\ \A i \in 1 .. n : t[i] = s[i] /\ s[i] \in Utterances
  BY AppendedIs
<1>2. OtherEntries(s) = Joined(a) /\ OtherEntries(t) = Joined(b)
  BY DEF OtherEntries
<1> HIDE DEF t, n
<1>3. a = [i \in 1 .. n |-> AnthropicEntries(s[i])] /\ b = [i \in 1 .. n + 1 |-> AnthropicEntries(t[i])]
  BY <1>1
<1> HIDE DEF a, b
<1>4. \A i \in 1 .. n + 1 : i = n + 1 \/ i \in 1 .. n
  BY <1>1
<1>5. \A i \in 1 .. n + 1 : t[i] \in Utterances
  BY <1>1, <1>4
<1>6. a \in [1 .. n -> Seq(Entries)] /\ b \in [1 .. n + 1 -> Seq(Entries)]
  BY <1>0, <1>1, <1>3, <1>5
<1>7. (\A i \in 1 .. n : b[i] = a[i]) /\ b[n + 1] = AnthropicEntries(m)
  <2>1. \A i \in 1 .. n : i \in 1 .. n + 1
    BY <1>1
  <2>2. n + 1 \in 1 .. n + 1
    BY <1>1
  <2> QED
    BY <1>1, <1>3, <2>1, <2>2
<1>8. Joined(b) = Joined(a) \o b[n + 1] /\ Joined(a) \in Seq(Entries)
  BY <1>1, <1>6, <1>7, FunctionsJoin
<1> QED
  BY <1>2, <1>7, <1>8 DEF t

\* What is proved of the messages: what each request carries of them.
PartsHold(ms) ==
  /\ Carried(ChatPayload(ms)) = Only(Carried(ms), Those(PartTypes \ {"file"}))
  /\ ExtractSystem(ms) = Only(Carried(ms), Those({"system"}))
  /\ Carried(OtherEntries(ms)) = Only(Carried(ms), Those(PartTypes \ {"system"}))
  /\ Only(Carried(ResponsesPayload(ms)), Those({"text"})) = Only(Carried(ms), Those({"text"}))
  /\ Only(Carried(OldMessages(ms)), Those({"text"})) = Only(Carried(ms), Those({"text"}))

\* Adding one entry, or none.
LEMMA EntryMore ==
  ASSUME NEW es \in Seq(Entries), NEW e \in Entries
  PROVE  /\ es \o <<e>> = Append(es, e) /\ es \o <<>> = es
         /\ Carried(es \o <<e>>) = Carried(es) \o e.parts /\ Carried(es) \in Seq(Parts)
<1>1. es \o <<e>> = Append(es, e)
  BY AppendIsConcat
<1>2. es \o <<>> = es
  BY ConcatEmptySeq
<1>3. \A x \in Entries : x.parts \in Seq(Parts)
  BY DEF Entries
<1>4. Carried(Append(es, e)) = Carried(es) \o e.parts /\ Carried(es) \in Seq(Parts)
  BY <1>3, CarriedMore
<1> QED
  BY <1>1, <1>2, <1>4

LEMMA KeptMore ==
  ASSUME NEW ms \in Seq(Utterances), NEW m \in Utterances
  PROVE  /\ Carried(ms) \in Seq(Parts) /\ m.parts \in Seq(Parts)
         /\ \A K : Only(Carried(Append(ms, m)), K) = Only(Carried(ms), K) \o Only(m.parts, K)
<1>1. \A x \in Utterances : x.parts \in Seq(Parts)
  BY EntriesTyped
<1>2. Carried(Append(ms, m)) = Carried(ms) \o m.parts /\ Carried(ms) \in Seq(Parts)
  BY <1>1, CarriedMore
<1>3. m.parts \in Seq(Parts)
  BY <1>1
<1> DEFINE x == Carried(ms)
           y == m.parts
<1> HIDE DEF x, y
<1>4. x \in Seq(Parts) /\ y \in Seq(Parts)
  BY <1>2, <1>3 DEF x, y
<1>5. \A K : Only(x \o y, K) = Only(x, K) \o Only(y, K)
  BY <1>4, OnlyTwo
<1> QED
  BY <1>2, <1>3, <1>5 DEF x, y

\* The requests in which every message is one entry.
LEMMA MapsMore ==
  ASSUME NEW ms \in Seq(Utterances), NEW m \in Utterances
  PROVE  /\ ResponsesPayload(ms) \in Seq(Entries) /\ OldMessages(ms) \in Seq(Entries)
         /\ ResponsesPayload(Append(ms, m)) = Append(ResponsesPayload(ms), ResponsesEntry(m))
         /\ OldMessages(Append(ms, m)) = Append(OldMessages(ms), OldMessage(m))
<1> DEFINE n == Len(ms)
           t == Append(ms, m)
           a == ResponsesPayload(ms)
           b == ResponsesPayload(t)
           c == OldMessages(ms)
           d == OldMessages(t)
           x == ResponsesEntry(m)
           y == OldMessage(m)
<1>1. /\ n \in Nat /\ DOMAIN ms = 1 .. n /\ DOMAIN t = 1 .. n + 1 /\ t[n + 1] = m
      /\ \A i \in 1 .. n : t[i] = ms[i] /\ ms[i] \in Utterances
  BY AppendedIs
<1>2. \A u \in Utterances : ResponsesEntry(u) \in Entries /\ OldMessage(u) \in Entries
  BY EntriesTyped
<1>3. /\ a = [i \in DOMAIN ms |-> ResponsesEntry(ms[i])] /\ b = [i \in DOMAIN t |-> ResponsesEntry(t[i])]
      /\ c = [i \in DOMAIN ms |-> OldMessage(ms[i])] /\ d = [i \in DOMAIN t |-> OldMessage(t[i])]
  BY DEF ResponsesPayload, OldMessages
<1> HIDE DEF t, n, a, b, c, d
<1>4. /\ a = [i \in 1 .. n |-> ResponsesEntry(ms[i])] /\ b = [i \in 1 .. n + 1 |-> ResponsesEntry(t[i])]
      /\ c = [i \in 1 .. n |-> OldMessage(ms[i])] /\ d = [i \in 1 .. n + 1 |-> OldMessage(t[i])]
  BY <1>1, <1>3
<1>5. /\ (\A i \in 1 .. n : i \in 1 .. n + 1) /\ n + 1 \in 1 .. n + 1 /\ n + 1 \in Nat
      /\ \A i \in 1 .. n + 1 : i = n + 1 \/ i \in 1 .. n
  BY <1>1
<1>6. \A i \in 1 .. n + 1 : t[i] \in Utterances
  BY <1>1, <1>5
<1>7. a \in [1 .. n -> Entries] /\ b \in [1 .. n + 1 -> Entries]
  BY <1>1, <1>2, <1>4, <1>6
<1>8. c \in [1 .. n -> Entries] /\ d \in [1 .. n + 1 -> Entries]
  BY <1>1, <1>2, <1>4, <1>6
<1>9. /\ a \in Seq(Entries) /\ b \in Seq(Entries) /\ c \in Seq(Entries) /\ d \in Seq(Entries)
      /\ Len(a) = n /\ Len(b) = n + 1 /\ Len(c) = n /\ Len(d) = n + 1
  <2>1. \A k \in Nat : \A f \in [1 .. k -> Entries] : f \in Seq(Entries) /\ Len(f) = k
    <3> SUFFICES ASSUME NEW k \in Nat, NEW f \in [1 .. k -> Entries] PROVE f \in Seq(Entries) /\ Len(f) = k
      OBVIOUS
    <3>1. f \in Seq(Entries) /\ DOMAIN f = 1 .. k
      BY SeqDef
    <3> QED
      BY <3>1, LenProperties
  <2> QED
    BY <1>1, <1>5, <1>7, <1>8, <2>1
<1>10. (\A i \in 1 .. n : b[i] = a[i]) /\ b[n + 1] = ResponsesEntry(m)
  BY <1>1, <1>4, <1>5
<1>11. (\A i \in 1 .. n : d[i] = c[i]) /\ d[n + 1] = OldMessage(m)
  BY <1>1, <1>4, <1>5
<1>12. x \in Entries /\ y \in Entries
  BY <1>2
<1>13. b = Append(a, x)
  <2> HIDE DEF x
  <2>1. /\ Append(a, x) \in Seq(Entries) /\ Len(Append(a, x)) = n + 1
        /\ (\A i \in 1 .. n : Append(a, x)[i] = a[i]) /\ Append(a, x)[n + 1] = x
    BY <1>9, <1>12, AppendProperties
  <2>2. \A i \in 1 .. n + 1 : b[i] = Append(a, x)[i]
    BY <1>5, <1>10, <2>1 DEF x
  <2> QED
    BY <1>9, <2>1, <2>2, SeqEqual
<1>14. d = Append(c, y)
  <2> HIDE DEF y
  <2>1. /\ Append(c, y) \in Seq(Entries) /\ Len(Append(c, y)) = n + 1
        /\ (\A i \in 1 .. n : Append(c, y)[i] = c[i]) /\ Append(c, y)[n + 1] = y
    BY <1>9, <1>12, AppendProperties
  <2>2. \A i \in 1 .. n + 1 : d[i] = Append(c, y)[i]
    BY <1>5, <1>11, <2>1 DEF y
  <2> QED
    BY <1>9, <2>1, <2>2, SeqEqual
<1> QED
  BY <1>9, <1>13, <1>14 DEF a, b, c, d, t, x, y

LEMMA PartsStep ==
  ASSUME NEW ms \in Seq(Utterances), NEW m \in Utterances, PartsHold(ms)
  PROVE  PartsHold(Append(ms, m))
<1> DEFINE t == Append(ms, m)
           F == Those(PartTypes \ {"file"})
           S == Those({"system"})
           N == Those(PartTypes \ {"system"})
           X == Those({"text"})
<1>1. Carries(m)
  BY UtterancesCarry
<1>2. \A K : Only(Carried(t), K) = Only(Carried(ms), K) \o Only(m.parts, K)
  BY KeptMore
<1>3. Carried(ms) \in Seq(Parts) /\ m.parts \in Seq(Parts)
  BY KeptMore
<1>4. \A K : Only(Carried(ms), K) \in Seq(Parts)
  <2> DEFINE x == Carried(ms)
  <2>1. x \in Seq(Parts)
    BY <1>3
  <2> HIDE DEF x
  <2>2. \A K : Only(x, K) \in Seq(Parts)
    BY <2>1, PiecesTyped
  <2> QED
    BY <2>2 DEF x
<1>5. \A K : Only(Carried(ms), K) \o <<>> = Only(Carried(ms), K)
  BY <1>4, ConcatEmptySeq
<1>6. Carried(ChatPayload(t)) = Only(Carried(t), F)
  <2>1. PICK e \in Entries : ChatEntries(m) = <<e>> /\ e.parts = Only(m.parts, F)
    BY <1>1 DEF Carries
  <2>2. ChatPayload(t) = ChatPayload(ms) \o <<e>> /\ ChatPayload(ms) \in Seq(Entries)
    BY <2>1, EntriesMore
  <2>3. Carried(ChatPayload(t)) = Carried(ChatPayload(ms)) \o e.parts
    BY <2>2, EntryMore
  <2> HIDE DEF t, F
  <2>4. Carried(ChatPayload(ms)) = Only(Carried(ms), F)
    BY DEF PartsHold, F
  <2> QED
    BY <1>2, <2>1, <2>3, <2>4
<1>7. ExtractSystem(t) = Only(Carried(t), S) /\ Carried(OtherEntries(t)) = Only(Carried(t), N)
  <2>1. /\ ExtractSystem(t) = ExtractSystem(ms) \o SystemText(m)
        /\ OtherEntries(t) = OtherEntries(ms) \o AnthropicEntries(m) /\ OtherEntries(ms) \in Seq(Entries)
    BY SystemMore, OthersMore
  <2>2. /\ ExtractSystem(ms) = Only(Carried(ms), S)
        /\ Carried(OtherEntries(ms)) = Only(Carried(ms), N)
    BY DEF PartsHold
  <2>3. CASE m.role = "system"
    <3>1. SystemText(m) = m.parts /\ AnthropicEntries(m) = <<>> /\ Only(m.parts, S) = m.parts /\ Only(m.parts, N) = <<>>
      BY <1>1, <2>3 DEF Carries, SystemText
    <3>2. OtherEntries(t) = OtherEntries(ms)
      <4>1. OtherEntries(ms) \o <<>> = OtherEntries(ms)
        BY <2>1, ConcatEmptySeq
      <4> HIDE DEF t
      <4> QED
        BY <2>1, <3>1, <4>1
    <3> HIDE DEF t, S, N
    <3>3. ExtractSystem(t) = Only(Carried(t), S)
      BY <1>2, <2>1, <2>2, <3>1
    <3>4. Carried(OtherEntries(t)) = Only(Carried(t), N)
      BY <1>2, <1>5, <2>2, <3>1, <3>2
    <3> QED
      BY <3>3, <3>4
  <2>4. CASE m.role # "system"
    <3>1. /\ SystemText(m) = <<>>
          /\ Only(m.parts, S) = <<>> /\ Only(m.parts, N) = m.parts
      BY <1>1, <2>4 DEF Carries, SystemText
    <3>2. PICK e \in Entries : AnthropicEntries(m) = <<e>> /\ e.parts = m.parts
      BY <1>1, <2>4 DEF Carries
    <3>3. Carried(OtherEntries(ms) \o <<e>>) = Carried(OtherEntries(ms)) \o e.parts
      BY <2>1, EntryMore
    <3> HIDE DEF t, S, N
    <3>4. ExtractSystem(t) = Only(Carried(t), S)
      BY <1>2, <2>1, <2>2, <3>1
    <3>5. Carried(OtherEntries(t)) = Only(Carried(t), N)
      BY <1>2, <2>1, <2>2, <3>1, <3>2, <3>3
    <3> QED
      BY <3>4, <3>5
  <2> QED
    BY <2>3, <2>4
<1>8. Only(Carried(ResponsesPayload(t)), X) = Only(Carried(t), X)
  <2> DEFINE e == ResponsesEntry(m)
             es == ResponsesPayload(ms)
  <2>1. ResponsesPayload(t) = Append(es, e) /\ es \in Seq(Entries)
    BY MapsMore
  <2>2. e \in Entries /\ Only(e.parts, X) = Only(m.parts, X)
    BY <1>1 DEF Carries
  <2>3. Only(Carried(es), X) = Only(Carried(ms), X)
    BY DEF PartsHold
  <2> HIDE DEF e, es, t, X
  <2>4. Carried(Append(es, e)) = Carried(es) \o e.parts /\ Carried(es) \in Seq(Parts) /\ e.parts \in Seq(Parts)
    BY <2>1, <2>2, EntryMore DEF Entries
  <2> DEFINE x == Carried(es)
             y == e.parts
  <2>5. x \in Seq(Parts) /\ y \in Seq(Parts)
    BY <2>4
  <2> HIDE DEF x, y
  <2>6. Only(x \o y, X) = Only(x, X) \o Only(y, X)
    BY <2>5, OnlyTwo
  <2> QED
    BY <1>2, <2>1, <2>2, <2>3, <2>4, <2>6 DEF x, y
<1>9. Only(Carried(OldMessages(t)), X) = Only(Carried(t), X)
  <2> DEFINE e == OldMessage(m)
             es == OldMessages(ms)
  <2>1. OldMessages(t) = Append(es, e) /\ es \in Seq(Entries)
    BY MapsMore
  <2>2. e \in Entries /\ Only(e.parts, X) = Only(m.parts, X)
    BY <1>1 DEF Carries
  <2>3. Only(Carried(es), X) = Only(Carried(ms), X)
    BY DEF PartsHold
  <2> HIDE DEF e, es, t, X
  <2>4. Carried(Append(es, e)) = Carried(es) \o e.parts /\ Carried(es) \in Seq(Parts) /\ e.parts \in Seq(Parts)
    BY <2>1, <2>2, EntryMore DEF Entries
  <2> DEFINE x == Carried(es)
             y == e.parts
  <2>5. x \in Seq(Parts) /\ y \in Seq(Parts)
    BY <2>4
  <2> HIDE DEF x, y
  <2>6. Only(x \o y, X) = Only(x, X) \o Only(y, X)
    BY <2>5, OnlyTwo
  <2> QED
    BY <1>2, <2>1, <2>2, <2>3, <2>4, <2>6 DEF x, y
<1> QED
  BY <1>6, <1>7, <1>8, <1>9 DEF PartsHold

\* Who calls and who answers.
Links(m) ==
  /\ m.role \in {"system", "user"} => \A p \in Range(m.parts) : ~IsCall(p) /\ ~IsResult(p)
  /\ m.role = "assistant" => \A p \in Range(m.parts) : ~IsResult(p)
  /\ m.role = "tool" => \E n \in Nat : m.parts = <<PartOf("tool-result", n)>>

LEMMA OneOrTwoParts ==
  \A p, q : Range(<<p>>) = {p} /\ Range(<<p, q>>) = {p, q}
<1> SUFFICES ASSUME NEW p, NEW q PROVE Range(<<p>>) = {p} /\ Range(<<p, q>>) = {p, q}
  OBVIOUS
<1>1. DOMAIN <<p>> = {1} /\ <<p>>[1] = p
  OBVIOUS
<1>2. DOMAIN <<p, q>> = {1, 2} /\ <<p, q>>[1] = p /\ <<p, q>>[2] = q
  OBVIOUS
<1> QED
  BY <1>1, <1>2 DEF Range

LEMMA UtterancesLink == \A m \in Utterances : Links(m)
<1> SUFFICES ASSUME NEW m \in Utterances PROVE Links(m)
  OBVIOUS
<1>1. (\E n \in Nat : m \in Said(n)) \/ (\E n \in Nat : m = ToolAnswer(n))
  <2> DEFINE A == UNION {Said(n) : n \in Nat}
             B == {ToolAnswer(n) : n \in Nat}
  <2>1. Utterances = B \cup A
    BY DEF Utterances
  <2>2. m \in A => \E n \in Nat : m \in Said(n)
    OBVIOUS
  <2>3. m \in B => \E n \in Nat : m = ToolAnswer(n)
    OBVIOUS
  <2> HIDE DEF A, B
  <2> QED
    BY <2>1, <2>2, <2>3
<1>2. ASSUME NEW n \in Nat, m = ToolAnswer(n) PROVE Links(m)
  <2>1. m.role = "tool" /\ m.parts = <<PartOf("tool-result", n)>>
    BY <1>2 DEF ToolAnswer, Message
  <2> QED
    BY <2>1 DEF Links
<1>3. ASSUME NEW n \in Nat, m \in Said(n) PROVE Links(m)
  <2>1. \A k : /\ ~IsCall(PartOf("system", k)) /\ ~IsResult(PartOf("system", k))
               /\ ~IsCall(PartOf("text", k)) /\ ~IsResult(PartOf("text", k))
               /\ ~IsCall(PartOf("image", k)) /\ ~IsResult(PartOf("image", k))
               /\ ~IsCall(PartOf("file", k)) /\ ~IsResult(PartOf("file", k))
               /\ ~IsResult(PartOf("tool-call", k))
    BY DEF PartOf, IsCall, IsResult
  <2>2. CASE m = Message("system", <<PartOf("system", n)>>)
    <3>1. m.role = "system" /\ m.parts = <<PartOf("system", n)>>
      BY <2>2 DEF Message
    <3>2. Range(m.parts) = {PartOf("system", n)}
      BY <3>1, OneOrTwoParts
    <3> QED
      BY <2>1, <3>1, <3>2 DEF Links
  <2>3. CASE m \in {Message("user", <<PartOf("text", n)>>), Message("assistant", <<PartOf("text", n)>>)}
    <3>1. m.role \in {"user", "assistant"} /\ m.parts = <<PartOf("text", n)>>
      BY <2>3 DEF Message
    <3>2. Range(m.parts) = {PartOf("text", n)}
      BY <3>1, OneOrTwoParts
    <3> QED
      BY <2>1, <3>1, <3>2 DEF Links
  <2>4. CASE m \in {Message("user", <<PartOf("text", n), PartOf(type, n + 1)>>) : type \in {"image", "file"}}
    <3>1. PICK type \in {"image", "file"} : m = Message("user", <<PartOf("text", n), PartOf(type, n + 1)>>)
      BY <2>4
    <3>2. m.role = "user" /\ m.parts = <<PartOf("text", n), PartOf(type, n + 1)>>
      BY <3>1 DEF Message
    <3>3. Range(m.parts) = {PartOf("text", n), PartOf(type, n + 1)}
      BY <3>2, OneOrTwoParts
    <3>4. ~IsCall(PartOf(type, n + 1)) /\ ~IsResult(PartOf(type, n + 1))
      BY <2>1
    <3> QED
      BY <2>1, <3>2, <3>3, <3>4 DEF Links
  <2>5. CASE m \in {Message("assistant", <<PartOf(type, n), PartOf("tool-call", n + 1)>>) : type \in {"text", "tool-call"}}
    <3>1. PICK type \in {"text", "tool-call"} : m = Message("assistant", <<PartOf(type, n), PartOf("tool-call", n + 1)>>)
      BY <2>5
    <3>2. m.role = "assistant" /\ m.parts = <<PartOf(type, n), PartOf("tool-call", n + 1)>>
      BY <3>1 DEF Message
    <3>3. Range(m.parts) = {PartOf(type, n), PartOf("tool-call", n + 1)}
      BY <3>2, OneOrTwoParts
    <3>4. ~IsResult(PartOf(type, n))
      BY <2>1
    <3> QED
      BY <2>1, <3>2, <3>3, <3>4 DEF Links
  <2>6. \/ m = Message("system", <<PartOf("system", n)>>)
        \/ m \in {Message("user", <<PartOf("text", n)>>), Message("assistant", <<PartOf("text", n)>>)}
        \/ m \in {Message("user", <<PartOf("text", n), PartOf(type, n + 1)>>) : type \in {"image", "file"}}
        \/ m \in {Message("assistant", <<PartOf(type, n), PartOf("tool-call", n + 1)>>) : type \in {"text", "tool-call"}}
    BY <1>3, Zenon DEF Said
  <2> QED
    BY <2>2, <2>3, <2>4, <2>5, <2>6
<1> QED
  BY <1>1, <1>2, <1>3
Includes(list, p) == \E k \in DOMAIN list : p \in Range(list[k].parts)

\* Of the entries and the messages they stand for: a result is alone in an entry,
\* after its call and in no other; calls and results of the messages and of
\* the entries are the same.
AnsweredIn(es, role, ms) ==
  /\ \A i \in DOMAIN es : \A p \in Range(es[i].parts) : IsResult(p) =>
       /\ es[i] = Entry(role, <<p>>)
       /\ \E j \in 1 .. (i - 1) : es[j].role = "assistant" /\ PartOf("tool-call", p.n) \in Range(es[j].parts)
       /\ \A j \in DOMAIN es : p \in Range(es[j].parts) => j = i
       /\ Includes(ms, p)
  /\ \A p : IsCall(p) /\ Includes(ms, p) => \E j \in DOMAIN es : es[j].role = "assistant" /\ p \in Range(es[j].parts)

LEMMA AnswersStep ==
  ASSUME NEW es \in Seq(Entries), NEW e \in Entries, NEW role,
         NEW ms \in Seq(Utterances), NEW m \in Utterances, AnsweredIn(es, role, ms),
         \A p \in Range(e.parts) : IsResult(p) =>
           p \in Range(m.parts) /\ e = Entry(role, <<p>>) /\ Includes(ms, PartOf("tool-call", p.n)) /\ ~Includes(ms, p),
         \A p \in Range(m.parts) : IsCall(p) => e.role = "assistant" /\ p \in Range(e.parts)
  PROVE  AnsweredIn(Append(es, e), role, Append(ms, m))
<1> DEFINE d == Len(es)
           t == Append(es, e)
           n == Len(ms)
           u == Append(ms, m)
<1>1. /\ d \in Nat /\ DOMAIN es = 1 .. d /\ DOMAIN t = 1 .. d + 1 /\ t[d + 1] = e
      /\ \A i \in 1 .. d : t[i] = es[i]
  BY AppendedIs
<1>2. /\ n \in Nat /\ DOMAIN ms = 1 .. n /\ DOMAIN u = 1 .. n + 1 /\ u[n + 1] = m
      /\ \A i \in 1 .. n : u[i] = ms[i]
  BY AppendedIs
<1> HIDE DEF t, u, d, n
<1>3. /\ \A i \in 1 .. d + 1 : i = d + 1 \/ i \in 1 .. d
      /\ \A i \in 1 .. d : i \in 1 .. d + 1 /\ i # d + 1
      /\ \A i \in 1 .. n + 1 : i = n + 1 \/ i \in 1 .. n
      /\ \A i \in 1 .. n : i \in 1 .. n + 1
      /\ d + 1 \in 1 .. d + 1 /\ n + 1 \in 1 .. n + 1
      /\ \A i \in 1 .. d : \A j \in 1 .. (i - 1) : j \in 1 .. d
      /\ (d + 1) - 1 = d
  BY <1>1, <1>2
<1>4. \A p : Includes(u, p) <=> Includes(ms, p) \/ p \in Range(m.parts)
  BY <1>2, <1>3 DEF Includes
<1>5. ASSUME NEW i \in 1 .. d, NEW p \in Range(t[i].parts), IsResult(p)
      PROVE  /\ t[i] = Entry(role, <<p>>)
             /\ \E j \in 1 .. (i - 1) : t[j].role = "assistant" /\ PartOf("tool-call", p.n) \in Range(t[j].parts)
             /\ \A j \in DOMAIN t : p \in Range(t[j].parts) => j = i
             /\ Includes(u, p)
  <2>1. p \in Range(es[i].parts) /\ t[i] = es[i] /\ i \in DOMAIN es
    BY <1>1, <1>5
  <2>2. /\ es[i] = Entry(role, <<p>>)
        /\ \E j \in 1 .. (i - 1) : es[j].role = "assistant" /\ PartOf("tool-call", p.n) \in Range(es[j].parts)
        /\ \A j \in DOMAIN es : p \in Range(es[j].parts) => j = i
        /\ Includes(ms, p)
    BY <1>5, <2>1 DEF AnsweredIn
  <2>3. \E j \in 1 .. (i - 1) : t[j].role = "assistant" /\ PartOf("tool-call", p.n) \in Range(t[j].parts)
    BY <1>1, <1>3, <2>2
  <2>4. p \notin Range(e.parts)
    BY <1>5, <2>2
  <2>5. \A j \in DOMAIN t : p \in Range(t[j].parts) => j = i
    BY <1>1, <1>3, <2>2, <2>4
  <2> QED
    BY <1>4, <2>1, <2>2, <2>3, <2>5
<1>6. ASSUME NEW p \in Range(e.parts), IsResult(p)
      PROVE  /\ e = Entry(role, <<p>>)
             /\ \E j \in 1 .. d : t[j].role = "assistant" /\ PartOf("tool-call", p.n) \in Range(t[j].parts)
             /\ \A j \in DOMAIN t : p \in Range(t[j].parts) => j = d + 1
             /\ Includes(u, p)
  <2>1. p \in Range(m.parts) /\ e = Entry(role, <<p>>) /\ Includes(ms, PartOf("tool-call", p.n)) /\ ~Includes(ms, p)
    BY <1>6
  <2>2. IsCall(PartOf("tool-call", p.n))
    BY DEF IsCall, PartOf
  <2>3. \E j \in DOMAIN es : es[j].role = "assistant" /\ PartOf("tool-call", p.n) \in Range(es[j].parts)
    BY <2>1, <2>2 DEF AnsweredIn
  <2>4. \E j \in 1 .. d : t[j].role = "assistant" /\ PartOf("tool-call", p.n) \in Range(t[j].parts)
    BY <1>1, <2>3
  <2>5. \A j \in 1 .. d : p \notin Range(es[j].parts)
    BY <1>1, <1>6, <2>1 DEF AnsweredIn
  <2>6. \A j \in DOMAIN t : p \in Range(t[j].parts) => j = d + 1
    BY <1>1, <1>3, <2>5
  <2> QED
    BY <1>4, <2>1, <2>4, <2>6
<1>7. \A i \in DOMAIN t : \A p \in Range(t[i].parts) : IsResult(p) =>
        /\ t[i] = Entry(role, <<p>>)
        /\ \E j \in 1 .. (i - 1) : t[j].role = "assistant" /\ PartOf("tool-call", p.n) \in Range(t[j].parts)
        /\ \A j \in DOMAIN t : p \in Range(t[j].parts) => j = i
        /\ Includes(u, p)
  <2> SUFFICES ASSUME NEW i \in DOMAIN t, NEW p \in Range(t[i].parts), IsResult(p)
               PROVE  /\ t[i] = Entry(role, <<p>>)
                      /\ \E j \in 1 .. (i - 1) : t[j].role = "assistant" /\ PartOf("tool-call", p.n) \in Range(t[j].parts)
                      /\ \A j \in DOMAIN t : p \in Range(t[j].parts) => j = i
                      /\ Includes(u, p)
    OBVIOUS
  <2>1. CASE i \in 1 .. d
    BY <1>5, <2>1
  <2>2. CASE i = d + 1
    BY <1>1, <1>3, <1>6, <2>2
  <2> QED
    BY <1>1, <1>3, <2>1, <2>2
<1>8. ASSUME NEW p, IsCall(p), Includes(u, p)
      PROVE  \E j \in DOMAIN t : t[j].role = "assistant" /\ p \in Range(t[j].parts)
  <2>1. CASE Includes(ms, p)
    <3>1. \E j \in DOMAIN es : es[j].role = "assistant" /\ p \in Range(es[j].parts)
      BY <1>8, <2>1 DEF AnsweredIn
    <3> QED
      BY <1>1, <1>3, <3>1
  <2>2. CASE p \in Range(m.parts)
    BY <1>1, <1>3, <1>8, <2>2
  <2> QED
    BY <1>4, <1>8, <2>1, <2>2
<1> QED
  BY <1>7, <1>8 DEF AnsweredIn, t, u

\* A message that is no entry, and calls nothing.
LEMMA AnswersStay ==
  ASSUME NEW es, NEW role, NEW ms \in Seq(Utterances), NEW m \in Utterances, AnsweredIn(es, role, ms),
         \A p \in Range(m.parts) : ~IsCall(p)
  PROVE  AnsweredIn(es, role, Append(ms, m))
<1> DEFINE n == Len(ms)
           u == Append(ms, m)
<1>1. /\ n \in Nat /\ DOMAIN ms = 1 .. n /\ DOMAIN u = 1 .. n + 1 /\ u[n + 1] = m
      /\ \A i \in 1 .. n : u[i] = ms[i]
  BY AppendedIs
<1> HIDE DEF u, n
<1>2. /\ \A i \in 1 .. n + 1 : i = n + 1 \/ i \in 1 .. n
      /\ \A i \in 1 .. n : i \in 1 .. n + 1
  BY <1>1
<1>3. \A p : Includes(ms, p) => Includes(u, p)
  BY <1>1, <1>2 DEF Includes
<1>4. \A p : IsCall(p) /\ Includes(u, p) => Includes(ms, p)
  BY <1>1, <1>2 DEF Includes
<1>5. AnsweredIn(es, role, u)
  BY <1>3, <1>4 DEF AnsweredIn
<1> QED
  BY <1>5 DEF u

WireHolds(ms) ==
  /\ ms \in Seq(Utterances) /\ PartsHold(ms)
  /\ ChatPayload(ms) \in Seq(Entries) /\ AnsweredIn(ChatPayload(ms), "tool", ms)
  /\ OtherEntries(ms) \in Seq(Entries) /\ AnsweredIn(OtherEntries(ms), "user", ms)

\* An answer is to a call, and the first.
Fitting(ms, m) ==
  m.role = "tool" => \A p \in Range(m.parts) : Includes(ms, PartOf("tool-call", p.n)) /\ ~Includes(ms, p)

LEMMA WireStep ==
  ASSUME NEW ms, WireHolds(ms), NEW m \in Utterances, Fitting(ms, m)
  PROVE  WireHolds(Append(ms, m))
<1> DEFINE t == Append(ms, m)
<1>1. /\ ms \in Seq(Utterances) /\ PartsHold(ms)
      /\ ChatPayload(ms) \in Seq(Entries) /\ AnsweredIn(ChatPayload(ms), "tool", ms)
      /\ OtherEntries(ms) \in Seq(Entries) /\ AnsweredIn(OtherEntries(ms), "user", ms)
  BY DEF WireHolds
<1>2. t \in Seq(Utterances) /\ PartsHold(t)
  BY <1>1, PartsStep, AppendProperties
<1>3. Carries(m) /\ Links(m) /\ m.parts \in Seq(Parts) /\ m.role \in WireRoles
  BY UtterancesCarry, UtterancesLink DEF Carries
<1>4. ASSUME NEW p \in Range(m.parts), IsResult(p)
      PROVE  m.role = "tool" /\ m.parts = <<p>>
  <2>1. m.role = "tool"
    BY <1>3, <1>4 DEF Links, WireRoles
  <2>2. PICK n \in Nat : m.parts = <<PartOf("tool-result", n)>>
    BY <1>3, <2>1 DEF Links
  <2>3. Range(m.parts) = {PartOf("tool-result", n)}
    BY <2>2, OneOrTwoParts
  <2> QED
    BY <1>4, <2>1, <2>2, <2>3
<1>5. ASSUME NEW p \in Range(m.parts), IsCall(p)
      PROVE  m.role = "assistant"
  <2>1. m.role = "assistant" \/ m.role = "tool"
    BY <1>3, <1>5 DEF Links, WireRoles
  <2>2. m.role # "tool"
    <3> SUFFICES ASSUME m.role = "tool" PROVE FALSE
      OBVIOUS
    <3>1. PICK n \in Nat : m.parts = <<PartOf("tool-result", n)>>
      BY <1>3 DEF Links
    <3>2. Range(m.parts) = {PartOf("tool-result", n)}
      BY <3>1, OneOrTwoParts
    <3> QED
      BY <1>5, <3>2 DEF IsCall, PartOf
  <2> QED
    BY <2>1, <2>2
<1>6. \A e \in Entries : e = Entry(e.role, e.parts)
  BY DEF Entries, Entry
<1>7. ChatPayload(t) \in Seq(Entries) /\ AnsweredIn(ChatPayload(t), "tool", t)
  <2>1. PICK e \in Entries : /\ ChatEntries(m) = <<e>> /\ e.role = m.role
                             /\ e.parts = Only(m.parts, Those(PartTypes \ {"file"}))
    BY <1>3 DEF Carries
  <2>2. m.role \in {"assistant", "tool"} => e.parts = m.parts
    BY <1>3, <2>1 DEF Carries
  <2>3. Range(e.parts) \subseteq Range(m.parts)
    <3> DEFINE K == Those(PartTypes \ {"file"})
               W == {m.parts[k] : k \in DOMAIN m.parts} \cap K
               s == m.parts
    <3>1. s \in Seq(Parts)
      BY <1>3
    <3>2. e.parts \in Seq(W)
      <4> HIDE DEF K
      <4>1. Only(s, K) \in Seq({s[k] : k \in DOMAIN s} \cap K)
        BY <3>1, OnlyWithin
      <4> QED
        BY <2>1, <4>1 DEF K
    <3> HIDE DEF W
    <3>3. \A k \in DOMAIN e.parts : e.parts[k] \in W
      BY <3>2, LenProperties, ElementOfSeq
    <3>4. W \subseteq Range(m.parts)
      BY DEF W, Range
    <3> QED
      BY <3>3, <3>4 DEF Range
  <2>4. ChatPayload(t) = ChatPayload(ms) \o <<e>>
    BY <1>1, <2>1, EntriesMore
  <2>5. ChatPayload(t) = Append(ChatPayload(ms), e)
    BY <1>1, <2>4, EntryMore
  <2>6. \A p \in Range(e.parts) : IsResult(p) =>
           p \in Range(m.parts) /\ e = Entry("tool", <<p>>) /\ Includes(ms, PartOf("tool-call", p.n)) /\ ~Includes(ms, p)
    <3> SUFFICES ASSUME NEW p \in Range(e.parts), IsResult(p)
                 PROVE  p \in Range(m.parts) /\ e = Entry("tool", <<p>>) /\ Includes(ms, PartOf("tool-call", p.n)) /\ ~Includes(ms, p)
      OBVIOUS
    <3>1. p \in Range(m.parts)
      BY <2>3
    <3>2. m.role = "tool" /\ m.parts = <<p>>
      BY <1>4, <3>1
    <3>3. e = Entry("tool", <<p>>)
      BY <1>6, <2>1, <2>2, <3>2
    <3> QED
      BY <3>1, <3>2, <3>3 DEF Fitting
  <2>7. \A p \in Range(m.parts) : IsCall(p) => e.role = "assistant" /\ p \in Range(e.parts)
    BY <1>5, <2>1, <2>2
  <2> DEFINE es == ChatPayload(ms)
  <2>8. es \in Seq(Entries) /\ AnsweredIn(es, "tool", ms)
    BY <1>1
  <2> HIDE DEF es
  <2>9. AnsweredIn(Append(es, e), "tool", Append(ms, m)) /\ Append(es, e) \in Seq(Entries)
    BY <1>1, <2>6, <2>7, <2>8, AnswersStep, AppendProperties
  <2> QED
    BY <2>5, <2>9 DEF es
<1>8. OtherEntries(t) \in Seq(Entries) /\ AnsweredIn(OtherEntries(t), "user", t)
  <2>1. OtherEntries(t) = OtherEntries(ms) \o AnthropicEntries(m)
    BY <1>1, OthersMore
  <2>2. CASE m.role = "system"
    <3>1. AnthropicEntries(m) = <<>>
      BY <1>3, <2>2 DEF Carries
    <3>2. OtherEntries(ms) \o <<>> = OtherEntries(ms)
      BY <1>1, ConcatEmptySeq
    <3>3. \A p \in Range(m.parts) : ~IsCall(p)
      BY <1>3, <2>2 DEF Links
    <3> DEFINE es == OtherEntries(ms)
    <3>4. OtherEntries(t) = es
      BY <2>1, <3>1, <3>2
    <3>5. es \in Seq(Entries) /\ AnsweredIn(es, "user", ms)
      BY <1>1
    <3> HIDE DEF es
    <3>6. AnsweredIn(es, "user", Append(ms, m))
      BY <1>1, <3>3, <3>5, AnswersStay
    <3> QED
      BY <3>4, <3>5, <3>6
  <2>3. CASE m.role # "system"
    <3>1. PICK e \in Entries : AnthropicEntries(m) = <<e>> /\ e.parts = m.parts /\ e.role = IF m.role = "tool" THEN "user" ELSE m.role
      BY <1>3, <2>3 DEF Carries
    <3> DEFINE es == OtherEntries(ms)
    <3>2. es \in Seq(Entries) /\ AnsweredIn(es, "user", ms)
      BY <1>1
    <3>3. OtherEntries(t) = es \o <<e>>
      BY <2>1, <3>1
    <3> HIDE DEF es
    <3>4. OtherEntries(t) = Append(es, e)
      BY <3>2, <3>3, EntryMore
    <3>5. \A p \in Range(e.parts) : IsResult(p) =>
             p \in Range(m.parts) /\ e = Entry("user", <<p>>) /\ Includes(ms, PartOf("tool-call", p.n)) /\ ~Includes(ms, p)
      <4> SUFFICES ASSUME NEW p \in Range(e.parts), IsResult(p)
                   PROVE  p \in Range(m.parts) /\ e = Entry("user", <<p>>) /\ Includes(ms, PartOf("tool-call", p.n)) /\ ~Includes(ms, p)
        OBVIOUS
      <4>1. p \in Range(m.parts)
        BY <3>1
      <4>2. m.role = "tool" /\ m.parts = <<p>>
        BY <1>4, <4>1
      <4>3. e = Entry("user", <<p>>)
        BY <1>6, <3>1, <4>2
      <4> QED
        BY <4>1, <4>2, <4>3 DEF Fitting
    <3>6. \A p \in Range(m.parts) : IsCall(p) => e.role = "assistant" /\ p \in Range(e.parts)
      BY <1>5, <3>1
    <3>7. AnsweredIn(Append(es, e), "user", Append(ms, m)) /\ Append(es, e) \in Seq(Entries)
      BY <1>1, <3>2, <3>5, <3>6, AnswersStep, AppendProperties
    <3> QED
      BY <3>4, <3>7
  <2> QED
    BY <2>2, <2>3
<1> QED
  BY <1>2, <1>7, <1>8 DEF WireHolds

LEMMA WireBegins == WireHolds(<<>>)
<1>1. DOMAIN <<>> = {}
  OBVIOUS
<1>2. \A x : [i \in {} |-> x] = <<>>
  OBVIOUS
<1>3. Joined(<<>>) = <<>>
  BY JoinedFew
<1>4. /\ ChatPayload(<<>>) = <<>> /\ OtherEntries(<<>>) = <<>> /\ ExtractSystem(<<>>) = <<>> /\ Carried(<<>>) = <<>>
  BY <1>1, <1>3 DEF ChatPayload, OtherEntries, ExtractSystem, Carried
<1>5. ResponsesPayload(<<>>) = <<>> /\ OldMessages(<<>>) = <<>>
  BY <1>1 DEF ResponsesPayload, OldMessages
<1>6. \A K : Only(<<>>, K) = <<>>
  BY OnlyFew
<1>7. PartsHold(<<>>)
  BY <1>4, <1>5, <1>6 DEF PartsHold
<1>8. \A role : AnsweredIn(<<>>, role, <<>>)
  BY <1>1 DEF AnsweredIn, Includes
<1>9. <<>> \in Seq(Entries) /\ <<>> \in Seq(Utterances)
  BY EmptySeq
<1> QED
  BY <1>4, <1>7, <1>8, <1>9 DEF WireHolds

LEMMA WirePlusOne ==
  ASSUME WireHolds(conversation), WireNext
  PROVE  WireHolds(conversation)'
<1>1. conversation \in Seq(Utterances)
  BY DEF WireHolds
<1>2. NextNumber \in Nat
  <2>1. Len(conversation) \in Nat
    BY <1>1, LenProperties
  <2> QED
    BY <2>1 DEF NextNumber
<1>3. \E m \in Utterances : conversation' = Append(conversation, m) /\ Fitting(conversation, m)
  <2>1. CASE SystemSays \/ UserSays \/ AssistantSays
    <3>1. \E m \in Said(NextNumber) : conversation' = Append(conversation, m)
      <4>1. CASE SystemSays
        BY <4>1 DEF SystemSays, Speak, Said
      <4>2. CASE UserSays
        BY <4>2 DEF UserSays, Speak, Said
      <4>3. CASE AssistantSays
        BY <4>3 DEF AssistantSays, Speak, Said
      <4> QED
        BY <2>1, <4>1, <4>2, <4>3
    <3>2. PICK m \in Said(NextNumber) : conversation' = Append(conversation, m)
      BY <3>1
    <3>3. m \in Utterances
      <4> DEFINE A == UNION {Said(n) : n \in Nat}
                 B == {ToolAnswer(n) : n \in Nat}
      <4>1. Utterances = B \cup A
        BY DEF Utterances
      <4>2. m \in A
        BY <1>2
      <4> HIDE DEF A, B
      <4> QED
        BY <4>1, <4>2
    <3>4. m.role # "tool"
      BY DEF Said, Message
    <3> QED
      BY <3>2, <3>3, <3>4 DEF Fitting
  <2>2. CASE ToolSays
    <3>1. PICK p \in Unanswered : conversation' = Append(conversation, Message("tool", <<PartOf("tool-result", p.n)>>))
      BY <2>2 DEF ToolSays, Speak
    <3>2. /\ \E i \in DOMAIN conversation : p \in Range(conversation[i].parts)
          /\ IsCall(p) /\ \A i \in DOMAIN conversation : PartOf("tool-result", p.n) \notin Range(conversation[i].parts)
      BY DEF Unanswered
    <3>3. p \in Parts
      <4>1. PICK i \in DOMAIN conversation : p \in Range(conversation[i].parts)
        BY <3>2
      <4>2. conversation[i] \in Utterances
        BY <1>1, LenProperties, ElementOfSeq
      <4>3. conversation[i].parts \in Seq(Parts)
        BY <4>2, EntriesTyped
      <4> DEFINE s == conversation[i].parts
      <4>4. s \in Seq(Parts) /\ p \in Range(s)
        BY <4>1, <4>3
      <4> HIDE DEF s
      <4>5. \A k \in DOMAIN s : s[k] \in Parts
        BY <4>4, LenProperties, ElementOfSeq
      <4> QED
        BY <4>4, <4>5 DEF Range
    <3>4. p = PartOf("tool-call", p.n) /\ p.n \in Nat
      BY <3>2, <3>3 DEF Parts, PartOf, IsCall
    <3> DEFINE m == ToolAnswer(p.n)
               q == PartOf("tool-result", p.n)
    <3>5. m \in Utterances
      <4> DEFINE A == UNION {Said(n) : n \in Nat}
                 B == {ToolAnswer(n) : n \in Nat}
      <4>1. Utterances = B \cup A
        BY DEF Utterances
      <4>2. m \in B
        BY <3>4
      <4> HIDE DEF A, B
      <4> QED
        BY <4>1, <4>2
    <3>6. m.parts = <<q>> /\ conversation' = Append(conversation, m)
      BY <3>1 DEF ToolAnswer, Message
    <3>7. Range(m.parts) = {q} /\ q.n = p.n
      BY <3>6, OneOrTwoParts DEF PartOf
    <3>8. Includes(conversation, p) /\ ~Includes(conversation, q)
      BY <3>2 DEF Includes
    <3> HIDE DEF m, q
    <3>9. Fitting(conversation, m)
      BY <3>4, <3>7, <3>8 DEF Fitting
    <3> QED
      BY <3>5, <3>6, <3>9
  <2> QED
    BY <2>1, <2>2 DEF WireNext
<1>4. PICK m \in Utterances : conversation' = Append(conversation, m) /\ Fitting(conversation, m)
  BY <1>3
<1>5. WireHolds(Append(conversation, m))
  BY <1>4, WireStep
<1> QED
  BY <1>4, <1>5

\* A list with one item before it.
LEMMA OneBefore ==
  ASSUME NEW X, NEW x \in X, NEW t \in Seq(X)
  PROVE  /\ <<x>> \o t \in Seq(X) /\ Len(t) \in Nat /\ DOMAIN t = 1 .. Len(t)
         /\ DOMAIN (<<x>> \o t) = 1 .. 1 + Len(t) /\ (<<x>> \o t)[1] = x
         /\ \A i \in 1 .. Len(t) : (<<x>> \o t)[1 + i] = t[i]
         /\ \A i \in 2 .. 1 + Len(t) : (<<x>> \o t)[i] = t[i - 1] /\ i - 1 \in 1 .. Len(t)
<1> DEFINE one == <<x>>
           d == Len(t)
           s == one \o t
<1>1. one \in Seq(X) /\ Len(one) = 1 /\ one[1] = x
  OBVIOUS
<1>2. d \in Nat /\ DOMAIN t = 1 .. d
  BY LenProperties
<1> HIDE DEF one
<1>3. /\ s \in Seq(X) /\ Len(s) = Len(one) + d
      /\ \A i \in 1 .. Len(one) + d : s[i] = IF i <= Len(one) THEN one[i] ELSE t[i - Len(one)]
  BY <1>1, ConcatProperties
<1> HIDE DEF s, d
<1>4. DOMAIN s = 1 .. 1 + d
  BY <1>1, <1>2, <1>3, LenProperties
<1>5. 1 \in 1 .. 1 + d /\ 1 <= 1
  BY <1>2
<1>6. \A i \in 2 .. 1 + d : i \in 1 .. 1 + d /\ ~(i <= 1) /\ i - 1 \in 1 .. d
  BY <1>2
<1>7. \A i \in 1 .. d : 1 + i \in 1 .. 1 + d /\ ~(1 + i <= 1) /\ (1 + i) - 1 = i
  BY <1>2
<1>8. s[1] = x
  BY <1>1, <1>3, <1>5
<1>9. \A i \in 2 .. 1 + d : s[i] = t[i - 1] /\ i - 1 \in 1 .. d
  BY <1>1, <1>3, <1>6
<1>10. \A i \in 1 .. d : s[1 + i] = t[i]
  BY <1>1, <1>3, <1>7
<1> QED
  BY <1>2, <1>3, <1>4, <1>8, <1>9, <1>10 DEF s, d, one

LEMMA WireReaches ==
  ASSUME WireHolds(conversation)
  PROVE  PartsReachModel /\ ResultsAnswerCalls
<1> DEFINE ms == conversation
<1>1. /\ ms \in Seq(Utterances) /\ PartsHold(ms)
      /\ ChatPayload(ms) \in Seq(Entries) /\ AnsweredIn(ChatPayload(ms), "tool", ms)
      /\ OtherEntries(ms) \in Seq(Entries) /\ AnsweredIn(OtherEntries(ms), "user", ms)
  BY DEF WireHolds
<1>2. AllParts = Carried(ms)
  BY DEF AllParts, Carried
<1> DEFINE sys == Entry("system", ExtractSystem(ms))
           others == OtherEntries(ms)
           K == Those({"system"})
<1>3. AnthropicPayload(ms) = <<sys>> \o others
  BY DEF AnthropicPayload, OtherEntries
<1>4. /\ RequestOf("chat", ms) = ChatPayload(ms) /\ RequestOf("anthropic", ms) = AnthropicPayload(ms)
      /\ RequestOf("responses", ms) = ResponsesPayload(ms) /\ RequestOf("legacy", ms) = OldMessages(ms)
  BY DEF RequestOf
<1>5. ExtractSystem(ms) \in Seq(Parts) /\ \A p \in Range(ExtractSystem(ms)) : ~IsResult(p) /\ ~IsCall(p)
  <2> DEFINE s == Carried(ms)
             x == Only(s, K)
  <2>1. s \in Seq(Parts)
    <3>2. \A u \in Utterances : u.parts \in Seq(Parts)
      BY EntriesTyped
    <3>3. \E u : u \in Utterances
      <4> DEFINE A == UNION {Said(n) : n \in Nat}
                 B == {ToolAnswer(n) : n \in Nat}
      <4>1. Utterances = B \cup A /\ ToolAnswer(0) \in B
        BY DEF Utterances
      <4> HIDE DEF A, B
      <4> QED
        BY <4>1
    <3> QED
      BY <1>1, <3>2, <3>3, CarriedMore
  <2>2. ExtractSystem(ms) = x
    BY <1>1 DEF PartsHold
  <2> HIDE DEF s, K
  <2>3. x \in Seq({s[k] : k \in DOMAIN s} \cap K)
    BY <2>1, OnlyWithin
  <2>4. \A k \in DOMAIN s : s[k] \in Parts
    BY <2>1, LenProperties, ElementOfSeq
  <2> DEFINE W == {s[k] : k \in DOMAIN s} \cap K
  <2>5. W \subseteq Parts /\ W \subseteq K /\ x \in Seq(W)
    BY <2>3, <2>4
  <2> HIDE DEF W, x
  <2>6. \A k \in DOMAIN x : x[k] \in Parts /\ x[k] \in K
    BY <2>5, LenProperties, ElementOfSeq
  <2>7. x \in Seq(Parts)
    <3>1. Len(x) \in Nat /\ DOMAIN x = 1 .. Len(x) /\ x = [k \in 1 .. Len(x) |-> x[k]]
      BY <2>5, LenProperties
    <3>2. x \in [1 .. Len(x) -> Parts]
      BY <2>6, <3>1
    <3> QED
      BY <3>1, <3>2, SeqDef
  <2>8. \A p \in K : ~IsResult(p) /\ ~IsCall(p)
    BY DEF K, Those, IsResult, IsCall
  <2> QED
    BY <2>2, <2>6, <2>7, <2>8 DEF Range
<1>6. sys \in Entries /\ sys.parts = ExtractSystem(ms) /\ sys.role = "system"
  BY <1>5 DEF Entry, Entries, WireRoles
<1>7. PartsReachModel
  <2>1. Carried(<<sys>> \o others) = sys.parts \o Carried(others)
    <3> DEFINE s == <<sys>> \o others
               a == << sys.parts >>
               b == [i \in DOMAIN others |-> others[i].parts]
               c == [i \in DOMAIN s |-> s[i].parts]
               d == Len(others)
    <3>1. /\ a \in Seq(Seq(Parts)) /\ Len(a) = 1 /\ a[1] = sys.parts
      BY <1>5, <1>6
    <3>2. d \in Nat /\ DOMAIN others = 1 .. d /\ \A i \in 1 .. d : others[i] \in Entries
      BY <1>1, LenProperties, ElementOfSeq
    <3>4. /\ s \in Seq(Entries) /\ DOMAIN s = 1 .. 1 + d /\ s[1] = sys /\ \A i \in 1 .. d : s[1 + i] = others[i]
      <4> HIDE DEF sys, others
      <4>1. sys \in Entries /\ others \in Seq(Entries)
        BY <1>1, <1>6 DEF others
      <4> QED
        BY <4>1, OneBefore
    <3> HIDE DEF s, d
    <3>5. /\ c = [i \in 1 .. 1 + d |-> s[i].parts] /\ b = [i \in 1 .. d |-> others[i].parts]
      BY <3>2, <3>4
    <3>6. \A i \in 1 .. 1 + d : s[i] \in Entries
      BY <3>4, ElementOfSeq, LenProperties
    <3>7. \A e \in Entries : e.parts \in Seq(Parts)
      BY DEF Entries
    <3> HIDE DEF b, c
    <3>9. b \in [1 .. d -> Seq(Parts)] /\ c \in [1 .. 1 + d -> Seq(Parts)]
      BY <3>2, <3>5, <3>6, <3>7
    <3>10. b \in Seq(Seq(Parts)) /\ Len(b) = d
      <4>1. b \in Seq(Seq(Parts)) /\ DOMAIN b = 1 .. d
        BY <3>2, <3>9, SeqDef
      <4> QED
        BY <3>2, <4>1, LenProperties
    <3>11. c \in Seq(Seq(Parts)) /\ Len(c) = 1 + d
      <4>1. 1 + d \in Nat
        BY <3>2
      <4>2. c \in Seq(Seq(Parts)) /\ DOMAIN c = 1 .. 1 + d
        BY <3>9, <4>1, SeqDef
      <4> QED
        BY <4>1, <4>2, LenProperties
    <3>12. c[1] = sys.parts /\ \A i \in 1 .. d : c[1 + i] = b[i]
      <4>1. 1 \in 1 .. 1 + d /\ \A i \in 1 .. d : 1 + i \in 1 .. 1 + d
        BY <3>2
      <4> QED
        BY <3>4, <3>5, <4>1
    <3>13. Joined(a) = sys.parts
      BY <1>5, <1>6, JoinedFew
    <3> HIDE DEF a
    <3>14. /\ Len(c) = Len(a) + Len(b) /\ \A i \in 1 .. Len(a) : c[i] = a[i]
           /\ \A i \in 1 .. Len(b) : c[Len(a) + i] = b[i]
      BY <3>1, <3>10, <3>11, <3>12
    <3>15. Joined(c) = Joined(a) \o Joined(b)
      BY <3>1, <3>10, <3>11, <3>14, JoinedTwo
    <3>16. Carried(s) = Joined(c) /\ Carried(others) = Joined(b)
      BY DEF Carried, b, c
    <3> QED
      BY <3>13, <3>15, <3>16 DEF s
  <2> HIDE DEF ms
  <2>2. Carried(ChatPayload(ms)) = Only(Carried(ms), Those(PartTypes \ {"file"}))
    BY <1>1 DEF PartsHold
  <2>3. Carried(AnthropicPayload(ms)) = Only(Carried(ms), Those({"system"})) \o Only(Carried(ms), Those(PartTypes \ {"system"}))
    BY <1>1, <1>3, <1>6, <2>1 DEF PartsHold
  <2>4. /\ Only(Carried(ResponsesPayload(ms)), Those({"text"})) = Only(Carried(ms), Those({"text"}))
        /\ Only(Carried(OldMessages(ms)), Those({"text"})) = Only(Carried(ms), Those({"text"}))
    BY <1>1 DEF PartsHold
  <2> QED
    BY <1>2, <1>4, <2>2, <2>3, <2>4 DEF PartsReachModel, ms
<1>8. ResultsAnswerCalls
  <2>1. ASSUME NEW es, NEW role, AnsweredIn(es, role, ms), NEW i \in DOMAIN es, NEW k \in DOMAIN es[i].parts,
               IsResult(es[i].parts[k])
        PROVE  LET p == es[i].parts[k] IN
               /\ es[i] = Entry(role, <<p>>)
               /\ \E j \in 1 .. (i - 1) : es[j].role = "assistant" /\ PartOf("tool-call", p.n) \in Range(es[j].parts)
               /\ \A j \in DOMAIN es : p \in Range(es[j].parts) => j = i
    <3>1. es[i].parts[k] \in Range(es[i].parts)
      BY DEF Range
    <3> QED
      BY <2>1, <3>1 DEF AnsweredIn
  <2>2. AnsweredIn(AnthropicPayload(ms), "user", ms)
    <3> DEFINE s == <<sys>> \o others
               d == Len(others)
    <3>5. /\ d \in Nat /\ DOMAIN others = 1 .. d /\ DOMAIN s = 1 .. 1 + d /\ s[1] = sys
          /\ \A i \in 2 .. 1 + d : s[i] = others[i - 1] /\ i - 1 \in 1 .. d
          /\ \A i \in 1 .. d : s[1 + i] = others[i]
      <4> HIDE DEF sys, others
      <4>1. sys \in Entries /\ others \in Seq(Entries)
        BY <1>1, <1>6 DEF others
      <4> QED
        BY <4>1, OneBefore
    <3>2. d \in Nat /\ DOMAIN others = 1 .. d
      BY <3>5
    <3> HIDE DEF s
    <3> HIDE DEF d, sys, others
    <3>6. /\ \A i \in 1 .. 1 + d : i = 1 \/ i \in 2 .. 1 + d
          /\ \A i \in 1 .. d : 1 + i \in 1 .. 1 + d /\ 1 + i \in 2 .. 1 + d /\ (1 + i) - 1 = i
      BY <3>2
    <3>7. \A i \in 2 .. 1 + d : \A j \in 1 .. ((i - 1) - 1) : 1 + j \in 1 .. (i - 1) /\ j \in 1 .. d
      BY <3>2
    <3>8. \A i, j \in 2 .. 1 + d : i - 1 = j - 1 => i = j
      BY <3>2
    <3>9. \A j \in 1 .. d : s[1 + j] = others[j]
      BY <3>5, <3>6
    <3>10. \A i \in 2 .. 1 + d : 2 \in Nat /\ i - 1 \in DOMAIN others
      BY <3>2, <3>5
    <3>11. ASSUME NEW i \in DOMAIN s, NEW p \in Range(s[i].parts), IsResult(p)
           PROVE  /\ s[i] = Entry("user", <<p>>)
                  /\ \E j \in 1 .. (i - 1) : s[j].role = "assistant" /\ PartOf("tool-call", p.n) \in Range(s[j].parts)
                  /\ \A j \in DOMAIN s : p \in Range(s[j].parts) => j = i
                  /\ Includes(ms, p)
      <4>1. p \notin Range(sys.parts)
        BY <1>5, <1>6, <3>11
      <4>2. i \in 2 .. 1 + d
        BY <3>5, <3>6, <3>11, <4>1
      <4> DEFINE o == i - 1
      <4>3. o \in DOMAIN others /\ p \in Range(others[o].parts) /\ s[i] = others[o]
        BY <3>2, <3>5, <3>11, <4>2
      <4>4. /\ others[o] = Entry("user", <<p>>)
            /\ \E j \in 1 .. (o - 1) : others[j].role = "assistant" /\ PartOf("tool-call", p.n) \in Range(others[j].parts)
            /\ \A j \in DOMAIN others : p \in Range(others[j].parts) => j = o
            /\ Includes(ms, p)
        <5> HIDE DEF o
        <5> QED
          BY <1>1, <3>11, <4>3 DEF AnsweredIn, others
      <4>5. PICK j \in 1 .. (o - 1) : others[j].role = "assistant" /\ PartOf("tool-call", p.n) \in Range(others[j].parts)
        BY <4>4
      <4>6. 1 + j \in 1 .. (i - 1) /\ s[1 + j] = others[j]
        BY <3>7, <3>9, <4>2
      <4>7. \A k \in DOMAIN s : p \in Range(s[k].parts) => k = i
        <5> SUFFICES ASSUME NEW k \in DOMAIN s, p \in Range(s[k].parts) PROVE k = i
          OBVIOUS
        <5>1. k \in 2 .. 1 + d
          BY <3>5, <3>6, <4>1
        <5>2. s[k] = others[k - 1] /\ k - 1 \in DOMAIN others
          BY <3>5, <3>10, <5>1
        <5>3. k - 1 = i - 1
          BY <4>4, <5>2
        <5> QED
          BY <3>8, <4>2, <5>1, <5>3
      <4> QED
        BY <4>3, <4>4, <4>5, <4>6, <4>7
    <3>12. ASSUME NEW p, IsCall(p), Includes(ms, p)
           PROVE  \E j \in DOMAIN s : s[j].role = "assistant" /\ p \in Range(s[j].parts)
      <4>1. PICK j \in DOMAIN others : others[j].role = "assistant" /\ p \in Range(others[j].parts)
        BY <1>1, <3>12 DEF AnsweredIn, others
      <4>2. 1 + j \in DOMAIN s /\ s[1 + j] = others[j]
        BY <3>2, <3>5, <3>6, <3>9
      <4> QED
        BY <4>1, <4>2
    <3>13. AnsweredIn(s, "user", ms)
      BY <3>11, <3>12 DEF AnsweredIn
    <3> QED
      BY <1>3, <3>13 DEF s, sys, others
  <2> DEFINE chat == RequestOf("chat", ms)
             anthropic == RequestOf("anthropic", ms)
  <2>3. AnsweredIn(chat, "tool", ms) /\ AnsweredIn(anthropic, "user", ms)
    BY <1>1, <1>4, <2>2
  <2> HIDE DEF chat, anthropic
  <2>4. \A i \in DOMAIN chat : \A k \in DOMAIN chat[i].parts :
          LET p == chat[i].parts[k] IN
          IsResult(p) =>
            /\ chat[i] = Entry("tool", <<p>>)
            /\ \E j \in 1 .. (i - 1) : chat[j].role = "assistant" /\ PartOf("tool-call", p.n) \in Range(chat[j].parts)
            /\ \A j \in DOMAIN chat : p \in Range(chat[j].parts) => j = i
    BY <2>1, <2>3
  <2>5. \A i \in DOMAIN anthropic : \A k \in DOMAIN anthropic[i].parts :
          LET p == anthropic[i].parts[k] IN
          IsResult(p) =>
            /\ anthropic[i] = Entry("user", <<p>>)
            /\ \E j \in 1 .. (i - 1) : anthropic[j].role = "assistant" /\ PartOf("tool-call", p.n) \in Range(anthropic[j].parts)
            /\ \A j \in DOMAIN anthropic : p \in Range(anthropic[j].parts) => j = i
    BY <2>1, <2>3
  <2> QED
    BY <2>4, <2>5 DEF ResultsAnswerCalls, chat, anthropic
<1> QED
  BY <1>7, <1>8
\* Whatever is said: what the requests carry reaches the model.
THEOREM WireReachesModel == WireSpec => [](PartsReachModel /\ ResultsAnswerCalls)
<1>1. WireInit => WireHolds(conversation)
  BY WireBegins DEF WireInit
<1>2. WireHolds(conversation) /\ [WireNext]_wireVars => WireHolds(conversation)'
  BY WirePlusOne DEF wireVars
<1>3. WireHolds(conversation) => PartsReachModel /\ ResultsAnswerCalls
  BY WireReaches
<1> QED
  BY <1>1, <1>2, <1>3, PTL DEF WireSpec
=============================================================================
