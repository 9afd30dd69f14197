--------------------------- MODULE SharedTheorems ---------------------------
(***************************************************************************)
(* Facts about the operators that several components are built from, which *)
(* the proofs about the components cite: the pools of FifoPermits, the     *)
(* lists of Lists, their sums and joins, lists that grow, and what is      *)
(* reached from 0 step by step.                                            *)
(***************************************************************************)
EXTENDS FifoPermits, Lists, FiniteSetTheorems, FunctionTheorems, SequenceTheorems, TLAPS

\* At most one holder: what a pool of capacity one is for.
Sole(pool) == \A p, q \in pool.holders : p = q

\* Leaving the line, wherever one stands, leaves a line.
LEMMA StepOutType ==
  ASSUME NEW P, NEW p, NEW q \in Seq(P)
  PROVE  StepOut(q, p) \in Seq(P)
<1>1. CASE \E i \in 1 .. Len(q) : q[i] = p
  <2> DEFINE i == CHOOSE j \in 1 .. Len(q) : q[j] = p
  <2>1. i \in 1 .. Len(q)
    BY <1>1
  <2>2. Len(q) \in Nat /\ \A j \in 1 .. Len(q) : q[j] \in P
    BY LenProperties, ElementOfSeq
  <2> HIDE DEF i
  <2>3. i \in Int /\ i - 1 \in Int /\ i + 1 \in Int /\ Len(q) \in Int /\ 1 \in Int
    BY <2>1, <2>2
  <2>4. /\ \A j \in 1 .. (i - 1) : q[j] \in P
        /\ \A j \in (i + 1) .. Len(q) : q[j] \in P
    BY <2>1, <2>2
  <2>5. SubSeq(q, 1, i - 1) \in Seq(P)
    BY <2>3, <2>4, SubSeqProperties
  <2>6. SubSeq(q, i + 1, Len(q)) \in Seq(P)
    BY <2>3, <2>4, SubSeqProperties
  <2>7. SubSeq(q, 1, i - 1) \o SubSeq(q, i + 1, Len(q)) \in Seq(P)
    BY <2>5, <2>6, ConcatProperties
  <2> QED
    BY <1>1, <2>7 DEF StepOut, i
<1>2. CASE ~ \E i \in 1 .. Len(q) : q[i] = p
  BY <1>2 DEF StepOut
<1> QED
  BY <1>1, <1>2

\* Every operator returns a pool.
LEMMA PoolType ==
  ASSUME NEW P, NEW pool \in PermitPool(P), NEW p \in P, NEW capacity
  PROVE  /\ Join(pool, p, capacity) \in PermitPool(P)
         /\ Release(pool, p) \in PermitPool(P)
         /\ Leave(pool, p) \in PermitPool(P)
<1> /\ pool = [holders |-> pool.holders, queue |-> pool.queue]
    /\ pool.holders \in SUBSET P
    /\ pool.queue \in Seq(P)
  BY DEF PermitPool
<1>1. Join(pool, p, capacity) \in PermitPool(P)
  <2>1. Append(pool.queue, p) \in Seq(P)
    BY AppendProperties
  <2> QED
    BY <2>1 DEF Join, PermitPool
<1>2. Release(pool, p) \in PermitPool(P)
  <2>1. CASE pool.queue = <<>>
    BY <2>1 DEF Release, PermitPool
  <2>2. CASE pool.queue # <<>>
    <3>1. Head(pool.queue) \in P /\ Tail(pool.queue) \in Seq(P)
      BY <2>2, HeadTailProperties
    <3> QED
      BY <2>2, <3>1 DEF Release, PermitPool
  <2> QED
    BY <2>1, <2>2
<1>3. Leave(pool, p) \in PermitPool(P)
  BY <1>2, StepOutType DEF Leave, PermitPool
<1> QED
  BY <1>1, <1>2, <1>3

\* A free pool of capacity one has no holder.
LEMMA FreeIsEmpty ==
  ASSUME NEW pool, Sole(pool), CanEnter(pool, 1)
  PROVE  pool.holders = {}
<1> SUFFICES ASSUME NEW x \in pool.holders PROVE FALSE
  OBVIOUS
<1>1. pool.holders = {x}
  BY DEF Sole
<1>2. Cardinality({x}) = 1
  BY FS_Singleton
<1> QED
  BY <1>1, <1>2 DEF CanEnter

\* Joining a pool of capacity one: alone in it, or in line behind its holder.
LEMMA SoleJoin ==
  ASSUME NEW P, NEW pool \in PermitPool(P), NEW p \in P, Sole(pool)
  PROVE  /\ Sole(Join(pool, p, 1))
         /\ CanEnter(pool, 1) => Join(pool, p, 1).holders = {p}
         /\ ~CanEnter(pool, 1) => Join(pool, p, 1).holders = pool.holders
<1> pool = [holders |-> pool.holders, queue |-> pool.queue]
  BY DEF PermitPool
<1>1. CASE CanEnter(pool, 1)
  <2>1. pool.holders = {}
    BY <1>1, FreeIsEmpty
  <2> QED
    BY <1>1, <2>1 DEF Join, Sole
<1>2. CASE ~CanEnter(pool, 1)
  BY <1>2 DEF Join, Sole
<1> QED
  BY <1>1, <1>2

\* Leaving a pool of capacity one: its only holder hands it to at most one
\* successor, and a waiter that gives up disturbs nobody else.
LEMMA SoleLeave ==
  ASSUME NEW P, NEW pool \in PermitPool(P), NEW p \in P, Sole(pool)
  PROVE  /\ Sole(Leave(pool, p))
         /\ p \in pool.holders => Sole(Release(pool, p)) /\ Leave(pool, p) = Release(pool, p)
         /\ \A q \in pool.holders : q # p => q \in Leave(pool, p).holders
<1> pool = [holders |-> pool.holders, queue |-> pool.queue]
  BY DEF PermitPool
<1>1. CASE p \in pool.holders
  <2>1. pool.holders = {p}
    BY <1>1 DEF Sole
  <2>2. Leave(pool, p) = Release(pool, p)
    BY <1>1 DEF Leave
  <2>3. Sole(Release(pool, p))
    BY <2>1 DEF Release, Sole
  <2> QED
    BY <2>1, <2>2, <2>3
<1>2. CASE p \notin pool.holders
  BY <1>2 DEF Leave, Sole
<1> QED
  BY <1>1, <1>2
-----------------------------------------------------------------------------
(***************************************************************************)
(* Pools of any capacity.                                                  *)
(***************************************************************************)

\* The one stands in the line; holds a permit or waits for one.
InLine(q, x)  == \E i \in 1 .. Len(q) : q[i] = x
Uses(pool, x) == x \in pool.holders \/ InLine(pool.queue, x)

\* Nobody stands in line twice, or while holding a permit.
OrderlyPool(pool) ==
  /\ \A i, j \in 1 .. Len(pool.queue) : pool.queue[i] = pool.queue[j] => i = j
  /\ \A i \in 1 .. Len(pool.queue) : pool.queue[i] \notin pool.holders

\* There are no more holders than permits.
WithinLimit(pool, capacity) ==
  IsFiniteSet(pool.holders) /\ Cardinality(pool.holders) <= capacity

\* Leaving a line in which nobody stands twice takes out the one who leaves.
LEMMA StepOutElements ==
  ASSUME NEW P, NEW p, NEW q \in Seq(P),
         \A i, j \in 1 .. Len(q) : q[i] = q[j] => i = j
  PROVE  /\ \A i, j \in 1 .. Len(StepOut(q, p)) : StepOut(q, p)[i] = StepOut(q, p)[j] => i = j
         /\ \A x : InLine(StepOut(q, p), x) <=> InLine(q, x) /\ x # p
         /\ Len(q) > 0 /\ q[1] # p => Len(StepOut(q, p)) > 0 /\ StepOut(q, p)[1] = q[1]
         /\ \A i, j \in 1 .. Len(StepOut(q, p)) : i < j =>
              \E k, l \in 1 .. Len(q) : k < l /\ StepOut(q, p)[i] = q[k] /\ StepOut(q, p)[j] = q[l]
<1>1. CASE InLine(q, p)
  <2> DEFINE k == CHOOSE j \in 1 .. Len(q) : q[j] = p
             a == SubSeq(q, 1, k - 1)
             b == SubSeq(q, k + 1, Len(q))
  <2>1. k \in 1 .. Len(q) /\ q[k] = p
    BY <1>1 DEF InLine
  <2>2. Len(q) \in Nat /\ \A j \in 1 .. Len(q) : q[j] \in P
    BY LenProperties, ElementOfSeq
  <2>3. StepOut(q, p) = a \o b
    BY <1>1 DEF StepOut, InLine
  <2> HIDE DEF k
  <2>4. k \in Int /\ k - 1 \in Int /\ k + 1 \in Int /\ Len(q) \in Int /\ 1 \in Int
    BY <2>1, <2>2
  <2>5. /\ \A j \in 1 .. (k - 1) : q[j] \in P
        /\ \A j \in (k + 1) .. Len(q) : q[j] \in P
    BY <2>1, <2>2
  <2>6. /\ a \in Seq(P) /\ Len(a) = k - 1 /\ \A i \in 1 .. k - 1 : a[i] = q[i]
    <3>1. /\ a \in Seq(P) /\ Len(a) = IF 1 <= k - 1 THEN (k - 1) - 1 + 1 ELSE 0
          /\ \A i \in 1 .. (k - 1) - 1 + 1 : a[i] = q[1 + i - 1]
      BY <2>4, <2>5, SubSeqProperties
    <3> QED
      BY <3>1, <2>1, <2>4
  <2>7. /\ b \in Seq(P) /\ Len(b) = Len(q) - k
        /\ \A i \in 1 .. Len(q) - k : b[i] = q[k + i]
    <3>1. /\ b \in Seq(P) /\ Len(b) = IF k + 1 <= Len(q) THEN Len(q) - (k + 1) + 1 ELSE 0
          /\ \A i \in 1 .. Len(q) - (k + 1) + 1 : b[i] = q[(k + 1) + i - 1]
      BY <2>4, <2>5, SubSeqProperties
    <3> QED
      BY <3>1, <2>1, <2>4
  <2> HIDE DEF a, b
  <2>8. /\ Len(a \o b) = Len(q) - 1
        /\ \A i \in 1 .. Len(q) - 1 : (a \o b)[i] = IF i < k THEN q[i] ELSE q[i + 1]
    <3>1. /\ Len(a \o b) = (k - 1) + (Len(q) - k)
          /\ \A i \in 1 .. (k - 1) + (Len(q) - k) :
               (a \o b)[i] = IF i <= k - 1 THEN a[i] ELSE b[i - (k - 1)]
      <4>1. /\ Len(a \o b) = Len(a) + Len(b)
            /\ \A i \in 1 .. Len(a) + Len(b) :
                 (a \o b)[i] = IF i <= Len(a) THEN a[i] ELSE b[i - Len(a)]
        BY <2>6, <2>7, ConcatProperties
      <4> QED
        BY <4>1, <2>6, <2>7, Zenon
    <3>2. Len(a \o b) = Len(q) - 1
      BY <3>1, <2>1, <2>4
    <3>3. ASSUME NEW i \in 1 .. Len(q) - 1
          PROVE  (a \o b)[i] = IF i < k THEN q[i] ELSE q[i + 1]
      <4>1. CASE i < k
        BY <4>1, <3>1, <2>1, <2>4, <2>6
      <4>2. CASE ~(i < k)
        <5>1. i - (k - 1) \in 1 .. Len(q) - k /\ k + (i - (k - 1)) = i + 1
          BY <4>2, <2>1, <2>4
        <5>2. (a \o b)[i] = b[i - (k - 1)]
          BY <4>2, <3>1, <2>1, <2>4
        <5> QED
          BY <4>2, <5>1, <5>2, <2>7
      <4> QED
        BY <4>1, <4>2
    <3> QED
      BY <3>2, <3>3
  <2>9. ASSUME NEW i \in 1 .. Len(q) - 1, NEW j \in 1 .. Len(q) - 1, (a \o b)[i] = (a \o b)[j]
        PROVE  i = j
    <3> DEFINE at(n) == IF n < k THEN n ELSE n + 1
    <3>1. \A n \in 1 .. Len(q) - 1 : at(n) \in 1 .. Len(q) /\ (a \o b)[n] = q[at(n)]
      BY <2>1, <2>4, <2>8
    <3>2. at(i) = at(j)
      <4> HIDE DEF at
      <4> QED
        BY <2>9, <3>1
    <3>3. i \in Int /\ j \in Int
      BY <2>4
    <3> QED
      BY <3>2, <3>3, <2>4
  <2>10. ASSUME NEW x
         PROVE  InLine(a \o b, x) <=> InLine(q, x) /\ x # p
    <3>1. ASSUME NEW i \in 1 .. Len(q) - 1, (a \o b)[i] = x
          PROVE  InLine(q, x) /\ x # p
      BY <2>1, <2>4, <2>8, <3>1 DEF InLine
    <3>2. ASSUME NEW j \in 1 .. Len(q), q[j] = x, x # p
          PROVE  \E i \in 1 .. Len(q) - 1 : (a \o b)[i] = x
      <4>1. CASE j < k
        BY <3>2, <4>1, <2>1, <2>4, <2>8
      <4>2. CASE j > k
        <5>1. j - 1 \in 1 .. Len(q) - 1 /\ ~(j - 1 < k) /\ (j - 1) + 1 = j
          BY <4>2, <2>1, <2>4
        <5>2. (a \o b)[j - 1] = x
          BY <3>2, <5>1, <2>8
        <5> QED
          BY <5>1, <5>2
      <4>3. j # k
        BY <3>2, <2>1
      <4>4. j \in Int
        BY <2>4
      <4>5. j < k \/ j > k
        BY <4>3, <4>4, <2>4
      <4> QED
        BY <4>1, <4>2, <4>5, Zenon
    <3> QED
      BY <2>8, <3>1, <3>2 DEF InLine
  <2>11. ASSUME Len(q) > 0, q[1] # p PROVE Len(a \o b) > 0 /\ (a \o b)[1] = q[1]
    <3>1. 1 < k
      BY <2>1, <2>4, <2>11
    <3>2. 1 \in 1 .. Len(q) - 1
      BY <2>1, <2>4, <3>1
    <3> QED
      BY <2>4, <2>8, <3>1, <3>2
  <2>12. ASSUME NEW i \in 1 .. Len(q) - 1, NEW j \in 1 .. Len(q) - 1, i < j
         PROVE  \E m, n \in 1 .. Len(q) : m < n /\ (a \o b)[i] = q[m] /\ (a \o b)[j] = q[n]
    <3> DEFINE at(n) == IF n < k THEN n ELSE n + 1
    <3>1. \A n \in 1 .. Len(q) - 1 : at(n) \in 1 .. Len(q) /\ (a \o b)[n] = q[at(n)]
      BY <2>1, <2>4, <2>8
    <3>2. at(i) < at(j)
      BY <2>4, <2>12
    <3> HIDE DEF at
    <3> QED
      BY <3>1, <3>2
  <2> DEFINE r == a \o b
  <2>13. StepOut(q, p) = r /\ Len(r) = Len(q) - 1
    BY <2>3, <2>8
  <2>14. \A i, j \in 1 .. Len(q) - 1 : r[i] = r[j] => i = j
    BY <2>9
  <2>15. \A x : InLine(r, x) <=> InLine(q, x) /\ x # p
    BY <2>10
  <2>16. \A i, j \in 1 .. Len(q) - 1 :
           i < j => \E m, n \in 1 .. Len(q) : m < n /\ r[i] = q[m] /\ r[j] = q[n]
    BY <2>12
  <2>17. Len(q) > 0 /\ q[1] # p => Len(r) > 0 /\ r[1] = q[1]
    BY <2>11
  <2> HIDE DEF r
  <2> QED
    BY <2>13, <2>14, <2>15, <2>16, <2>17
<1>2. CASE ~InLine(q, p)
  <2>1. StepOut(q, p) = q
    BY <1>2 DEF StepOut, InLine
  <2> QED
    BY <1>2, <2>1
<1> QED
  BY <1>1, <1>2

\* A newcomer is let in or joins the line, and changes nothing for the others.
LEMMA OrderlyJoin ==
  ASSUME NEW P, NEW pool \in PermitPool(P), NEW p \in P, NEW capacity,
         OrderlyPool(pool), ~Uses(pool, p)
  PROVE  /\ OrderlyPool(Join(pool, p, capacity))
         /\ \A x : Uses(Join(pool, p, capacity), x) <=> Uses(pool, x) \/ x = p
         /\ pool.holders \subseteq Join(pool, p, capacity).holders
<1> /\ pool.queue \in Seq(P) /\ Len(pool.queue) \in Nat
  BY LenProperties DEF PermitPool
<1>1. CASE CanEnter(pool, capacity)
  <2>1. Join(pool, p, capacity) = [holders |-> pool.holders \cup {p}, queue |-> pool.queue]
    BY <1>1 DEF Join
  <2>2. \A i \in 1 .. Len(pool.queue) : pool.queue[i] # p
    BY DEF Uses, InLine
  <2> QED
    BY <2>1, <2>2 DEF OrderlyPool, Uses
<1>2. CASE ~CanEnter(pool, capacity)
  <2> DEFINE q == pool.queue
             r == Append(q, p)
  <2>1. Join(pool, p, capacity) = [holders |-> pool.holders, queue |-> r]
    BY <1>2 DEF Join
  <2>2. Len(r) = Len(q) + 1 /\ r[Len(q) + 1] = p /\ \A i \in 1 .. Len(q) : r[i] = q[i]
    BY AppendProperties
  <2> HIDE DEF r
  <2>3. 1 .. Len(r) = 1 .. Len(q) \cup {Len(q) + 1}
    BY <2>2
  <2>4. \A i \in 1 .. Len(q) : q[i] # p
    BY DEF Uses, InLine
  <2>5. \A x : InLine(r, x) <=> InLine(q, x) \/ x = p
    BY <2>2, <2>3 DEF InLine
  <2>6. \A i, j \in 1 .. Len(r) : r[i] = r[j] => i = j
    BY <2>2, <2>3, <2>4 DEF OrderlyPool
  <2>7. \A i \in 1 .. Len(r) : r[i] \notin pool.holders
    BY <2>2, <2>3 DEF OrderlyPool, Uses
  <2> QED
    BY <2>1, <2>5, <2>6, <2>7 DEF OrderlyPool, Uses
<1> QED
  BY <1>1, <1>2

\* Who leaves is gone, from the line or with the permit, which goes to the
\* head of the line.
LEMMA OrderlyLeave ==
  ASSUME NEW P, NEW pool \in PermitPool(P), NEW p \in P, OrderlyPool(pool)
  PROVE  /\ OrderlyPool(Leave(pool, p))
         /\ \A x : Uses(Leave(pool, p), x) <=> Uses(pool, x) /\ x # p
         /\ pool.holders \ {p} \subseteq Leave(pool, p).holders
<1> DEFINE q == pool.queue
<1> /\ q \in Seq(P) /\ Len(q) \in Nat
  BY LenProperties DEF PermitPool
<1>1. CASE p \in pool.holders /\ q = <<>>
  <2>1. Leave(pool, p) = [holders |-> pool.holders \ {p}, queue |-> <<>>]
    BY <1>1 DEF Leave, Release
  <2>2. Len(<<>>) = 0 /\ 1 .. 0 = {}
    BY EmptySeq
  <2> QED
    BY <1>1, <2>1, <2>2 DEF OrderlyPool, Uses, InLine
<1>2. CASE p \in pool.holders /\ q # <<>>
  <2> DEFINE r == Tail(q)
             h == Head(q)
  <2>1. Leave(pool, p) = [holders |-> (pool.holders \ {p}) \cup {h}, queue |-> r]
    BY <1>2 DEF Leave, Release
  <2>2. Len(r) = Len(q) - 1 /\ h = q[1] /\ Len(q) > 0 /\ \A i \in 1 .. Len(r) : r[i] = q[i + 1]
    BY <1>2, HeadTailProperties, EmptySeq
  <2> HIDE DEF r, h
  <2>3. 1 \in 1 .. Len(q) /\ \A i \in 1 .. Len(r) : i + 1 \in 1 .. Len(q) /\ i + 1 # 1
    BY <2>2
  <2>4. \A i \in 1 .. Len(q) : i = 1 \/ (i - 1 \in 1 .. Len(r) /\ (i - 1) + 1 = i)
    BY <2>2
  <2>5. \A i \in 1 .. Len(r) : r[i] # h /\ r[i] \notin pool.holders
    BY <2>2, <2>3 DEF OrderlyPool
  <2>6. \A i, j \in 1 .. Len(r) : r[i] = r[j] => i = j
    <3> SUFFICES ASSUME NEW i \in 1 .. Len(r), NEW j \in 1 .. Len(r), r[i] = r[j] PROVE i = j
      OBVIOUS
    <3>1. q[i + 1] = q[j + 1]
      BY <2>2
    <3>2. i + 1 = j + 1
      BY <3>1, <2>3 DEF OrderlyPool
    <3> QED
      BY <3>2
  <2>7. \A x : InLine(q, x) <=> InLine(r, x) \/ x = h
    <3>1. \A i \in 1 .. Len(q) : q[i] = h \/ \E j \in 1 .. Len(r) : q[i] = r[j]
      BY <2>2, <2>4
    <3> QED
      BY <3>1, <2>2, <2>3 DEF InLine
  <2>8. \A i \in 1 .. Len(q) : q[i] # p
    BY <1>2 DEF OrderlyPool
  <2>9. OrderlyPool(Leave(pool, p))
    BY <2>1, <2>5, <2>6 DEF OrderlyPool
  <2>10. \A x : InLine(r, x) => x # p
    BY <2>7, <2>8 DEF InLine
  <2>11. h # p
    BY <2>2, <2>3, <2>8
  <2> QED
    BY <1>2, <2>1, <2>7, <2>9, <2>10, <2>11 DEF Uses
<1>3. CASE p \notin pool.holders
  <2> DEFINE r == StepOut(q, p)
  <2>1. Leave(pool, p) = [holders |-> pool.holders, queue |-> r]
    BY <1>3 DEF Leave
  <2>2. /\ \A i, j \in 1 .. Len(r) : r[i] = r[j] => i = j
        /\ \A x : InLine(r, x) <=> InLine(q, x) /\ x # p
    <3>1. \A i, j \in 1 .. Len(q) : q[i] = q[j] => i = j
      BY DEF OrderlyPool
    <3> QED
      BY <3>1, StepOutElements
  <2> HIDE DEF r
  <2>3. \A i \in 1 .. Len(r) : \E j \in 1 .. Len(q) : r[i] = q[j]
    BY <2>2 DEF InLine
  <2> QED
    BY <1>3, <2>1, <2>2, <2>3 DEF OrderlyPool, Uses
<1> QED
  BY <1>1, <1>2, <1>3

\* Joining puts nobody else in line, and leaving nobody at all.
LEMMA LineJoin ==
  ASSUME NEW P, NEW pool \in PermitPool(P), NEW p \in P, NEW capacity
  PROVE  \A x : InLine(Join(pool, p, capacity).queue, x) => InLine(pool.queue, x) \/ x = p
<1> pool.queue \in Seq(P) /\ Len(pool.queue) \in Nat
  BY LenProperties DEF PermitPool
<1>1. CASE CanEnter(pool, capacity)
  BY <1>1 DEF Join
<1>2. CASE ~CanEnter(pool, capacity)
  <2> DEFINE r == Append(pool.queue, p)
  <2>1. Join(pool, p, capacity).queue = r
    BY <1>2 DEF Join
  <2>2. /\ Len(r) = Len(pool.queue) + 1 /\ r[Len(pool.queue) + 1] = p
        /\ \A i \in 1 .. Len(pool.queue) : r[i] = pool.queue[i]
    BY AppendProperties
  <2> HIDE DEF r
  <2>3. 1 .. Len(r) = 1 .. Len(pool.queue) \cup {Len(pool.queue) + 1}
    BY <2>2
  <2> QED
    BY <2>1, <2>2, <2>3 DEF InLine
<1> QED
  BY <1>1, <1>2

LEMMA LineLeave ==
  ASSUME NEW P, NEW pool \in PermitPool(P), NEW p \in P, OrderlyPool(pool)
  PROVE  \A x : InLine(Leave(pool, p).queue, x) => InLine(pool.queue, x)
<1> pool.queue \in Seq(P) /\ Len(pool.queue) \in Nat
  BY LenProperties DEF PermitPool
<1>1. CASE p \notin pool.holders
  <2>1. \A i, j \in 1 .. Len(pool.queue) : pool.queue[i] = pool.queue[j] => i = j
    BY DEF OrderlyPool
  <2>2. \A x : InLine(StepOut(pool.queue, p), x) => InLine(pool.queue, x)
    BY <2>1, StepOutElements
  <2> QED
    BY <1>1, <2>2 DEF Leave
<1>2. CASE p \in pool.holders /\ pool.queue # <<>>
  <2> DEFINE r == Tail(pool.queue)
  <2>1. Leave(pool, p).queue = r
    BY <1>2 DEF Leave, Release
  <2>2. Len(r) = Len(pool.queue) - 1 /\ \A i \in 1 .. Len(r) : r[i] = pool.queue[i + 1]
    BY <1>2, HeadTailProperties
  <2> HIDE DEF r
  <2>3. \A i \in 1 .. Len(r) : i + 1 \in 1 .. Len(pool.queue)
    BY <2>2
  <2> QED
    BY <2>1, <2>2, <2>3 DEF InLine
<1>3. CASE p \in pool.holders /\ pool.queue = <<>>
  BY <1>3 DEF Leave, Release
<1> QED
  BY <1>1, <1>2, <1>3

\* No operator gives out more permits than there are.
LEMMA LimitKept ==
  ASSUME NEW P, NEW pool \in PermitPool(P), NEW p \in P, NEW capacity \in Nat,
         WithinLimit(pool, capacity)
  PROVE  /\ WithinLimit(Join(pool, p, capacity), capacity)
         /\ WithinLimit(Leave(pool, p), capacity)
<1> DEFINE n == Cardinality(pool.holders)
<1>0. IsFiniteSet(pool.holders) /\ n \in Nat /\ n <= capacity
  BY FS_CardinalityType DEF WithinLimit
<1>1. WithinLimit(Join(pool, p, capacity), capacity)
  <2>1. CASE CanEnter(pool, capacity)
    <3>1. n < capacity
      BY <2>1 DEF CanEnter
    <3>2. /\ IsFiniteSet(pool.holders \cup {p})
          /\ Cardinality(pool.holders \cup {p}) = IF p \in pool.holders THEN n ELSE n + 1
      BY <1>0, FS_AddElement
    <3>3. Cardinality(pool.holders \cup {p}) <= capacity
      BY <1>0, <3>1, <3>2
    <3> QED
      BY <2>1, <3>2, <3>3 DEF Join, WithinLimit
  <2>2. CASE ~CanEnter(pool, capacity)
    BY <2>2, <1>0 DEF Join, WithinLimit
  <2> QED
    BY <2>1, <2>2
<1>2. CASE p \in pool.holders
  <2> DEFINE others == pool.holders \ {p}
  <2>1. IsFiniteSet(others) /\ Cardinality(others) = n - 1
    BY <1>0, <1>2, FS_RemoveElement
  <2>2. CASE pool.queue = <<>>
    <3>1. Leave(pool, p).holders = others
      BY <1>2, <2>2 DEF Leave, Release
    <3> QED
      BY <1>0, <1>1, <2>1, <3>1 DEF WithinLimit
  <2>3. CASE pool.queue # <<>>
    <3> DEFINE h == Head(pool.queue)
    <3>1. Leave(pool, p).holders = others \cup {h}
      BY <1>2, <2>3 DEF Leave, Release
    <3> HIDE DEF others, h
    <3>2. /\ IsFiniteSet(others \cup {h})
          /\ Cardinality(others \cup {h}) = IF h \in others THEN n - 1 ELSE n - 1 + 1
      BY <2>1, FS_AddElement
    <3>3. Cardinality(others \cup {h}) <= capacity
      BY <1>0, <3>2
    <3> QED
      BY <1>1, <3>1, <3>2, <3>3 DEF WithinLimit
  <2> QED
    BY <2>2, <2>3
<1>3. CASE p \notin pool.holders
  BY <1>0, <1>1, <1>3 DEF Leave, WithinLimit
<1> QED
  BY <1>1, <1>2, <1>3
-----------------------------------------------------------------------------
(***************************************************************************)
(* A lock that is kept as the line of those who use it, its holder first.  *)
(***************************************************************************)
OneByOne(P, q) == q \in Seq(P) /\ \A i, j \in 1 .. Len(q) : q[i] = q[j] => i = j
First(q, p)    == q # <<>> /\ Head(q) = p

\* There is one holder, and it stands in the line.
LEMMA OneIsFirst ==
  ASSUME NEW P, NEW q, OneByOne(P, q)
  PROVE  /\ \A x : First(q, x) <=> Len(q) > 0 /\ q[1] = x
         /\ \A x : First(q, x) => InLine(q, x)
<1>1. Len(q) \in Nat /\ (q # <<>> <=> Len(q) > 0) /\ (q # <<>> => Head(q) = q[1])
  BY EmptySeq, LenProperties, HeadTailProperties DEF OneByOne
<1>2. \A x : First(q, x) <=> Len(q) > 0 /\ q[1] = x
  BY <1>1 DEF First
<1> QED
  BY <1>1, <1>2 DEF InLine

\* Who comes stands last, or is first when nobody is there.
LEMMA LineGrows ==
  ASSUME NEW P, NEW p \in P, NEW q, OneByOne(P, q), ~InLine(q, p)
  PROVE  /\ OneByOne(P, Append(q, p))
         /\ \A x : InLine(Append(q, p), x) <=> InLine(q, x) \/ x = p
         /\ \A x : First(q, x) => First(Append(q, p), x)
<1> DEFINE r == Append(q, p)
           n == Len(q)
<1>1. n \in Nat /\ \A i, j \in 1 .. n : q[i] = q[j] => i = j
  BY LenProperties DEF OneByOne
<1>2. /\ r \in Seq(P) /\ Len(r) = n + 1 /\ r[n + 1] = p
      /\ \A i \in 1 .. n : r[i] = q[i]
  BY AppendProperties DEF OneByOne
<1>3. \A x : First(q, x) <=> n > 0 /\ q[1] = x
  BY OneIsFirst
<1>4. \A i \in 1 .. n : q[i] # p
  BY DEF InLine
<1>5. \A x : InLine(q, x) <=> \E i \in 1 .. n : q[i] = x
  BY DEF InLine
<1> HIDE DEF r, n
<1>6. \A i, j \in 1 .. n + 1 : r[i] = r[j] => i = j
  <2> SUFFICES ASSUME NEW i \in 1 .. n + 1, NEW j \in 1 .. n + 1, r[i] = r[j] PROVE i = j
    OBVIOUS
  <2>1. CASE i \in 1 .. n /\ j \in 1 .. n
    BY <1>1, <1>2, <2>1
  <2>2. CASE i = n + 1 /\ j \in 1 .. n
    BY <1>2, <1>4, <2>2
  <2>3. CASE j = n + 1 /\ i \in 1 .. n
    BY <1>2, <1>4, <2>3
  <2> QED
    BY <1>1, <2>1, <2>2, <2>3
<1>7. OneByOne(P, r)
  BY <1>2, <1>6 DEF OneByOne
<1>8. \A x : InLine(r, x) <=> InLine(q, x) \/ x = p
  <2>1. ASSUME NEW x, InLine(r, x) PROVE InLine(q, x) \/ x = p
    <3>1. PICK i \in 1 .. n + 1 : r[i] = x
      BY <1>2, <2>1 DEF InLine
    <3>2. CASE i = n + 1
      BY <1>2, <3>1, <3>2
    <3>3. CASE i \in 1 .. n
      BY <1>2, <1>5, <3>1, <3>3
    <3> QED
      BY <1>1, <3>2, <3>3
  <2>2. ASSUME NEW x, InLine(q, x) \/ x = p PROVE InLine(r, x)
    <3>1. \A i \in 1 .. n : i \in 1 .. n + 1
      BY <1>1
    <3>2. n + 1 \in 1 .. n + 1
      BY <1>1
    <3> QED
      BY <1>2, <1>5, <2>2, <3>1, <3>2 DEF InLine
  <2> QED
    BY <2>1, <2>2
<1>9. \A x : First(r, x) <=> Len(r) > 0 /\ r[1] = x
  BY <1>7, OneIsFirst
<1>10. \A x : First(q, x) => First(r, x)
  BY <1>1, <1>2, <1>3, <1>9
<1> QED
  BY <1>7, <1>8, <1>10 DEF r

\* Who goes leaves the others in their order.
LEMMA LineShrinks ==
  ASSUME NEW P, NEW p, NEW q, OneByOne(P, q)
  PROVE  /\ OneByOne(P, StepOut(q, p))
         /\ \A x : InLine(StepOut(q, p), x) <=> InLine(q, x) /\ x # p
         /\ \A x : First(q, x) /\ x # p => First(StepOut(q, p), x)
<1> DEFINE r == StepOut(q, p)
<1>1. q \in Seq(P) /\ \A i, j \in 1 .. Len(q) : q[i] = q[j] => i = j
  BY DEF OneByOne
<1>2. r \in Seq(P)
  BY <1>1, StepOutType
<1>3. /\ \A i, j \in 1 .. Len(r) : r[i] = r[j] => i = j
      /\ \A x : InLine(r, x) <=> InLine(q, x) /\ x # p
      /\ Len(q) > 0 /\ q[1] # p => Len(r) > 0 /\ r[1] = q[1]
  BY <1>1, StepOutElements
<1> HIDE DEF r
<1>4. OneByOne(P, r)
  BY <1>2, <1>3 DEF OneByOne
<1>5. /\ \A x : First(q, x) <=> Len(q) > 0 /\ q[1] = x
      /\ \A x : First(r, x) <=> Len(r) > 0 /\ r[1] = x
  BY <1>4, OneIsFirst
<1> QED
  BY <1>3, <1>4, <1>5 DEF r

\* The head of the line goes.
LEMMA HeadLeaves ==
  ASSUME NEW P, NEW q, OneByOne(P, q), q # <<>>
  PROVE  /\ OneByOne(P, Tail(q)) /\ Head(q) \in P /\ InLine(q, Head(q))
         /\ \A x : InLine(Tail(q), x) <=> InLine(q, x) /\ x # Head(q)
<1> DEFINE r == Tail(q)
           n == Len(q)
<1>1. q \in Seq(P) /\ \A i, j \in 1 .. n : q[i] = q[j] => i = j
  BY DEF OneByOne
<1>2. /\ Head(q) = q[1] /\ Head(q) \in P
      /\ r \in Seq(P) /\ Len(r) = n - 1
      /\ \A i \in 1 .. Len(r) : r[i] = q[i + 1]
  BY <1>1, HeadTailProperties
<1>3. n \in Nat /\ n > 0
  BY <1>1, LenProperties, EmptySeq
<1>4. \A x : InLine(q, x) <=> \E i \in 1 .. n : q[i] = x
  BY DEF InLine
<1> HIDE DEF r, n
<1>5. \A i \in 1 .. Len(r) : i \in 1 .. n - 1 /\ i + 1 \in 1 .. n /\ r[i] = q[i + 1]
  BY <1>2, <1>3
<1>6. \A i, j \in 1 .. Len(r) : r[i] = r[j] => i = j
  <2> SUFFICES ASSUME NEW i \in 1 .. Len(r), NEW j \in 1 .. Len(r), r[i] = r[j] PROVE i = j
    OBVIOUS
  <2>1. i + 1 = j + 1
    BY <1>1, <1>5
  <2>2. i \in Int /\ j \in Int
    BY <1>3, <1>5
  <2> QED
    BY <2>1, <2>2
<1>7. ASSUME NEW x PROVE InLine(r, x) <=> InLine(q, x) /\ x # Head(q)
  <2>1. ASSUME NEW i \in 1 .. Len(r), r[i] = x PROVE InLine(q, x) /\ x # Head(q)
    <3>1. i + 1 \in 1 .. n /\ q[i + 1] = x /\ i + 1 # 1 /\ 1 \in 1 .. n
      BY <1>3, <1>5, <2>1
    <3> QED
      BY <1>1, <1>2, <1>4, <3>1
  <2>2. ASSUME NEW k \in 1 .. n, q[k] = x, x # q[1] PROVE InLine(r, x)
    <3>1. k - 1 \in 1 .. Len(r) /\ (k - 1) + 1 = k
      BY <1>2, <1>3, <2>2
    <3>2. r[k - 1] = x
      BY <1>5, <2>2, <3>1
    <3> QED
      BY <3>1, <3>2 DEF InLine
  <2> QED
    BY <1>2, <1>4, <2>1, <2>2 DEF InLine
<1>8. InLine(q, Head(q))
  BY <1>2, <1>3, <1>4
<1> QED
  BY <1>2, <1>6, <1>7, <1>8 DEF OneByOne, r
-----------------------------------------------------------------------------
(***************************************************************************)
(* What a list comprehension keeps.                                        *)
(***************************************************************************)
RankIn(W, k) == Cardinality({j \in W : j <= k})

PlaceIn(W, i) == CHOOSE k \in W : RankIn(W, k) = i

\* Ranks number the places from 1, in their order.
LEMMA RanksNumber ==
  ASSUME NEW n \in Nat, NEW W \in SUBSET (1 .. n)
  PROVE  /\ IsFiniteSet(W) /\ Cardinality(W) \in Nat
         /\ \A k \in W : RankIn(W, k) \in 1 .. Cardinality(W)
         /\ \A k, l \in W : k < l => RankIn(W, k) < RankIn(W, l)
         /\ \A i \in 1 .. Cardinality(W) : \E k \in W : RankIn(W, k) = i
<1> DEFINE upTo(k) == {j \in W : j <= k}
           c == Cardinality(W)
<1>1. IsFiniteSet(1 .. n)
  BY FS_Interval
<1>2. IsFiniteSet(W) /\ c \in Nat
  BY <1>1, FS_Subset, FS_CardinalityType
<1>3. \A k \in W : IsFiniteSet(upTo(k)) /\ Cardinality(upTo(k)) \in Nat
  BY <1>2, FS_Subset, FS_CardinalityType
<1>4. ASSUME NEW k \in W
      PROVE  RankIn(W, k) \in 1 .. c
  <2>1. upTo(k) \in SUBSET W /\ upTo(k) # {}
    OBVIOUS
  <2>2. Cardinality(upTo(k)) <= c
    BY <1>2, <2>1, FS_Subset
  <2>3. Cardinality(upTo(k)) # 0
    BY <1>3, <2>1, FS_EmptySet
  <2>4. Cardinality(upTo(k)) \in Nat
    BY <1>3
  <2> QED
    BY <1>2, <2>2, <2>3, <2>4 DEF RankIn
<1>5. ASSUME NEW k \in W, NEW l \in W, k < l
      PROVE  RankIn(W, k) < RankIn(W, l)
  <2>1. upTo(k) \in SUBSET upTo(l) /\ upTo(k) # upTo(l)
    <3>1. l \in upTo(l) /\ l \notin upTo(k)
      BY <1>5
    <3>2. \A j \in W : j \in Int
      OBVIOUS
    <3>3. \A j \in upTo(k) : j \in W /\ j <= l
      BY <1>5, <3>2
    <3>4. upTo(k) \in SUBSET upTo(l)
      BY <3>3
    <3> QED
      BY <3>1, <3>4
  <2>2. IsFiniteSet(upTo(l)) /\ Cardinality(upTo(l)) \in Nat /\ Cardinality(upTo(k)) \in Nat
    BY <1>3
  <2> HIDE DEF upTo
  <2>3. /\ Cardinality(upTo(k)) <= Cardinality(upTo(l))
        /\ Cardinality(upTo(k)) # Cardinality(upTo(l))
    BY <2>1, <2>2, FS_Subset
  <2> QED
    BY <2>2, <2>3 DEF RankIn, upTo
<1>6. \A i \in 1 .. c : \E k \in W : RankIn(W, k) = i
  <2> DEFINE f == [k \in W |-> RankIn(W, k)]
  <2>1. f \in [W -> 1 .. c]
    BY <1>4
  <2>2. \A k, l \in W : f[k] = f[l] => k = l
    <3> SUFFICES ASSUME NEW k \in W, NEW l \in W, f[k] = f[l], k # l PROVE FALSE
      OBVIOUS
    <3>1. RankIn(W, k) = RankIn(W, l) /\ RankIn(W, k) \in Int
      BY <1>4
    <3>2. k < l \/ l < k
      OBVIOUS
    <3> QED
      BY <1>5, <3>1, <3>2
  <2> HIDE DEF f
  <2>3. f \in Injection(W, 1 .. c)
    BY <2>1, <2>2, Fun_IsInj
  <2>4. IsFiniteSet(1 .. c) /\ Cardinality(1 .. c) = c
    BY <1>2, FS_Interval
  <2>5. f \in Surjection(W, 1 .. c)
    BY <2>3, <2>4, FS_Injection
  <2>6. \A i \in 1 .. c : \E k \in W : f[k] = i
    BY <2>5, Fun_SurjectionProperties
  <2> QED
    BY <2>6 DEF f
<1> QED
  BY <1>2, <1>4, <1>5, <1>6

\* Some places of a list have a first and a last one.
LEMMA EndsOfPlaces ==
  ASSUME NEW n \in Nat, NEW W \in SUBSET (1 .. n), W # {}
  PROVE  /\ \E k \in W : \A j \in W : k <= j
         /\ \E k \in W : \A j \in W : j <= k
<1> DEFINE c == Cardinality(W)
<1>1. /\ IsFiniteSet(W) /\ c \in Nat
      /\ \A k \in W : RankIn(W, k) \in 1 .. c
      /\ \A k, l \in W : k < l => RankIn(W, k) < RankIn(W, l)
      /\ \A i \in 1 .. c : \E k \in W : RankIn(W, k) = i
  BY RanksNumber
<1>2. c # 0
  BY <1>1, FS_EmptySet
<1> HIDE DEF c
<1>3. 1 \in 1 .. c /\ c \in 1 .. c
  BY <1>1, <1>2
<1>4. PICK first \in W, last \in W : RankIn(W, first) = 1 /\ RankIn(W, last) = c
  BY <1>1, <1>3
<1>5. ASSUME NEW j \in W PROVE first <= j /\ j <= last
  <2>1. ~(j < first) /\ ~(last < j)
    BY <1>1, <1>4
  <2> QED
    BY <2>1
<1> QED
  BY <1>5

\* The kept items are those at the places, none twice, in the same order.
LEMMA KeptItems ==
  ASSUME NEW T, NEW s \in Seq(T), NEW W \in SUBSET DOMAIN s
  PROVE  /\ Cardinality(W) \in Nat /\ Cardinality(W) <= Len(s)
         /\ Cardinality(W) = Len(s) => W = DOMAIN s
         /\ ItemsAt(s, W) \in Seq(T) /\ Len(ItemsAt(s, W)) = Cardinality(W)
         /\ \A i \in 1 .. Cardinality(W) :
              PlaceIn(W, i) \in W /\ ItemsAt(s, W)[i] = s[PlaceIn(W, i)]
         /\ \A i, j \in 1 .. Cardinality(W) : i < j => PlaceIn(W, i) < PlaceIn(W, j)
         /\ \A k \in W : \E i \in 1 .. Cardinality(W) : PlaceIn(W, i) = k
<1> DEFINE n == Len(s)
           c == Cardinality(W)
<1>1. n \in Nat /\ DOMAIN s = 1 .. n /\ W \in SUBSET (1 .. n) /\ s \in [1 .. n -> T]
  BY LenProperties
<1> HIDE DEF n
<1>0. \A k \in W : k \in Int
  BY <1>1
<1>2. /\ IsFiniteSet(W) /\ c \in Nat
      /\ \A k \in W : RankIn(W, k) \in 1 .. c
      /\ \A k, l \in W : k < l => RankIn(W, k) < RankIn(W, l)
      /\ \A i \in 1 .. c : \E k \in W : RankIn(W, k) = i
  BY <1>1, RanksNumber
<1>3. c <= n /\ (c = n => W = 1 .. n)
  <2>1. IsFiniteSet(1 .. n) /\ Cardinality(1 .. n) = n
    BY <1>1, FS_Interval
  <2> QED
    BY <1>1, <2>1, FS_Subset
<1>4. \A i \in 1 .. c : PlaceIn(W, i) \in W /\ RankIn(W, PlaceIn(W, i)) = i
  BY <1>2 DEF PlaceIn
<1>5. \A k, l \in W : RankIn(W, k) < RankIn(W, l) => k < l
  <2> SUFFICES ASSUME NEW k \in W, NEW l \in W, RankIn(W, k) < RankIn(W, l), ~(k < l) PROVE FALSE
    OBVIOUS
  <2>1. k \in Int /\ l \in Int /\ RankIn(W, k) \in Int /\ RankIn(W, l) \in Int
    BY <1>1, <1>2
  <2>2. k = l \/ l < k
    BY <2>1
  <2> QED
    BY <1>2, <2>1, <2>2
<1>6. \A i, j \in 1 .. c : i < j => PlaceIn(W, i) < PlaceIn(W, j)
  BY <1>4, <1>5
<1>7. \A k \in W : \E i \in 1 .. c : PlaceIn(W, i) = k
  <2> TAKE k \in W
  <2> DEFINE i == RankIn(W, k)
  <2>1. i \in 1 .. c /\ PlaceIn(W, i) \in W /\ RankIn(W, PlaceIn(W, i)) = i
    BY <1>2, <1>4
  <2>2. ~(k < PlaceIn(W, i)) /\ ~(PlaceIn(W, i) < k)
    BY <1>2, <2>1
  <2> HIDE DEF i
  <2>3. k \in Int /\ PlaceIn(W, i) \in Int
    BY <1>0, <2>1
  <2>4. PlaceIn(W, i) = k
    BY <2>2, <2>3
  <2> QED
    BY <2>1, <2>4
<1>8. ItemsAt(s, W) = [i \in 1 .. c |-> s[PlaceIn(W, i)]]
  BY DEF ItemsAt, PlaceIn, RankIn
<1>9. ItemsAt(s, W) \in [1 .. c -> T]
  BY <1>1, <1>4, <1>8
<1>10. ItemsAt(s, W) \in Seq(T) /\ Len(ItemsAt(s, W)) = c
  BY <1>2, <1>9, SeqDef, LenProperties
<1> QED
  BY <1>1, <1>2, <1>3, <1>4, <1>6, <1>7, <1>8, <1>10 DEF n

-----------------------------------------------------------------------------
(***************************************************************************)
(* Steps from 0, and lists that grow.                                      *)
(***************************************************************************)
\* What holds of 0 and goes on from each number to the next holds of all.
LEMMA StepsReach ==
  ASSUME NEW S, 0 \in S, \A n \in Nat : n \in S => n + 1 \in S
  PROVE  \A n \in Nat : n \in S
<1> SUFFICES ASSUME NEW n \in Nat, n \notin S PROVE FALSE
  OBVIOUS
<1> DEFINE W == {k \in 1 .. n : k \notin S}
<1>1. n \in W
  <2>1. n # 0
    OBVIOUS
  <2> QED
    BY <2>1
<1>2. PICK first \in W : \A j \in W : first <= j
  <2>1. W \in SUBSET (1 .. n) /\ W # {}
    BY <1>1
  <2> HIDE DEF W
  <2> QED
    BY <2>1, EndsOfPlaces
<1>3. first \in 1 .. n /\ first \notin S /\ first - 1 \in Nat /\ (first - 1) + 1 = first
  OBVIOUS
<1>4. first - 1 \notin W
  <2>1. ~(first <= first - 1)
    BY <1>3
  <2> QED
    BY <1>2, <2>1
<1>5. first - 1 \in S
  <2>1. CASE first = 1
    BY <2>1
  <2>2. CASE first # 1
    <3>1. first - 1 \in 1 .. n
      BY <1>3, <2>2
    <3> QED
      BY <1>4, <3>1
  <2> QED
    BY <2>1, <2>2
<1> QED
  BY <1>3, <1>5

\* The same items at the same places.
LEMMA ItemsSame ==
  ASSUME NEW T, NEW s \in Seq(T), NEW t \in Seq(T),
         NEW W \in SUBSET DOMAIN s, W \in SUBSET DOMAIN t, \A k \in W : t[k] = s[k]
  PROVE  ItemsAt(t, W) = ItemsAt(s, W)
<1> DEFINE c == Cardinality(W)
<1>1. \A i \in 1 .. c : PlaceIn(W, i) \in W
  BY KeptItems
<1>2. /\ ItemsAt(s, W) = [i \in 1 .. c |-> s[PlaceIn(W, i)]]
      /\ ItemsAt(t, W) = [i \in 1 .. c |-> t[PlaceIn(W, i)]]
  BY DEF ItemsAt, PlaceIn, RankIn
<1>3. \A i \in 1 .. c : t[PlaceIn(W, i)] = s[PlaceIn(W, i)]
  BY <1>1
<1> HIDE DEF c
<1> QED
  BY <1>2, <1>3

\* One item more behind the others.
LEMMA ItemsGrow ==
  ASSUME NEW T, NEW s \in Seq(T), NEW t \in Seq(T),
         NEW W \in SUBSET DOMAIN s, \A k \in W : t[k] = s[k],
         NEW V \in SUBSET DOMAIN t, W \subseteq V,
         NEW m \in V, \A k \in W : k < m, \A k \in V : k = m \/ k \in W
  PROVE  /\ Len(ItemsAt(s, W)) \in Nat /\ Len(ItemsAt(t, V)) = Len(ItemsAt(s, W)) + 1
         /\ ItemsAt(t, V)[Len(ItemsAt(s, W)) + 1] = t[m]
         /\ \A i \in 1 .. Len(ItemsAt(s, W)) : ItemsAt(t, V)[i] = ItemsAt(s, W)[i]
<1> DEFINE n == Len(t)
           c == Cardinality(W)
           old == ItemsAt(s, W)
           new == ItemsAt(t, V)
<1>1. n \in Nat /\ DOMAIN t = 1 .. n /\ V \in SUBSET (1 .. n) /\ W \in SUBSET (1 .. n) /\ m \in 1 .. n
  BY LenProperties
<1> HIDE DEF n
<1>2. m \notin W /\ \A k \in W : k \in Int
  BY <1>1
<1>3. IsFiniteSet(W) /\ c \in Nat /\ Cardinality(V) = c + 1
  <2>1. IsFiniteSet(W) /\ c \in Nat
    BY <1>1, RanksNumber
  <2>2. V = W \cup {m}
    OBVIOUS
  <2>3. Cardinality(W \cup {m}) = c + 1
    BY <1>2, <2>1, FS_AddElement
  <2> QED
    BY <2>1, <2>2, <2>3
<1>4. /\ Len(old) = c /\ Len(new) = c + 1
      /\ \A i \in 1 .. c : PlaceIn(W, i) \in W /\ old[i] = s[PlaceIn(W, i)]
      /\ \A i \in 1 .. (c + 1) : PlaceIn(V, i) \in V /\ new[i] = t[PlaceIn(V, i)]
  <2>1. /\ Len(old) = c
        /\ \A i \in 1 .. c : PlaceIn(W, i) \in W /\ old[i] = s[PlaceIn(W, i)]
    BY KeptItems
  <2>2. V \in SUBSET DOMAIN t
    OBVIOUS
  <2> HIDE DEF c
  <2>3. /\ Len(ItemsAt(t, V)) = Cardinality(V)
        /\ \A i \in 1 .. Cardinality(V) : PlaceIn(V, i) \in V /\ ItemsAt(t, V)[i] = t[PlaceIn(V, i)]
    BY <2>2, KeptItems
  <2> QED
    BY <1>3, <2>1, <2>3
<1>5. /\ \A i \in 1 .. c : RankIn(W, PlaceIn(W, i)) = i
      /\ \A i \in 1 .. (c + 1) : RankIn(V, PlaceIn(V, i)) = i
  <2>1. \A i \in 1 .. c : \E k \in W : RankIn(W, k) = i
    BY <1>1, RanksNumber
  <2>2. \A i \in 1 .. Cardinality(V) : \E k \in V : RankIn(V, k) = i
    <3> QED
      BY <1>1, RanksNumber
  <2> QED
    BY <1>3, <2>1, <2>2 DEF PlaceIn
<1>6. \A k, l \in V : RankIn(V, k) = RankIn(V, l) => k = l
  <2>1. /\ \A k, l \in V : k < l => RankIn(V, k) < RankIn(V, l)
        /\ \A k \in V : RankIn(V, k) \in 1 .. Cardinality(V)
    BY <1>1, RanksNumber
  <2> SUFFICES ASSUME NEW k \in V, NEW l \in V, RankIn(V, k) = RankIn(V, l), k # l PROVE FALSE
    OBVIOUS
  <2>2. k \in Int /\ l \in Int /\ RankIn(V, k) \in Int
    BY <1>1, <1>3, <2>1
  <2>3. k < l \/ l < k
    BY <2>2
  <2> QED
    BY <2>1, <2>2, <2>3
<1>7. \A k \in W : RankIn(V, k) = RankIn(W, k)
  <2> SUFFICES ASSUME NEW k \in W PROVE RankIn(V, k) = RankIn(W, k)
    OBVIOUS
  <2>1. k < m /\ k \in Int /\ m \in Int
    BY <1>1, <1>2
  <2>2. {j \in V : j <= k} = {j \in W : j <= k}
    BY <2>1
  <2> QED
    BY <2>2 DEF RankIn
<1>8. RankIn(V, m) = c + 1
  <2>1. {j \in V : j <= m} = V
    <3>1. \A j \in V : j <= m
      BY <1>1, <1>2
    <3> QED
      BY <3>1
  <2> QED
    BY <1>3, <2>1 DEF RankIn
<1> HIDE DEF old, new, c
<1>9. new[c + 1] = t[m]
  <2>1. c + 1 \in 1 .. (c + 1) /\ m \in V
    BY <1>3
  <2>2. PlaceIn(V, c + 1) \in V /\ RankIn(V, PlaceIn(V, c + 1)) = c + 1
        /\ new[c + 1] = t[PlaceIn(V, c + 1)]
    BY <1>4, <1>5, <2>1
  <2>3. PlaceIn(V, c + 1) = m
    BY <1>6, <1>8, <2>1, <2>2
  <2> QED
    BY <2>2, <2>3
<1>10. ASSUME NEW i \in 1 .. c PROVE new[i] = old[i]
  <2>0. i \in 1 .. (c + 1) /\ W \subseteq V
    BY <1>3
  <2>1. i \in 1 .. (c + 1) /\ PlaceIn(W, i) \in W /\ PlaceIn(W, i) \in V /\ PlaceIn(V, i) \in V
    <3> QED
      BY <1>4, <2>0, Zenon
  <2>2. RankIn(V, PlaceIn(W, i)) = i /\ RankIn(V, PlaceIn(V, i)) = i
    BY <1>5, <1>7, <2>1
  <2>3. PlaceIn(V, i) = PlaceIn(W, i)
    BY <1>6, <2>1, <2>2
  <2> QED
    BY <1>4, <2>1, <2>3
<1> QED
  BY <1>3, <1>4, <1>9, <1>10 DEF old, new

\* V has the places of W, where t is s, and one behind them.
OnePlaceMore(s, W, t, V, m) ==
  /\ W \subseteq DOMAIN s /\ V \subseteq DOMAIN t /\ W \subseteq V /\ m \in V
  /\ \A k \in W : k < m /\ t[k] = s[k]
  /\ \A k \in V : k = m \/ k \in W

OneItemMore(old, new, item) ==
  /\ Len(old) \in Nat /\ Len(new) = Len(old) + 1 /\ new[Len(old) + 1] = item
  /\ \A i \in 1 .. Len(old) : new[i] = old[i]

LEMMA ItemsAdded ==
  ASSUME NEW T, NEW s \in Seq(T), NEW t \in Seq(T), NEW W, NEW V, NEW m,
         OnePlaceMore(s, W, t, V, m)
  PROVE  OneItemMore(ItemsAt(s, W), ItemsAt(t, V), t[m])
<1>1. /\ W \in SUBSET DOMAIN s /\ (\A k \in W : t[k] = s[k]) /\ V \in SUBSET DOMAIN t
      /\ W \subseteq V /\ m \in V /\ (\A k \in W : k < m) /\ \A k \in V : k = m \/ k \in W
  BY DEF OnePlaceMore
<1> DEFINE old == ItemsAt(s, W)
           new == ItemsAt(t, V)
<1>2. Len(old) \in Nat /\ Len(new) = Len(old) + 1
  BY <1>1, ItemsGrow
<1>3. new[Len(old) + 1] = t[m]
  BY <1>1, ItemsGrow
<1>4. \A i \in 1 .. Len(old) : new[i] = old[i]
  BY <1>1, ItemsGrow
<1> QED
  BY <1>2, <1>3, <1>4 DEF OneItemMore

-----------------------------------------------------------------------------
(***************************************************************************)
(* Sums of the first numbers of a list.                                    *)
(***************************************************************************)

\* A function with the sums of the first n numbers and less.
IsSums(g, n, s) == g = [k \in 0 .. n |-> IF k = 0 THEN 0 ELSE g[k - 1] + s[k]]

LEMMA SumsExist ==
  ASSUME NEW s
  PROVE  \A n \in Nat : \E g : IsSums(g, n, s)
<1> DEFINE S == {n \in Nat : \E g : IsSums(g, n, s)}
<1>1. 0 \in S
  <2> DEFINE g == [k \in 0 .. 0 |-> 0]
  <2>1. \A k \in 0 .. 0 : k = 0
    OBVIOUS
  <2>2. g = [k \in 0 .. 0 |-> IF k = 0 THEN 0 ELSE g[k - 1] + s[k]]
    BY <2>1
  <2>3. IsSums(g, 0, s)
    BY <2>2 DEF IsSums
  <2> HIDE DEF g
  <2> QED
    BY <2>3
<1>2. ASSUME NEW n \in Nat, n \in S PROVE n + 1 \in S
  <2>1. PICK g : IsSums(g, n, s)
    BY <1>2
  <2> DEFINE h == [k \in 0 .. n + 1 |-> IF k = n + 1 THEN g[n] + s[n + 1] ELSE g[k]]
  <2>2. \A k \in 0 .. n : g[k] = IF k = 0 THEN 0 ELSE g[k - 1] + s[k]
    BY <2>1 DEF IsSums
  <2>3. ASSUME NEW k \in 0 .. n + 1
        PROVE  h[k] = IF k = 0 THEN 0 ELSE h[k - 1] + s[k]
    <3>1. CASE k = n + 1
      <4>1. k # 0 /\ k - 1 = n /\ n \in 0 .. n + 1 /\ n # n + 1
        BY <3>1
      <4>2. h[k] = g[n] + s[n + 1] /\ h[n] = g[n]
        BY <3>1, <4>1
      <4> HIDE DEF h
      <4> QED
        BY <3>1, <4>1, <4>2
    <3>2. CASE k # n + 1
      <4>1. k \in 0 .. n /\ h[k] = g[k]
        BY <3>2
      <4>2. k # 0 => k - 1 \in 0 .. n + 1 /\ k - 1 # n + 1
        BY <4>1
      <4>3. k # 0 => h[k - 1] = g[k - 1]
        BY <4>2
      <4> HIDE DEF h
      <4> QED
        BY <2>2, <4>1, <4>3
    <3> QED
      BY <3>1, <3>2
  <2>4. h = [k \in 0 .. n + 1 |-> h[k]]
    OBVIOUS
  <2> HIDE DEF h
  <2>5. IsSums(h, n + 1, s)
    BY <2>3, <2>4 DEF IsSums
  <2> QED
    BY <2>5
<1> HIDE DEF S
<1>3. \A n \in Nat : n \in S
  BY <1>1, <1>2, StepsReach
<1> QED
  BY <1>3 DEF S

LEMMA SumsStep ==
  ASSUME NEW s, Len(s) \in Nat
  PROVE  SumsOf(s)[0] = 0 /\ \A k \in 1 .. Len(s) : SumsOf(s)[k] = SumsOf(s)[k - 1] + s[k]
<1> DEFINE n == Len(s)
           g == SumsOf(s)
<1>1. g = CHOOSE h : IsSums(h, n, s)
  BY DEF SumsOf, IsSums
<1>2. \E h : IsSums(h, n, s)
  BY SumsExist
<1> HIDE DEF g
<1>3. IsSums(g, n, s)
  BY <1>1, <1>2
<1>4. \A k \in 0 .. n : g[k] = IF k = 0 THEN 0 ELSE g[k - 1] + s[k]
  BY <1>3 DEF IsSums
<1>5. 0 \in 0 .. n /\ \A k \in 1 .. n : k \in 0 .. n /\ k # 0
  OBVIOUS
<1> QED
  BY <1>4, <1>5 DEF g, n

\* Sums of natural numbers are natural numbers.
LEMMA SumsAreNat ==
  ASSUME NEW s \in Seq(Nat)
  PROVE  \A k \in 0 .. Len(s) : SumsOf(s)[k] \in Nat
<1> DEFINE n == Len(s)
           g == SumsOf(s)
           S == {k \in Nat : k <= n => g[k] \in Nat}
<1>1. n \in Nat /\ \A k \in 1 .. n : s[k] \in Nat
  BY LenProperties, ElementOfSeq
<1>2. g[0] = 0 /\ \A k \in 1 .. n : g[k] = g[k - 1] + s[k]
  BY <1>1, SumsStep
<1> HIDE DEF g, n
<1>3. 0 \in S
  BY <1>2
<1>4. ASSUME NEW k \in Nat, k \in S PROVE k + 1 \in S
  <2> SUFFICES ASSUME k + 1 <= n PROVE g[k + 1] \in Nat
    OBVIOUS
  <2>1. k + 1 \in 1 .. n /\ (k + 1) - 1 = k /\ k <= n
    BY <1>1
  <2>2. g[k + 1] = g[k] + s[k + 1] /\ s[k + 1] \in Nat /\ g[k] \in Nat
    BY <1>1, <1>2, <1>4, <2>1
  <2> QED
    BY <2>2
<1> HIDE DEF S
<1>5. \A k \in Nat : k \in S
  BY <1>3, <1>4, StepsReach
<1>6. \A k \in 0 .. n : k \in Nat /\ k <= n
  BY <1>1
<1>7. \A k \in 0 .. n : g[k] \in Nat
  BY <1>5, <1>6 DEF S
<1> QED
  BY <1>7 DEF g, n

\* A part of a list has the difference of its sums.
LEMMA SumsOfPart ==
  ASSUME NEW s \in Seq(Nat), NEW t \in Seq(Nat), NEW d \in Nat, d + Len(t) <= Len(s),
         \A i \in 1 .. Len(t) : t[i] = s[d + i]
  PROVE  \A k \in 0 .. Len(t) : SumsOf(t)[k] = SumsOf(s)[d + k] - SumsOf(s)[d]
<1> DEFINE n == Len(s)
           m == Len(t)
           g == SumsOf(s)
           h == SumsOf(t)
           S == {k \in Nat : k <= m => h[k] = g[d + k] - g[d]}
<1>1. n \in Nat /\ m \in Nat
  BY LenProperties
<1>2. /\ g[0] = 0 /\ \A k \in 1 .. n : g[k] = g[k - 1] + s[k]
      /\ h[0] = 0 /\ \A k \in 1 .. m : h[k] = h[k - 1] + t[k]
  BY <1>1, SumsStep
<1>3. /\ \A k \in 0 .. n : g[k] \in Nat
      /\ \A k \in 0 .. m : h[k] \in Nat
  BY SumsAreNat
<1>4. d + m <= n /\ \A i \in 1 .. m : t[i] = s[d + i]
  OBVIOUS
<1>5. \A i \in 1 .. n : s[i] \in Nat
  BY ElementOfSeq
<1> HIDE DEF g, h, n, m
<1>6. 0 \in S
  <2>1. d \in 0 .. n /\ d + 0 = d
    BY <1>1, <1>4
  <2>2. g[d] \in Nat
    BY <1>3, <2>1
  <2> QED
    BY <1>2, <2>1, <2>2
<1>7. ASSUME NEW k \in Nat, k \in S PROVE k + 1 \in S
  <2> SUFFICES ASSUME k + 1 <= m PROVE h[k + 1] = g[d + (k + 1)] - g[d]
    OBVIOUS
  <2>1. /\ k + 1 \in 1 .. m /\ (k + 1) - 1 = k /\ k <= m /\ d + (k + 1) \in 1 .. n
        /\ (d + (k + 1)) - 1 = d + k /\ d + k \in 0 .. n /\ d \in 0 .. n
    BY <1>1, <1>4
  <2>2. h[k + 1] = h[k] + t[k + 1] /\ t[k + 1] = s[d + (k + 1)]
    BY <1>2, <1>4, <2>1
  <2>3. g[d + (k + 1)] = g[d + k] + s[d + (k + 1)]
    BY <1>2, <2>1
  <2>4. h[k] = g[d + k] - g[d]
    BY <1>7, <2>1
  <2>5. g[d + k] \in Nat /\ g[d] \in Nat /\ s[d + (k + 1)] \in Nat
    BY <1>3, <1>5, <2>1
  <2> HIDE DEF S
  <2> QED
    BY <2>2, <2>3, <2>4, <2>5
<1> HIDE DEF S
<1>8. \A k \in Nat : k \in S
  BY <1>6, <1>7, StepsReach
<1>9. \A k \in 0 .. m : k \in Nat /\ k <= m
  BY <1>1
<1>10. \A k \in 0 .. m : h[k] = g[d + k] - g[d]
  BY <1>8, <1>9 DEF S
<1> QED
  BY <1>10 DEF g, h, m

\* Sums rise.
LEMMA SumsRise ==
  ASSUME NEW s \in Seq(Nat), NEW i \in 0 .. Len(s), NEW j \in 0 .. Len(s), i <= j
  PROVE  SumsOf(s)[i] <= SumsOf(s)[j]
<1> DEFINE n == Len(s)
           g == SumsOf(s)
           S == {k \in Nat : i + k <= n => g[i] <= g[i + k]}
<1>1. n \in Nat /\ i \in 0 .. n /\ j \in 0 .. n /\ i <= j
  BY LenProperties
<1>2. /\ \A k \in 1 .. n : g[k] = g[k - 1] + s[k] /\ s[k] \in Nat
      /\ \A k \in 0 .. n : g[k] \in Nat
  BY <1>1, SumsStep, SumsAreNat, ElementOfSeq
<1> HIDE DEF g, n
<1>3. 0 \in S
  <2>1. i + 0 = i /\ g[i] \in Nat
    BY <1>1, <1>2
  <2> QED
    BY <2>1
<1>4. ASSUME NEW k \in Nat, k \in S PROVE k + 1 \in S
  <2> SUFFICES ASSUME i + (k + 1) <= n PROVE g[i] <= g[i + (k + 1)]
    OBVIOUS
  <2>1. i + (k + 1) \in 1 .. n /\ (i + (k + 1)) - 1 = i + k /\ i + k \in 0 .. n /\ i + k <= n
    BY <1>1
  <2>2. g[i] <= g[i + k]
    BY <1>4, <2>1
  <2>3. g[i + (k + 1)] = g[i + k] + s[i + (k + 1)] /\ s[i + (k + 1)] \in Nat /\ g[i + k] \in Nat /\ g[i] \in Nat
    BY <1>1, <1>2, <2>1
  <2> QED
    BY <2>2, <2>3
<1> HIDE DEF S
<1>5. j - i \in S
  <2>1. j - i \in Nat
    BY <1>1
  <2> QED
    BY <1>3, <1>4, <2>1, StepsReach
<1>6. i + (j - i) = j /\ j <= n
  BY <1>1
<1>7. g[i] <= g[j]
  BY <1>5, <1>6 DEF S
<1> QED
  BY <1>7 DEF g

\* The sum of a list with one number more.
LEMMA SumGrows ==
  ASSUME NEW s \in Seq(Nat), NEW x \in Nat
  PROVE  SumOf(s) \in Nat /\ SumOf(Append(s, x)) = SumOf(s) + x
<1> DEFINE t == Append(s, x)
           n == Len(s)
<1>1. n \in Nat /\ t \in Seq(Nat) /\ Len(t) = n + 1 /\ t[n + 1] = x /\ \A i \in 1 .. n : t[i] = s[i]
  BY LenProperties, AppendProperties
<1> HIDE DEF t
<1>2. SumsOf(t)[n + 1] = SumsOf(t)[n] + x
  <2>1. n + 1 \in 1 .. Len(t) /\ (n + 1) - 1 = n /\ Len(t) \in Nat
    BY <1>1
  <2> QED
    BY <1>1, <2>1, SumsStep
<1>3. SumsOf(s)[n] = SumsOf(t)[0 + n] - SumsOf(t)[0]
  <2>1. 0 + Len(s) <= Len(t) /\ (\A i \in 1 .. Len(s) : s[i] = t[0 + i]) /\ n \in 0 .. Len(s)
    BY <1>1
  <2> QED
    BY <1>1, <2>1, SumsOfPart
<1>4. SumsOf(t)[0] = 0 /\ SumsOf(s)[n] \in Nat /\ SumsOf(t)[n] \in Nat
  <2>1. n \in 0 .. Len(s) /\ n \in 0 .. Len(t) /\ Len(t) \in Nat
    BY <1>1
  <2> QED
    BY <1>1, <2>1, SumsStep, SumsAreNat
<1>5. 0 + n = n
  BY <1>1
<1>6. SumsOf(t)[n + 1] = SumsOf(s)[n] + x
  BY <1>2, <1>3, <1>4, <1>5
<1> QED
  BY <1>1, <1>4, <1>6 DEF SumOf, t

-----------------------------------------------------------------------------
(***************************************************************************)
(* Lists that are joined, and what is kept of a list.                      *)
(***************************************************************************)

\* A function with the joins of the first n lists and less.
IsJoins(g, n, s) == g = [k \in 0 .. n |-> IF k = 0 THEN <<>> ELSE g[k - 1] \o s[k]]

LEMMA JoinsExist ==
  ASSUME NEW s
  PROVE  \A n \in Nat : \E g : IsJoins(g, n, s)
<1> DEFINE S == {n \in Nat : \E g : IsJoins(g, n, s)}
<1>1. 0 \in S
  <2> DEFINE g == [k \in 0 .. 0 |-> <<>>]
  <2>1. \A k \in 0 .. 0 : k = 0
    OBVIOUS
  <2>2. g = [k \in 0 .. 0 |-> IF k = 0 THEN <<>> ELSE g[k - 1] \o s[k]]
    BY <2>1
  <2>3. IsJoins(g, 0, s)
    BY <2>2 DEF IsJoins
  <2> HIDE DEF g
  <2> QED
    BY <2>3
<1>2. ASSUME NEW n \in Nat, n \in S PROVE n + 1 \in S
  <2>1. PICK g : IsJoins(g, n, s)
    BY <1>2
  <2> DEFINE h == [k \in 0 .. n + 1 |-> IF k = n + 1 THEN g[n] \o s[n + 1] ELSE g[k]]
  <2>2. \A k \in 0 .. n : g[k] = IF k = 0 THEN <<>> ELSE g[k - 1] \o s[k]
    BY <2>1 DEF IsJoins
  <2>3. ASSUME NEW k \in 0 .. n + 1
        PROVE  h[k] = IF k = 0 THEN <<>> ELSE h[k - 1] \o s[k]
    <3>1. CASE k = n + 1
      <4>1. k # 0 /\ k - 1 = n /\ n \in 0 .. n + 1 /\ n # n + 1
        BY <3>1
      <4>2. h[k] = g[n] \o s[n + 1] /\ h[n] = g[n]
        BY <3>1, <4>1
      <4> HIDE DEF h
      <4> QED
        BY <3>1, <4>1, <4>2
    <3>2. CASE k # n + 1
      <4>1. k \in 0 .. n /\ h[k] = g[k]
        BY <3>2
      <4>2. k # 0 => k - 1 \in 0 .. n + 1 /\ k - 1 # n + 1
        BY <4>1
      <4>3. k # 0 => h[k - 1] = g[k - 1]
        BY <4>2
      <4> HIDE DEF h
      <4> QED
        BY <2>2, <4>1, <4>3
    <3> QED
      BY <3>1, <3>2
  <2>4. h = [k \in 0 .. n + 1 |-> h[k]]
    OBVIOUS
  <2> HIDE DEF h
  <2>5. IsJoins(h, n + 1, s)
    BY <2>3, <2>4 DEF IsJoins
  <2> QED
    BY <2>5
<1> HIDE DEF S
<1>3. \A n \in Nat : n \in S
  BY <1>1, <1>2, StepsReach
<1> QED
  BY <1>3 DEF S

LEMMA JoinsStep ==
  ASSUME NEW s, Len(s) \in Nat
  PROVE  JoinsOf(s)[0] = <<>> /\ \A k \in 1 .. Len(s) : JoinsOf(s)[k] = JoinsOf(s)[k - 1] \o s[k]
<1> DEFINE n == Len(s)
           g == JoinsOf(s)
<1>1. g = CHOOSE h : IsJoins(h, n, s)
  BY DEF JoinsOf, IsJoins
<1>2. \E h : IsJoins(h, n, s)
  BY JoinsExist
<1> HIDE DEF g
<1>3. IsJoins(g, n, s)
  BY <1>1, <1>2
<1>4. \A k \in 0 .. n : g[k] = IF k = 0 THEN <<>> ELSE g[k - 1] \o s[k]
  BY <1>3 DEF IsJoins
<1>5. 0 \in 0 .. n /\ \A k \in 1 .. n : k \in 0 .. n /\ k # 0
  OBVIOUS
<1> QED
  BY <1>4, <1>5 DEF g, n

\* It does not matter which of three lists are joined first.
LEMMA ListsAssociate ==
  \A T : \A x, y, z \in Seq(T) : (x \o y) \o z = x \o (y \o z)
<1> SUFFICES ASSUME NEW T, NEW x \in Seq(T), NEW y \in Seq(T), NEW z \in Seq(T)
             PROVE  (x \o y) \o z = x \o (y \o z)
  OBVIOUS
<1> QED
  BY ConcatAssociative

\* Lists of items join to a list of items.
LEMMA JoinsTyped ==
  ASSUME NEW T, NEW s \in Seq(Seq(T))
  PROVE  (\A k \in 0 .. Len(s) : JoinsOf(s)[k] \in Seq(T)) /\ Joined(s) \in Seq(T)
<1> DEFINE n == Len(s)
           g == JoinsOf(s)
           S == {k \in Nat : k <= n => g[k] \in Seq(T)}
<1>1. n \in Nat /\ \A k \in 1 .. n : s[k] \in Seq(T)
  BY LenProperties, ElementOfSeq
<1>2. g[0] = <<>> /\ \A k \in 1 .. n : g[k] = g[k - 1] \o s[k]
  BY <1>1, JoinsStep
<1> HIDE DEF g, n
<1>3. 0 \in S
  BY <1>2, EmptySeq
<1>4. ASSUME NEW k \in Nat, k \in S PROVE k + 1 \in S
  <2> SUFFICES ASSUME k + 1 <= n PROVE g[k + 1] \in Seq(T)
    OBVIOUS
  <2>1. k + 1 \in 1 .. n /\ (k + 1) - 1 = k /\ k <= n
    BY <1>1
  <2>2. g[k + 1] = g[k] \o s[k + 1] /\ s[k + 1] \in Seq(T) /\ g[k] \in Seq(T)
    BY <1>1, <1>2, <1>4, <2>1
  <2> QED
    BY <2>2, ConcatProperties
<1> HIDE DEF S
<1>5. \A k \in Nat : k \in S
  BY <1>3, <1>4, StepsReach
<1>6. (\A k \in 0 .. n : k \in Nat /\ k <= n) /\ n \in 0 .. n
  BY <1>1
<1>7. \A k \in 0 .. n : g[k] \in Seq(T)
  BY <1>5, <1>6 DEF S
<1> QED
  BY <1>6, <1>7 DEF g, n, Joined

\* The join of two lists of lists is that of the one and that of the other.
LEMMA JoinedTwo ==
  ASSUME NEW T, NEW a \in Seq(Seq(T)), NEW b \in Seq(Seq(T)), NEW m \in Seq(Seq(T)),
         Len(m) = Len(a) + Len(b), \A i \in 1 .. Len(a) : m[i] = a[i],
         \A i \in 1 .. Len(b) : m[Len(a) + i] = b[i]
  PROVE  Joined(m) = Joined(a) \o Joined(b)
<1> DEFINE c == Len(a)
           d == Len(b)
           g == JoinsOf(m)
           h == JoinsOf(a)
           e == JoinsOf(b)
           S == {k \in Nat : k <= c => g[k] = h[k]}
           R == {k \in Nat : k <= d => g[c + k] = h[c] \o e[k]}
<1>0. \A x, y, z \in Seq(T) : (x \o y) \o z = x \o (y \o z)
  BY ONLY ListsAssociate, SMT
<1> HIDE DEF R
<1>1. c \in Nat /\ d \in Nat /\ Len(m) = c + d /\ Len(m) \in Nat
  BY LenProperties
<1>2. /\ g[0] = <<>> /\ \A k \in 1 .. c + d : g[k] = g[k - 1] \o m[k]
      /\ h[0] = <<>> /\ \A k \in 1 .. c : h[k] = h[k - 1] \o a[k]
      /\ e[0] = <<>> /\ \A k \in 1 .. d : e[k] = e[k - 1] \o b[k]
  <2>1. g[0] = <<>> /\ \A k \in 1 .. Len(m) : g[k] = g[k - 1] \o m[k]
    BY <1>1, JoinsStep
  <2>2. h[0] = <<>> /\ \A k \in 1 .. c : h[k] = h[k - 1] \o a[k]
    BY <1>1, JoinsStep
  <2>3. e[0] = <<>> /\ \A k \in 1 .. d : e[k] = e[k - 1] \o b[k]
    BY <1>1, JoinsStep
  <2> QED
    BY <1>1, <2>1, <2>2, <2>3
<1>3. (\A i \in 1 .. c : m[i] = a[i]) /\ \A i \in 1 .. d : m[c + i] = b[i]
  OBVIOUS
<1>4. h[c] \in Seq(T) /\ (\A k \in 0 .. d : e[k] \in Seq(T)) /\ \A k \in 1 .. d : b[k] \in Seq(T)
  <2>1. c \in 0 .. c
    BY <1>1
  <2>2. h[c] \in Seq(T)
    BY <2>1, JoinsTyped
  <2>3. \A k \in 0 .. d : e[k] \in Seq(T)
    BY JoinsTyped
  <2>4. \A k \in 1 .. d : b[k] \in Seq(T)
    BY ElementOfSeq
  <2> QED
    BY <2>2, <2>3, <2>4
<1>5. Joined(m) = g[c + d] /\ Joined(a) = h[c] /\ Joined(b) = e[d]
  BY <1>1 DEF Joined
<1> HIDE DEF g, h, e, c, d
<1>6. 0 \in S
  BY <1>2
<1>7. ASSUME NEW k \in Nat, k \in S PROVE k + 1 \in S
  <2> SUFFICES ASSUME k + 1 <= c PROVE g[k + 1] = h[k + 1]
    OBVIOUS
  <2>1. k + 1 \in 1 .. c /\ k + 1 \in 1 .. c + d /\ (k + 1) - 1 = k /\ k <= c
    BY <1>1
  <2>2. g[k] = h[k] /\ m[k + 1] = a[k + 1]
    BY <1>3, <1>7, <2>1
  <2>3. g[k + 1] = g[k] \o m[k + 1] /\ h[k + 1] = h[k] \o a[k + 1]
    BY <1>2, <2>1
  <2> QED
    BY <2>2, <2>3
<1>8. c \in S
  <2> HIDE DEF S
  <2> QED
    BY <1>1, <1>6, <1>7, StepsReach
<1>9. g[c] = h[c]
  BY <1>1, <1>8
<1> HIDE DEF S
<1>10. 0 \in R
  <2>1. c + 0 = c
    BY <1>1
  <2>2. h[c] \o <<>> = h[c]
    BY <1>4, ConcatEmptySeq
  <2>3. g[c + 0] = h[c] \o e[0]
    BY <1>2, <1>9, <2>1, <2>2
  <2> QED
    BY <2>3 DEF R
<1>11. ASSUME NEW k \in Nat, k \in R PROVE k + 1 \in R
  <2>0. k + 1 \in Nat
    OBVIOUS
  <2> SUFFICES k + 1 <= d => g[c + (k + 1)] = h[c] \o e[k + 1]
    BY <2>0 DEF R
  <2> HAVE k + 1 <= d
  <2>1. /\ k + 1 \in 1 .. d /\ c + (k + 1) \in 1 .. c + d /\ (k + 1) - 1 = k /\ k <= d /\ k \in 0 .. d
        /\ (c + (k + 1)) - 1 = c + k
    BY <1>1
  <2>2. g[c + k] = h[c] \o e[k]
    BY <1>11, <2>1 DEF R
  <2>3. g[c + (k + 1)] = g[c + k] \o b[k + 1]
    <3> DEFINE j == c + (k + 1)
    <3>1. j \in 1 .. c + d /\ j - 1 = c + k /\ m[j] = b[k + 1]
      BY <1>3, <2>1
    <3> HIDE DEF j
    <3>2. g[j] = g[j - 1] \o m[j]
      BY <1>2, <3>1
    <3>3. g[j] = g[c + k] \o b[k + 1]
      BY <3>1, <3>2
    <3> QED
      BY <3>3 DEF j
  <2>4. e[k + 1] = e[k] \o b[k + 1]
    BY <1>2, <2>1
  <2>5. (h[c] \o e[k]) \o b[k + 1] = h[c] \o (e[k] \o b[k + 1])
    <3>2. h[c] \in Seq(T) /\ e[k] \in Seq(T) /\ b[k + 1] \in Seq(T)
      BY <1>4, <2>1
    <3> QED
      BY <1>0, <3>2
  <2> QED
    BY <2>2, <2>3, <2>4, <2>5
<1>12. d \in R
  BY <1>1, <1>10, <1>11, StepsReach
<1>13. d <= d => g[c + d] = h[c] \o e[d]
  BY <1>12 DEF R
<1>14. d <= d
  BY <1>1
<1> QED
  BY <1>5, <1>13, <1>14

\* No list, one list and two.
LEMMA JoinedFew ==
  ASSUME NEW T
  PROVE  /\ Joined(<<>>) = <<>>
         /\ \A x \in Seq(T) : Joined(<<x>>) = x
         /\ \A x, y \in Seq(T) : Joined(<<x, y>>) = x \o y
<1>1. Joined(<<>>) = <<>>
  <2>1. Len(<<>>) = 0
    BY EmptySeq
  <2> QED
    BY <2>1, JoinsStep DEF Joined
<1>2. ASSUME NEW x \in Seq(T) PROVE Joined(<<x>>) = x
  <2> DEFINE s == <<x>>
  <2>1. Len(s) = 1 /\ s[1] = x
    OBVIOUS
  <2> HIDE DEF s
  <2>2. JoinsOf(s)[0] = <<>> /\ \A k \in 1 .. Len(s) : JoinsOf(s)[k] = JoinsOf(s)[k - 1] \o s[k]
    <3>1. Len(s) \in Nat
      BY <2>1
    <3> QED
      BY <3>1, JoinsStep
  <2>3. 1 \in 1 .. Len(s) /\ 1 - 1 = 0
    BY <2>1
  <2>4. JoinsOf(s)[1] = JoinsOf(s)[1 - 1] \o s[1]
    BY <2>2, <2>3
  <2>5. JoinsOf(s)[1] = <<>> \o x
    BY <2>1, <2>2, <2>3, <2>4
  <2>6. <<>> \o x = x
    BY ConcatEmptySeq
  <2>7. Joined(s) = x
    BY <2>1, <2>5, <2>6 DEF Joined
  <2> QED
    BY <2>7 DEF s
<1>3. ASSUME NEW x \in Seq(T), NEW y \in Seq(T) PROVE Joined(<<x, y>>) = x \o y
  <2> DEFINE a == <<x>>
             b == <<y>>
             m == <<x, y>>
  <2>1. a \in Seq(Seq(T)) /\ b \in Seq(Seq(T)) /\ m \in Seq(Seq(T))
    OBVIOUS
  <2>2. Len(a) = 1 /\ Len(b) = 1 /\ Len(m) = 2 /\ a[1] = x /\ b[1] = y /\ m[1] = x /\ m[2] = y
    OBVIOUS
  <2>3. Joined(a) = x /\ Joined(b) = y
    BY <1>2
  <2> HIDE DEF a, b, m
  <2>4. Len(m) = Len(a) + Len(b) /\ Len(a) + 1 = 2
    BY <2>2
  <2>5. \A i \in 1 .. Len(a) : m[i] = a[i]
    BY <2>2
  <2>6. \A i \in 1 .. Len(b) : m[Len(a) + i] = b[i]
    BY <2>2
  <2>7. Joined(m) = Joined(a) \o Joined(b)
    BY <2>1, <2>4, <2>5, <2>6, JoinedTwo
  <2> QED
    BY <2>3, <2>7 DEF m
<1> QED
  BY <1>1, <1>2, <1>3

\* What is joined when a list is added.
LEMMA JoinedMore ==
  ASSUME NEW T, NEW a \in Seq(Seq(T)), NEW m \in Seq(Seq(T)), NEW x \in Seq(T),
         Len(m) = Len(a) + 1, \A i \in 1 .. Len(a) : m[i] = a[i], m[Len(a) + 1] = x
  PROVE  Joined(m) = Joined(a) \o x
<1> DEFINE b == <<x>>
<1>1. b \in Seq(Seq(T)) /\ Len(b) = 1 /\ b[1] = x
  OBVIOUS
<1>2. Joined(b) = x
  BY JoinedFew
<1> HIDE DEF b
<1>3. Len(m) = Len(a) + Len(b) /\ \A i \in 1 .. Len(b) : m[Len(a) + i] = b[i]
  BY <1>1
<1>4. Joined(m) = Joined(a) \o Joined(b)
  BY <1>1, <1>3, JoinedTwo
<1> QED
  BY <1>2, <1>4

\* The pieces of a list that are kept.
PiecesOf(s, K) == [k \in DOMAIN s |-> IF s[k] \in K THEN <<s[k]>> ELSE <<>>]

LEMMA PiecesTyped ==
  ASSUME NEW T, NEW K, NEW s \in Seq(T)
  PROVE  /\ PiecesOf(s, K) \in Seq(Seq(T)) /\ Len(PiecesOf(s, K)) = Len(s) /\ Len(s) \in Nat
         /\ \A k \in 1 .. Len(s) : PiecesOf(s, K)[k] = IF s[k] \in K THEN <<s[k]>> ELSE <<>>
         /\ Only(s, K) = Joined(PiecesOf(s, K)) /\ Only(s, K) \in Seq(T)
<1> DEFINE n == Len(s)
           z == PiecesOf(s, K)
<1>1. n \in Nat /\ DOMAIN s = 1 .. n /\ \A k \in 1 .. n : s[k] \in T
  BY LenProperties, ElementOfSeq
<1>2. z = [k \in 1 .. n |-> IF s[k] \in K THEN <<s[k]>> ELSE <<>>]
  BY <1>1 DEF PiecesOf
<1>3. Only(s, K) = Joined(z)
  BY DEF Only, PiecesOf
<1> HIDE DEF n, z
<1>4. \A k \in 1 .. n : z[k] = IF s[k] \in K THEN <<s[k]>> ELSE <<>>
  BY <1>2
<1>5. \A k \in 1 .. n : z[k] \in Seq(T)
  <2> SUFFICES ASSUME NEW k \in 1 .. n PROVE z[k] \in Seq(T)
    OBVIOUS
  <2>1. s[k] \in T
    BY <1>1
  <2>2. <<s[k]>> \in Seq(T) /\ <<>> \in Seq(T)
    BY <2>1
  <2> QED
    BY <1>4, <2>2
<1>6. z \in [1 .. n -> Seq(T)]
  BY <1>2, <1>5
<1>7. z \in Seq(Seq(T)) /\ Len(z) = n
  <2>1. z \in Seq(Seq(T)) /\ DOMAIN z = 1 .. n
    BY <1>1, <1>6, SeqDef
  <2>2. Len(z) = n
    BY <1>1, <2>1, LenProperties
  <2> QED
    BY <2>1, <2>2
<1>8. Joined(z) \in Seq(T)
  BY <1>7, JoinsTyped
<1> QED
  BY <1>1, <1>3, <1>4, <1>7, <1>8 DEF n, z

\* What is kept of two lists is what is kept of the one and of the other.
LEMMA OnlyTwo ==
  ASSUME NEW T, NEW K, NEW s \in Seq(T), NEW t \in Seq(T)
  PROVE  Only(s \o t, K) = Only(s, K) \o Only(t, K)
<1> DEFINE u == s \o t
           a == PiecesOf(s, K)
           b == PiecesOf(t, K)
           m == PiecesOf(u, K)
           c == Len(s)
           d == Len(t)
<1>0. \A x, y, z \in Seq(Seq(T)) :
        /\ Len(z) = Len(x) + Len(y) /\ \A i \in 1 .. Len(x) : z[i] = x[i]
        /\ \A i \in 1 .. Len(y) : z[Len(x) + i] = y[i]
        => Joined(z) = Joined(x) \o Joined(y)
  <2> SUFFICES ASSUME NEW x \in Seq(Seq(T)), NEW y \in Seq(Seq(T)), NEW z \in Seq(Seq(T)),
                      Len(z) = Len(x) + Len(y), \A i \in 1 .. Len(x) : z[i] = x[i],
                      \A i \in 1 .. Len(y) : z[Len(x) + i] = y[i]
               PROVE  Joined(z) = Joined(x) \o Joined(y)
    OBVIOUS
  <2> QED
    BY JoinedTwo
<1>1. /\ u \in Seq(T) /\ Len(u) = c + d
      /\ \A i \in 1 .. c + d : u[i] = IF i <= c THEN s[i] ELSE t[i - c]
  BY ConcatProperties
<1> HIDE DEF u
<1>2. /\ a \in Seq(Seq(T)) /\ Len(a) = c /\ c \in Nat
      /\ \A k \in 1 .. c : a[k] = IF s[k] \in K THEN <<s[k]>> ELSE <<>>
      /\ Only(s, K) = Joined(a)
  BY PiecesTyped
<1>3. /\ b \in Seq(Seq(T)) /\ Len(b) = d /\ d \in Nat
      /\ \A k \in 1 .. d : b[k] = IF t[k] \in K THEN <<t[k]>> ELSE <<>>
      /\ Only(t, K) = Joined(b)
  BY PiecesTyped
<1>4. /\ m \in Seq(Seq(T)) /\ Len(m) = c + d
      /\ \A k \in 1 .. c + d : m[k] = IF u[k] \in K THEN <<u[k]>> ELSE <<>>
      /\ Only(u, K) = Joined(m)
  BY <1>1, PiecesTyped
<1> HIDE DEF a, b, m, c, d
<1>5. \A i \in 1 .. c : m[i] = a[i]
  <2> SUFFICES ASSUME NEW i \in 1 .. c PROVE m[i] = a[i]
    OBVIOUS
  <2>1. i \in 1 .. c + d /\ i <= c
    BY <1>2, <1>3
  <2>2. u[i] = s[i]
    BY <1>1, <2>1
  <2> QED
    BY <1>2, <1>4, <2>1, <2>2
<1>6. \A i \in 1 .. d : m[c + i] = b[i]
  <2> SUFFICES ASSUME NEW i \in 1 .. d PROVE m[c + i] = b[i]
    OBVIOUS
  <2> DEFINE j == c + i
  <2>1. j \in 1 .. c + d /\ ~(j <= c) /\ j - c = i
    BY <1>2, <1>3
  <2> HIDE DEF j
  <2>2. u[j] = t[i]
    BY <1>1, <2>1
  <2>3. m[j] = b[i]
    BY <1>3, <1>4, <2>1, <2>2
  <2> QED
    BY <2>3 DEF j
<1>7. /\ Len(m) = Len(a) + Len(b) /\ \A i \in 1 .. Len(a) : m[i] = a[i]
      /\ \A i \in 1 .. Len(b) : m[Len(a) + i] = b[i]
  BY <1>2, <1>3, <1>4, <1>5, <1>6
<1>8. Joined(m) = Joined(a) \o Joined(b)
  <2>1. a \in Seq(Seq(T)) /\ b \in Seq(Seq(T)) /\ m \in Seq(Seq(T))
    BY <1>2, <1>3, <1>4
  <2> QED
    BY <1>0, <1>7, <2>1
<1> QED
  BY <1>2, <1>3, <1>4, <1>8 DEF u

\* A list of two items.
LEMMA TwoItems ==
  ASSUME NEW T, NEW x \in T, NEW y \in T
  PROVE  <<x>> \o <<y>> = <<x, y>>
<1> DEFINE a == <<x>>
           b == <<y>>
           c == <<x, y>>
<1>1. a \in Seq(T) /\ Len(a) = 1 /\ a[1] = x
  OBVIOUS
<1>2. b \in Seq(T) /\ Len(b) = 1 /\ b[1] = y
  OBVIOUS
<1>3. c \in Seq(T) /\ Len(c) = 2 /\ c[1] = x /\ c[2] = y
  OBVIOUS
<1> HIDE DEF a, b, c
<1>4. /\ a \o b \in Seq(T) /\ Len(a \o b) = 2
      /\ \A i \in 1 .. 2 : (a \o b)[i] = IF i <= 1 THEN a[i] ELSE b[i - 1]
  BY <1>1, <1>2, ConcatProperties
<1>5. (a \o b)[1] = x /\ (a \o b)[2] = y
  BY <1>1, <1>2, <1>4
<1>6. a \o b = c
  BY <1>3, <1>4, <1>5, SeqEqual
<1> QED
  BY <1>6 DEF a, b, c

\* What is kept of few items.
LEMMA OnlyFew ==
  ASSUME NEW T, NEW K
  PROVE  /\ Only(<<>>, K) = <<>>
         /\ \A x \in T : Only(<<x>>, K) = IF x \in K THEN <<x>> ELSE <<>>
         /\ \A x, y \in T : Only(<<x, y>>, K) =
              IF x \in K THEN IF y \in K THEN <<x, y>> ELSE <<x>>
              ELSE IF y \in K THEN <<y>> ELSE <<>>
<1>1. Only(<<>>, K) = <<>>
  <2>1. PiecesOf(<<>>, K) = <<>>
    BY DEF PiecesOf
  <2> QED
    BY <2>1, JoinedFew DEF Only, PiecesOf
<1>2. ASSUME NEW x \in T PROVE Only(<<x>>, K) = IF x \in K THEN <<x>> ELSE <<>>
  <2> DEFINE s == <<x>>
             y == IF x \in K THEN <<x>> ELSE <<>>
  <2>1. s \in Seq(T) /\ Len(s) = 1 /\ s[1] = x /\ y \in Seq(T)
    OBVIOUS
  <2> HIDE DEF s
  <2>2. /\ PiecesOf(s, K) \in Seq(Seq(T)) /\ Len(PiecesOf(s, K)) = Len(s)
        /\ \A k \in 1 .. Len(s) : PiecesOf(s, K)[k] = IF s[k] \in K THEN <<s[k]>> ELSE <<>>
        /\ Only(s, K) = Joined(PiecesOf(s, K))
    BY <2>1, PiecesTyped
  <2> DEFINE z == PiecesOf(s, K)
  <2>3. z \in Seq(Seq(T)) /\ Len(z) = 1 /\ z[1] = y
    BY <2>1, <2>2
  <2> HIDE DEF z, y
  <2>4. <<y>> \in Seq(Seq(T)) /\ Len(<<y>>) = 1 /\ <<y>>[1] = y
    BY <2>1
  <2>5. z = <<y>>
    <3>1. Len(z) = Len(<<y>>) /\ \A i \in 1 .. Len(z) : z[i] = <<y>>[i]
      BY <2>3, <2>4
    <3> QED
      BY <2>3, <2>4, <3>1, SeqEqual
  <2>6. Only(s, K) = y
    BY <2>1, <2>2, <2>5, JoinedFew DEF z
  <2> QED
    BY <2>6 DEF s, y
<1>3. ASSUME NEW x \in T, NEW y \in T
      PROVE  Only(<<x, y>>, K) = IF x \in K THEN IF y \in K THEN <<x, y>> ELSE <<x>>
                                 ELSE IF y \in K THEN <<y>> ELSE <<>>
  <2>1. <<x>> \in Seq(T) /\ <<y>> \in Seq(T) /\ <<x>> \o <<y>> = <<x, y>>
    <3>1. <<x>> \in Seq(T) /\ <<y>> \in Seq(T)
      OBVIOUS
    <3>2. <<x>> \o <<y>> = <<x, y>>
      BY TwoItems
    <3> QED
      BY <3>1, <3>2
  <2>2. Only(<<x>> \o <<y>>, K) = Only(<<x>>, K) \o Only(<<y>>, K)
    BY <2>1, OnlyTwo
  <2>3. /\ Only(<<x>>, K) = IF x \in K THEN <<x>> ELSE <<>>
        /\ Only(<<y>>, K) = IF y \in K THEN <<y>> ELSE <<>>
    BY <1>2
  <2>4. <<x>> \o <<>> = <<x>> /\ <<>> \o <<y>> = <<y>> /\ <<>> \o <<>> = <<>>
    BY <2>1, ConcatEmptySeq
  <2> QED
    BY <2>1, <2>2, <2>3, <2>4
<1> QED
  BY <1>1, <1>2, <1>3

\* What is kept is some of the items, and among those to keep.
LEMMA OnlyWithin ==
  ASSUME NEW T, NEW K, NEW s \in Seq(T)
  PROVE  Only(s, K) \in Seq({s[k] : k \in DOMAIN s} \cap K)
<1> DEFINE W == {s[k] : k \in DOMAIN s} \cap K
           n == Len(s)
           z == PiecesOf(s, K)
<1>1. /\ z \in Seq(Seq(T)) /\ Len(z) = n /\ n \in Nat
      /\ \A k \in 1 .. n : z[k] = IF s[k] \in K THEN <<s[k]>> ELSE <<>>
      /\ Only(s, K) = Joined(z) /\ DOMAIN s = 1 .. n
  BY PiecesTyped, LenProperties
<1>2. \A k \in 1 .. n : s[k] \in K => s[k] \in W
  BY <1>1
<1> HIDE DEF W, z, n
<1>3. \A k \in 1 .. n : z[k] \in Seq(W)
  <2> SUFFICES ASSUME NEW k \in 1 .. n PROVE z[k] \in Seq(W)
    OBVIOUS
  <2>1. \A x \in W : <<x>> \in Seq(W)
    OBVIOUS
  <2>2. <<>> \in Seq(W)
    OBVIOUS
  <2> QED
    BY <1>1, <1>2, <2>1, <2>2
<1>4. z \in Seq(Seq(W))
  <2>1. DOMAIN z = 1 .. n /\ z = [k \in 1 .. n |-> z[k]]
    BY <1>1, LenProperties
  <2>2. z \in [1 .. n -> Seq(W)]
    BY <1>3, <2>1
  <2> QED
    BY <1>1, <2>2, SeqDef
<1>5. Joined(z) \in Seq(W)
  BY <1>4, JoinsTyped
<1> QED
  BY <1>1, <1>5 DEF W
=============================================================================
