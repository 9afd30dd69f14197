----------------------- MODULE SessionHistory_proofs -----------------------
(***************************************************************************)
(* Proofs about SessionHistory, for any number of SessionV2 objects and    *)
(* compactions, any limit of read() and logs of any length.                *)
(***************************************************************************)
EXTENDS SessionHistory, SharedTheorems

-----------------------------------------------------------------------------
(***************************************************************************)
(* One event.                                                              *)
(***************************************************************************)

Messages(n) == [role : {"user", "assistant", "system"}, seq : 1 .. n, edits : 0 .. n]

ViewsTo(n) == [ok : BOOLEAN, tools : SUBSET (1 .. n), messages : Seq(Messages(n))]

\* Everything but the snapshot was said by someone; it is in the order in which
\* it was written, and the snapshot stands in front.
Ordered(ms) ==
  \A i, j \in DOMAIN ms : i < j =>
    /\ ms[j].role # "system"
    /\ ms[i].seq <= ms[j].seq
    /\ ms[i].role # "system" => ms[i].seq < ms[j].seq

Spoken(ms) == {ms[i].seq : i \in {i \in DOMAIN ms : ms[i].role # "system"}}

LEMMA MessagesGrow ==
  ASSUME NEW n \in Nat, NEW ms \in Seq(Messages(n))
  PROVE  ms \in Seq(Messages(n + 1))
<1>1. Messages(n) \subseteq Messages(n + 1)
  BY DEF Messages
<1> QED
  BY <1>1, SeqMonotonic

\* A view with other messages or tool calls is a view.
LEMMA ViewMade ==
  ASSUME NEW n \in Nat, NEW v \in ViewsTo(n),
         NEW ms \in Seq(Messages(n + 1)), NEW ts \in SUBSET (1 .. n + 1)
  PROVE  /\ [v EXCEPT !.messages = ms] \in ViewsTo(n + 1)
         /\ [v EXCEPT !.tools = ts] \in ViewsTo(n + 1)
         /\ [v EXCEPT !.messages = ms, !.tools = ts] \in ViewsTo(n + 1)
         /\ [v EXCEPT !.ok = FALSE] \in ViewsTo(n + 1)
         /\ v \in ViewsTo(n + 1)
<1> DEFINE R == [ok |-> v.ok, tools |-> v.tools, messages |-> v.messages]
<1>1. v = R /\ v.ok \in BOOLEAN /\ v.tools \in SUBSET (1 .. n) /\ v.messages \in Seq(Messages(n))
  BY DEF ViewsTo
<1>2. v.tools \in SUBSET (1 .. n + 1)
  BY <1>1
<1>3. v.messages \in Seq(Messages(n + 1))
  BY <1>1, MessagesGrow
<1> DEFINE S == Seq(Messages(n + 1))
           P == SUBSET (1 .. n + 1)
<1>4. ViewsTo(n + 1) = [ok : BOOLEAN, tools : P, messages : S]
  BY DEF ViewsTo
<1>5. v.tools \in P /\ v.messages \in S /\ ms \in S /\ ts \in P
  BY <1>2, <1>3
<1> HIDE DEF S, P
<1>6. [R EXCEPT !.messages = ms] = [ok |-> v.ok, tools |-> v.tools, messages |-> ms]
  OBVIOUS
<1>7. [R EXCEPT !.tools = ts] = [ok |-> v.ok, tools |-> ts, messages |-> v.messages]
  OBVIOUS
<1>8. [R EXCEPT !.messages = ms, !.tools = ts] = [ok |-> v.ok, tools |-> ts, messages |-> ms]
  <2>1. [[ok |-> v.ok, tools |-> v.tools, messages |-> ms] EXCEPT !.tools = ts]
          = [ok |-> v.ok, tools |-> ts, messages |-> ms]
    OBVIOUS
  <2> QED
    BY <1>6, <2>1
<1>9. [R EXCEPT !.ok = FALSE] = [ok |-> FALSE, tools |-> v.tools, messages |-> v.messages]
  <2>1. \A b : [R EXCEPT !.ok = b] = [ok |-> b, tools |-> v.tools, messages |-> v.messages]
    OBVIOUS
  <2> QED
    BY <2>1
<1>10. /\ [ok |-> v.ok, tools |-> v.tools, messages |-> ms] \in ViewsTo(n + 1)
       /\ [ok |-> v.ok, tools |-> ts, messages |-> v.messages] \in ViewsTo(n + 1)
       /\ [ok |-> v.ok, tools |-> ts, messages |-> ms] \in ViewsTo(n + 1)
       /\ [ok |-> FALSE, tools |-> v.tools, messages |-> v.messages] \in ViewsTo(n + 1)
       /\ R \in ViewsTo(n + 1)
  BY <1>1, <1>4, <1>5
<1> QED
  BY <1>1, <1>6, <1>7, <1>8, <1>9, <1>10

LEMMA KeptOrdered ==
  ASSUME NEW n \in Nat, NEW ms \in Seq(Messages(n)), Ordered(ms), NEW W \in SUBSET DOMAIN ms
  PROVE  /\ ItemsAt(ms, W) \in Seq(Messages(n))
         /\ Ordered(ItemsAt(ms, W))
         /\ Spoken(ItemsAt(ms, W)) = {ms[k].seq : k \in {k \in W : ms[k].role # "system"}}
<1> DEFINE kept == ItemsAt(ms, W)
           c == Cardinality(W)
<1>0. /\ c \in Nat /\ kept \in Seq(Messages(n)) /\ Len(kept) = c
      /\ \A i \in 1 .. c : PlaceIn(W, i) \in W /\ kept[i] = ms[PlaceIn(W, i)]
      /\ \A i, j \in 1 .. c : i < j => PlaceIn(W, i) < PlaceIn(W, j)
      /\ \A k \in W : \E i \in 1 .. c : PlaceIn(W, i) = k
  <2> DEFINE T == Messages(n)
  <2> HIDE DEF T
  <2>1. ms \in Seq(T)
    BY DEF T
  <2> QED
    BY <2>1, KeptItems DEF T
<1>1. /\ c \in Nat /\ kept \in Seq(Messages(n)) /\ DOMAIN kept = 1 .. c
      /\ \A i \in 1 .. c : PlaceIn(W, i) \in W /\ kept[i] = ms[PlaceIn(W, i)]
      /\ \A i, j \in 1 .. c : i < j => PlaceIn(W, i) < PlaceIn(W, j)
      /\ \A k \in W : \E i \in 1 .. c : PlaceIn(W, i) = k
  BY <1>0, LenProperties
<1> HIDE DEF kept, c
<1>2. Ordered(kept)
  BY <1>1 DEF Ordered
<1>3. Spoken(kept) = {ms[k].seq : k \in {k \in W : ms[k].role # "system"}}
  <2>1. ASSUME NEW q \in Spoken(kept)
        PROVE  \E k \in W : ms[k].role # "system" /\ ms[k].seq = q
    BY <1>1 DEF Spoken
  <2>2. ASSUME NEW k \in W, ms[k].role # "system"
        PROVE  ms[k].seq \in Spoken(kept)
    <3>1. PICK i \in 1 .. c : PlaceIn(W, i) = k
      BY <1>1
    <3>2. i \in DOMAIN kept /\ kept[i] = ms[k]
      BY <1>1, <3>1
    <3> QED
      BY <2>2, <3>2 DEF Spoken
  <2> QED
    BY <2>1, <2>2
<1> QED
  BY <1>1, <1>2, <1>3 DEF kept

\* A message is said after everything else.
LEMMA AddsLast ==
  ASSUME NEW n \in Nat, NEW v \in ViewsTo(n), Ordered(v.messages),
         NEW role \in {"user", "assistant"}
  PROVE  LET w == Adds(v, Message(role, n + 1)) IN
         /\ w \in ViewsTo(n + 1) /\ w.ok = v.ok /\ w.tools = v.tools
         /\ Ordered(w.messages)
         /\ Spoken(w.messages) = Spoken(v.messages) \cup {n + 1}
<1> DEFINE m == Message(role, n + 1)
           ms == v.messages
           new == Append(ms, m)
           w == Adds(v, m)
<1>1. m \in Messages(n + 1) /\ m.role # "system" /\ m.seq = n + 1
  BY DEF Messages, Message
<1>2. ms \in Seq(Messages(n)) /\ v.tools \in SUBSET (1 .. n) /\ v.ok \in BOOLEAN
  BY DEF ViewsTo
<1>3. w = [v EXCEPT !.messages = new]
  BY DEF Adds
<1>4. w.ok = v.ok /\ w.tools = v.tools /\ w.messages = new
  BY <1>3 DEF ViewsTo
<1> HIDE DEF m, ms
<1>5. /\ Len(ms) \in Nat /\ DOMAIN ms = 1 .. Len(ms)
      /\ \A i \in 1 .. Len(ms) : ms[i] \in Messages(n)
  BY <1>2, LenProperties, ElementOfSeq
<1>6. /\ new \in Seq(Messages(n + 1)) /\ DOMAIN new = 1 .. Len(ms) + 1
      /\ \A i \in 1 .. Len(ms) : new[i] = ms[i]
      /\ new[Len(ms) + 1] = m
  <2>1. ms \in Seq(Messages(n + 1))
    BY <1>2, MessagesGrow
  <2> QED
    BY <1>1, <1>5, <2>1, AppendProperties, LenProperties
<1>7. w \in ViewsTo(n + 1)
  <2> HIDE DEF new, w
  <2> QED
    BY <1>3, <1>6, ViewMade
<1> HIDE DEF new
<1>8. Ordered(new)
  <2>1. \A i \in 1 .. Len(ms) : new[i].seq \in 1 .. n
    BY <1>5, <1>6 DEF Messages
  <2>2. Ordered(ms)
    BY DEF ms
  <2> SUFFICES ASSUME NEW k \in DOMAIN new, NEW l \in DOMAIN new, k < l
               PROVE  /\ new[l].role # "system"
                      /\ new[k].seq <= new[l].seq
                      /\ new[k].role # "system" => new[k].seq < new[l].seq
    BY DEF Ordered
  <2>3. k \in 1 .. Len(ms) /\ new[k] = ms[k]
    BY <1>5, <1>6
  <2>4. CASE l = Len(ms) + 1
    BY <1>1, <1>6, <2>1, <2>3, <2>4
  <2>5. CASE l # Len(ms) + 1
    <3>1. l \in 1 .. Len(ms) /\ new[l] = ms[l]
      BY <1>5, <1>6, <2>5
    <3> QED
      BY <1>5, <2>2, <2>3, <3>1 DEF Ordered
  <2> QED
    BY <2>4, <2>5
<1>9. Spoken(new) = Spoken(ms) \cup {n + 1}
  BY <1>1, <1>5, <1>6 DEF Spoken
<1> QED
  BY <1>4, <1>7, <1>8, <1>9 DEF m, ms

\* A revert keeps what was said up to its target.
LEMMA RevertsPast ==
  ASSUME NEW n \in Nat, NEW v \in ViewsTo(n), Ordered(v.messages), NEW target \in Nat
  PROVE  LET w == Reverted(v, target) IN
         /\ w \in ViewsTo(n + 1) /\ w.ok = v.ok
         /\ w.tools = {t \in v.tools : t <= target}
         /\ Ordered(w.messages)
         /\ Spoken(w.messages) = {q \in Spoken(v.messages) : q <= target}
<1> DEFINE ms == v.messages
           W == {i \in DOMAIN ms : ms[i].seq <= target}
           w == Reverted(v, target)
<1>1. ms \in Seq(Messages(n)) /\ v.tools \in SUBSET (1 .. n) /\ v.ok \in BOOLEAN
  BY DEF ViewsTo
<1>2. /\ w = [v EXCEPT !.messages = ItemsAt(ms, W), !.tools = {t \in v.tools : t <= target}]
  BY DEF Reverted
<1>3. w.ok = v.ok /\ w.tools = {t \in v.tools : t <= target} /\ w.messages = ItemsAt(ms, W)
  BY <1>2 DEF ViewsTo
<1>4. W \in SUBSET DOMAIN ms
  OBVIOUS
<1>5. /\ ItemsAt(ms, W) \in Seq(Messages(n)) /\ Ordered(ItemsAt(ms, W))
      /\ Spoken(ItemsAt(ms, W)) = {ms[k].seq : k \in {k \in W : ms[k].role # "system"}}
  <2> HIDE DEF W, ms
  <2> QED
    BY <1>1, <1>4, KeptOrdered DEF ms
<1>6. ItemsAt(ms, W) \in Seq(Messages(n + 1))
  BY <1>5, MessagesGrow
<1>7. w \in ViewsTo(n + 1)
  <2> DEFINE ts == {t \in v.tools : t <= target}
             new == ItemsAt(ms, W)
  <2>1. ts \in SUBSET (1 .. n + 1)
    BY <1>1
  <2>2. w = [v EXCEPT !.messages = new, !.tools = ts]
    BY <1>2
  <2>3. new \in Seq(Messages(n + 1))
    BY <1>6
  <2> HIDE DEF new, ts, w
  <2> QED
    BY <2>1, <2>2, <2>3, ViewMade
<1>8. Spoken(ItemsAt(ms, W)) = {q \in Spoken(ms) : q <= target}
  BY <1>5 DEF Spoken
<1> QED
  BY <1>3, <1>5, <1>7, <1>8

\* A compaction keeps what was said from its baseline on, behind a snapshot
\* when anything goes.
LEMMA CompactsBefore ==
  ASSUME NEW n \in Nat, NEW v \in ViewsTo(n), Ordered(v.messages), NEW baseNo \in 1 .. n
  PROVE  LET w == Compacted(v, baseNo) IN
         /\ w \in ViewsTo(n + 1) /\ w.ok = v.ok /\ w.tools = v.tools
         /\ Ordered(w.messages)
         /\ Spoken(w.messages) = {q \in Spoken(v.messages) : q >= baseNo}
<1> DEFINE ms == v.messages
           W == {i \in DOMAIN ms : ms[i].seq >= baseNo}
           kept == ItemsAt(ms, W)
           snap == Message("system", baseNo)
           new == IF Len(kept) < Len(ms) THEN <<snap>> \o kept ELSE kept
           w == Compacted(v, baseNo)
<1>1. ms \in Seq(Messages(n)) /\ v.tools \in SUBSET (1 .. n) /\ v.ok \in BOOLEAN
  BY DEF ViewsTo
<1>2. w = [v EXCEPT !.messages = new]
  BY DEF Compacted
<1>3. w.ok = v.ok /\ w.tools = v.tools /\ w.messages = new
  BY <1>2 DEF ViewsTo
<1>4. W \in SUBSET DOMAIN ms
  OBVIOUS
<1>5. /\ kept \in Seq(Messages(n)) /\ Ordered(kept)
      /\ Spoken(kept) = {ms[k].seq : k \in {k \in W : ms[k].role # "system"}}
      /\ Len(kept) = Cardinality(W) /\ Len(kept) \in Nat /\ Len(kept) <= Len(ms)
      /\ DOMAIN kept = 1 .. Len(kept)
      /\ \A i \in 1 .. Len(kept) : PlaceIn(W, i) \in W /\ kept[i] = ms[PlaceIn(W, i)]
  <2> DEFINE T == Messages(n)
  <2>0. ms \in Seq(Messages(n)) /\ ms \in Seq(T) /\ W \in SUBSET DOMAIN ms /\ Ordered(ms)
    BY <1>1, <1>4
  <2> HIDE DEF W, ms, kept, T
  <2>1. /\ kept \in Seq(Messages(n)) /\ Ordered(kept)
        /\ Spoken(kept) = {ms[k].seq : k \in {k \in W : ms[k].role # "system"}}
    BY <2>0, KeptOrdered DEF kept
  <2>2. /\ Len(kept) = Cardinality(W) /\ Cardinality(W) \in Nat /\ Cardinality(W) <= Len(ms)
        /\ \A i \in 1 .. Cardinality(W) : PlaceIn(W, i) \in W /\ kept[i] = ms[PlaceIn(W, i)]
    BY <2>0, KeptItems DEF kept
  <2>3. DOMAIN kept = 1 .. Len(kept)
    BY <2>1, LenProperties
  <2> QED
    BY <2>1, <2>2, <2>3
<1>6. Spoken(kept) = {q \in Spoken(ms) : q >= baseNo}
  BY <1>5 DEF Spoken
<1>7. /\ Len(ms) \in Nat /\ DOMAIN ms = 1 .. Len(ms)
      /\ \A i \in 1 .. Len(ms) : ms[i] \in Messages(n) /\ ms[i].seq \in 1 .. n
  <2>1. \A i \in 1 .. Len(ms) : ms[i] \in Messages(n)
    BY <1>1, ElementOfSeq
  <2> QED
    BY <1>1, <2>1, LenProperties DEF Messages
<1>8. snap \in Messages(n + 1) /\ snap.role = "system" /\ snap.seq = baseNo
  BY DEF Messages, Message
<1> HIDE DEF snap, kept
<1>9. ASSUME Len(kept) < Len(ms)
      PROVE  /\ new \in Seq(Messages(n + 1)) /\ Ordered(new) /\ Spoken(new) = Spoken(kept)
  <2>1. PICK i \in 1 .. Len(ms) : i \notin W
    <3> DEFINE l == Len(ms)
    <3>0. l \in Nat /\ DOMAIN ms = 1 .. l
      BY <1>7
    <3> HIDE DEF l
    <3>2. Cardinality(1 .. l) = l
      BY <3>0, FS_Interval
    <3>1. W = DOMAIN ms => Cardinality(W) = Len(ms)
      BY <3>0, <3>2 DEF l
    <3> QED
      BY <1>4, <1>5, <1>7, <1>9, <3>1
  <2>2. ms[i].seq < baseNo
    BY <1>7, <2>1
  <2>3. \A k \in W : ms[k].role # "system" /\ ms[k].seq >= baseNo
    <3> SUFFICES ASSUME NEW k \in W, ms[k].role = "system" PROVE FALSE
      OBVIOUS
    <3>1. k \in 1 .. Len(ms) /\ ms[k].seq \in Int /\ ms[i].seq \in Int /\ ms[k].seq >= baseNo
      BY <1>7
    <3>2. CASE i < k
      BY <1>7, <3>1, <3>2 DEF Ordered
    <3>3. CASE k < i
      BY <1>7, <2>2, <3>1, <3>3 DEF Ordered
    <3>4. k # i
      BY <2>1
    <3> QED
      BY <3>1, <3>2, <3>3, <3>4
  <2>4. \A k \in 1 .. Len(kept) : kept[k].role # "system" /\ kept[k].seq >= baseNo
    BY <1>5, <2>3
  <2>5. /\ new \in Seq(Messages(n + 1)) /\ Len(new) = Len(kept) + 1
        /\ DOMAIN new = 1 .. Len(kept) + 1
        /\ new[1] = snap /\ \A k \in 2 .. Len(kept) + 1 : new[k] = kept[k - 1]
    <3>1. <<snap>> \in Seq(Messages(n + 1)) /\ Len(<<snap>>) = 1 /\ <<snap>>[1] = snap
      BY <1>8
    <3>2. kept \in Seq(Messages(n + 1))
      BY <1>5, MessagesGrow
    <3>3. new = <<snap>> \o kept
      BY <1>9
    <3>4. /\ new \in Seq(Messages(n + 1)) /\ Len(new) = 1 + Len(kept)
          /\ \A k \in 1 .. 1 + Len(kept) :
               new[k] = IF k <= 1 THEN <<snap>>[k] ELSE kept[k - 1]
      <4> DEFINE S == Messages(n + 1)
                 one == <<snap>>
      <4>1. one \in Seq(S) /\ Len(one) = 1 /\ kept \in Seq(S)
        BY <3>1, <3>2
      <4> HIDE DEF S, one, new
      <4>2. /\ one \o kept \in Seq(S) /\ Len(one \o kept) = Len(one) + Len(kept)
            /\ \A k \in 1 .. Len(one) + Len(kept) :
                 (one \o kept)[k] = IF k <= Len(one) THEN one[k] ELSE kept[k - Len(one)]
        BY <4>1, ConcatProperties
      <4>3. new = one \o kept
        BY <3>3 DEF one
      <4> QED
        BY <4>1, <4>2, <4>3 DEF S, one
    <3>5. DOMAIN new = 1 .. Len(new)
      BY <3>4, LenProperties
    <3> HIDE DEF new
    <3>6. Len(kept) \in Nat /\ Len(new) = Len(kept) + 1
      BY <1>5, <3>4
    <3>7. new[1] = snap
      BY <3>1, <3>4, <3>6
    <3>8. ASSUME NEW k \in 2 .. Len(kept) + 1
          PROVE  new[k] = kept[k - 1]
      <4>1. k \in 1 .. 1 + Len(kept) /\ ~(k <= 1)
        BY <3>6
      <4> QED
        BY <3>4, <4>1
    <3> QED
      BY <3>4, <3>5, <3>6, <3>7, <3>8
  <2> HIDE DEF new
  <2>6. Ordered(new)
    <3> SUFFICES ASSUME NEW k \in DOMAIN new, NEW l \in DOMAIN new, k < l
                 PROVE  /\ new[l].role # "system"
                        /\ new[k].seq <= new[l].seq
                        /\ new[k].role # "system" => new[k].seq < new[l].seq
      BY DEF Ordered
    <3>1. l - 1 \in 1 .. Len(kept) /\ new[l] = kept[l - 1]
      BY <1>5, <2>5
    <3>2. CASE k = 1
      BY <1>8, <2>4, <2>5, <3>1, <3>2
    <3>3. CASE k # 1
      <4>1. k - 1 \in 1 .. Len(kept) /\ new[k] = kept[k - 1] /\ k - 1 < l - 1
        BY <1>5, <2>5, <3>3
      <4> QED
        BY <1>5, <3>1, <4>1 DEF Ordered
    <3> QED
      BY <3>2, <3>3
  <2>7. Spoken(new) = Spoken(kept)
    <3>1. \A k \in 1 .. Len(kept) : k + 1 \in DOMAIN new /\ new[k + 1] = kept[k]
      BY <1>5, <2>5
    <3>2. \A k \in DOMAIN new : k # 1 => k - 1 \in 1 .. Len(kept) /\ new[k] = kept[k - 1]
      BY <1>5, <2>5
    <3>3. new[1].role = "system"
      BY <1>8, <2>5
    <3>4. ASSUME NEW k \in DOMAIN new, new[k].role # "system"
          PROVE  new[k].seq \in Spoken(kept)
      <4>1. k - 1 \in DOMAIN kept /\ new[k] = kept[k - 1]
        BY <1>5, <3>2, <3>3, <3>4
      <4> QED
        BY <3>4, <4>1 DEF Spoken
    <3>5. ASSUME NEW k \in DOMAIN kept, kept[k].role # "system"
          PROVE  kept[k].seq \in Spoken(new)
      <4>1. k + 1 \in DOMAIN new /\ new[k + 1] = kept[k]
        BY <1>5, <3>1
      <4> QED
        BY <3>5, <4>1 DEF Spoken
    <3>6. Spoken(new) \subseteq Spoken(kept)
      BY <3>4 DEF Spoken
    <3>7. Spoken(kept) \subseteq Spoken(new)
      BY <3>5 DEF Spoken
    <3> QED
      BY <3>6, <3>7
  <2> QED
    BY <2>5, <2>6, <2>7
<1>10. ASSUME ~(Len(kept) < Len(ms))
       PROVE  new \in Seq(Messages(n + 1)) /\ Ordered(new) /\ Spoken(new) = Spoken(kept)
  BY <1>5, <1>10, MessagesGrow
<1>11. new \in Seq(Messages(n + 1)) /\ Ordered(new) /\ Spoken(new) = Spoken(kept)
  BY <1>9, <1>10
<1>12. w \in ViewsTo(n + 1)
  <2> HIDE DEF new, w
  <2> QED
    BY <1>2, <1>11, ViewMade
<1> QED
  BY <1>3, <1>6, <1>11, <1>12

LEMMA SpokenRange ==
  ASSUME NEW n \in Nat, NEW ms \in Seq(Messages(n))
  PROVE  Spoken(ms) \subseteq 1 .. n
<1>1. \A i \in DOMAIN ms : ms[i] \in Messages(n)
  BY LenProperties, ElementOfSeq
<1> QED
  BY <1>1 DEF Spoken, Messages

\* An edit keeps who said what and when.
LEMMA EditsInPlace ==
  ASSUME NEW n \in Nat, NEW v \in ViewsTo(n), Ordered(v.messages),
         NEW i \in 1 .. Len(v.messages)
  PROVE  LET w == Edited(v, i) IN
         /\ w \in ViewsTo(n + 1) /\ w.ok = v.ok /\ w.tools = v.tools
         /\ Ordered(w.messages)
         /\ Spoken(w.messages) = Spoken(v.messages)
<1> DEFINE ms == v.messages
           new == [ms EXCEPT ![i].edits = @ + 1]
           w == Edited(v, i)
<1>1. ms \in Seq(Messages(n)) /\ v.tools \in SUBSET (1 .. n) /\ v.ok \in BOOLEAN
  BY DEF ViewsTo
<1>2. w = [v EXCEPT !.messages = new]
  BY DEF Edited
<1>3. w.ok = v.ok /\ w.tools = v.tools /\ w.messages = new
  BY <1>2 DEF ViewsTo
<1> HIDE DEF ms
<1>4. /\ Len(ms) \in Nat /\ DOMAIN ms = 1 .. Len(ms) /\ i \in 1 .. Len(ms)
      /\ ms \in [1 .. Len(ms) -> Messages(n)]
  BY <1>1, LenProperties DEF ms
<1>5. /\ DOMAIN new = 1 .. Len(ms)
      /\ \A k \in 1 .. Len(ms) : new[k] = IF k = i THEN [ms[k] EXCEPT !.edits = @ + 1] ELSE ms[k]
  BY <1>4
<1>6. \A k \in 1 .. Len(ms) : new[k].role = ms[k].role /\ new[k].seq = ms[k].seq
  BY <1>4, <1>5 DEF Messages
<1>7. \A k \in 1 .. Len(ms) : new[k] \in Messages(n + 1)
  <2> TAKE k \in 1 .. Len(ms)
  <2>1. ms[k] \in Messages(n)
    BY <1>4
  <2>2. [ms[k] EXCEPT !.edits = @ + 1] \in Messages(n + 1) /\ ms[k] \in Messages(n + 1)
    BY <2>1 DEF Messages
  <2> QED
    BY <1>5, <2>2
<1>8. new \in Seq(Messages(n + 1))
  <2> HIDE DEF new
  <2>1. new = [k \in 1 .. Len(ms) |-> new[k]]
    <3>1. new = [k \in DOMAIN new |-> new[k]]
      BY <1>4 DEF new
    <3> QED
      BY <1>5, <3>1
  <2>2. new \in [1 .. Len(ms) -> Messages(n + 1)]
    BY <1>7, <2>1
  <2> QED
    BY <1>4, <2>2, SeqDef
<1> HIDE DEF new, w
<1>9. w \in ViewsTo(n + 1)
  BY <1>2, <1>8, ViewMade
<1>10. Ordered(new)
  <2>1. Ordered(ms)
    BY DEF ms
  <2> QED
    BY <1>4, <1>5, <1>6, <2>1 DEF Ordered
<1>11. Spoken(new) = Spoken(ms)
  BY <1>4, <1>5, <1>6 DEF Spoken
<1> QED
  BY <1>3, <1>9, <1>10, <1>11 DEF w, ms

\* A deletion takes one message away.
LEMMA DeletesOne ==
  ASSUME NEW n \in Nat, NEW v \in ViewsTo(n), Ordered(v.messages),
         NEW i \in 1 .. Len(v.messages)
  PROVE  LET w == Deleted(v, i) IN
         /\ w \in ViewsTo(n + 1) /\ w.ok = v.ok /\ w.tools = v.tools
         /\ Ordered(w.messages)
         /\ Spoken(w.messages) =
              {q \in Spoken(v.messages) :
                 ~(v.messages[i].seq = q /\ v.messages[i].role # "system")}
<1> DEFINE ms == v.messages
           W == DOMAIN ms \ {i}
           new == ItemsAt(ms, W)
           w == Deleted(v, i)
<1>1. ms \in Seq(Messages(n)) /\ v.tools \in SUBSET (1 .. n) /\ v.ok \in BOOLEAN
  BY DEF ViewsTo
<1>2. w = [v EXCEPT !.messages = new]
  BY DEF Deleted
<1>3. w.ok = v.ok /\ w.tools = v.tools /\ w.messages = new
  BY <1>2 DEF ViewsTo
<1>4. W \in SUBSET DOMAIN ms /\ Ordered(ms)
  OBVIOUS
<1>0. Len(ms) \in Nat /\ DOMAIN ms = 1 .. Len(ms) /\ i \in DOMAIN ms
      /\ \A k \in DOMAIN ms : ms[k] \in Messages(n)
  <2>1. Len(ms) \in Nat /\ DOMAIN ms = 1 .. Len(ms) /\ ms \in [1 .. Len(ms) -> Messages(n)]
    BY <1>1, LenProperties
  <2> QED
    BY <2>1
<1>5. /\ new \in Seq(Messages(n)) /\ Ordered(new)
      /\ Spoken(new) = {ms[k].seq : k \in {k \in W : ms[k].role # "system"}}
  <2> HIDE DEF W, ms
  <2> QED
    BY <1>1, <1>4, KeptOrdered
<1>6. new \in Seq(Messages(n + 1))
  BY <1>5, MessagesGrow
<1>7. w \in ViewsTo(n + 1)
  <2> HIDE DEF new, w
  <2> QED
    BY <1>2, <1>6, ViewMade
<1> HIDE DEF ms, new
<1>8. \A k, l \in DOMAIN ms :
        ms[k].role # "system" /\ ms[l].role # "system" /\ ms[k].seq = ms[l].seq => k = l
  <2> SUFFICES ASSUME NEW k \in DOMAIN ms, NEW l \in DOMAIN ms, k < l,
                      ms[k].role # "system", ms[l].role # "system", ms[k].seq = ms[l].seq
               PROVE  FALSE
    BY <1>0
  <2>1. ms[k].seq < ms[l].seq /\ ms[k].seq \in Int
    BY <1>0, <1>4 DEF Ordered, Messages
  <2> QED
    BY <2>1
<1>9. Spoken(new) = {q \in Spoken(ms) : ~(ms[i].seq = q /\ ms[i].role # "system")}
  <2>1. ASSUME NEW q \in Spoken(new)
        PROVE  q \in Spoken(ms) /\ ~(ms[i].seq = q /\ ms[i].role # "system")
    <3>1. PICK k \in DOMAIN ms : k # i /\ ms[k].role # "system" /\ ms[k].seq = q
      BY <1>5
    <3> QED
      BY <1>0, <1>8, <3>1 DEF Spoken
  <2>2. ASSUME NEW q \in Spoken(ms), ~(ms[i].seq = q /\ ms[i].role # "system")
        PROVE  q \in Spoken(new)
    <3>1. PICK k \in DOMAIN ms : ms[k].role # "system" /\ ms[k].seq = q
      BY DEF Spoken
    <3> QED
      BY <1>5, <2>2, <3>1
  <2> QED
    BY <2>1, <2>2
<1> QED
  BY <1>3, <1>5, <1>7, <1>9 DEF w, ms

Kinds == {"other", "prompt", "text", "tool", "reverted", "compaction", "edited", "deleted"}

\* What an event with number n can be.
EventAt(e, n) ==
  /\ e.kind \in Kinds /\ e.arg \in Nat
  /\ e.kind = "compaction" => e.arg \in 1 .. n - 1

\* What event e takes out of a history that is v.
TakesOut(v, e, q) ==
  \/ e.kind = "reverted" /\ e.arg < q
  \/ e.kind = "compaction" /\ q < e.arg
  \/ e.kind = "deleted" /\ v.messages[e.arg].seq = q /\ v.messages[e.arg].role # "system"

\* One step of the projection.
LEMMA ProjectStep ==
  ASSUME NEW n \in Nat, NEW v \in ViewsTo(n), v.ok => Ordered(v.messages),
         NEW e, EventAt(e, n + 1)
  PROVE  LET w == Project(v, e, n + 1) IN
         /\ w \in ViewsTo(n + 1)
         /\ w.ok =>
              /\ v.ok
              /\ Ordered(w.messages)
              /\ Spoken(w.messages) = {q \in Spoken(v.messages) : ~TakesOut(v, e, q)}
                                        \cup {q \in {n + 1} : e.kind \in {"prompt", "text"}}
              /\ w.tools = {q \in v.tools : e.kind = "reverted" => q <= e.arg}
                             \cup {q \in {n + 1} : e.kind = "tool"}
         /\ v.ok /\ ~w.ok => /\ e.kind \in {"edited", "deleted"}
                             /\ e.arg \notin 1 .. Len(v.messages)
<1> DEFINE w == Project(v, e, n + 1)
<1>1. /\ v.ok \in BOOLEAN /\ v.messages \in Seq(Messages(n)) /\ v.tools \in SUBSET (1 .. n)
      /\ v \in ViewsTo(n + 1)
  <2>1. <<>> \in Seq(Messages(n + 1)) /\ {} \in SUBSET (1 .. n + 1)
    BY EmptySeq
  <2>2. v \in ViewsTo(n + 1)
    BY <2>1, ViewMade
  <2> QED
    BY <2>2 DEF ViewsTo
<1>2. CASE ~v.ok
  BY <1>1, <1>2 DEF Project
<1>3. CASE v.ok /\ e.kind \in {"prompt", "text"}
  <2>1. PICK role \in {"user", "assistant"} : w = Adds(v, Message(role, n + 1))
    BY <1>3 DEF Project
  <2> HIDE DEF w
  <2>2. /\ w \in ViewsTo(n + 1) /\ w.ok = v.ok /\ w.tools = v.tools
        /\ Ordered(w.messages)
        /\ Spoken(w.messages) = Spoken(v.messages) \cup {n + 1}
    BY <1>3, <2>1, AddsLast
  <2>3. \A q : ~TakesOut(v, e, q)
    BY <1>3 DEF TakesOut
  <2> QED
    BY <1>3, <2>2, <2>3 DEF w
<1>4. CASE v.ok /\ e.kind = "tool"
  <2> DEFINE ts == v.tools \cup {n + 1}
  <2>1. w = [v EXCEPT !.tools = ts]
    BY <1>4 DEF Project
  <2>2. w.ok = v.ok /\ w.tools = ts /\ w.messages = v.messages
    BY <2>1 DEF ViewsTo
  <2>3. ts \in SUBSET (1 .. n + 1)
    BY <1>1
  <2>4. <<>> \in Seq(Messages(n + 1))
    BY EmptySeq
  <2>5. w \in ViewsTo(n + 1)
    <3> HIDE DEF ts, w
    <3> QED
      BY <2>1, <2>3, <2>4, ViewMade
  <2>6. \A q : ~TakesOut(v, e, q)
    BY <1>4 DEF TakesOut
  <2> HIDE DEF w
  <2> QED
    BY <1>4, <2>2, <2>5, <2>6 DEF w
<1>5. CASE v.ok /\ e.kind = "reverted"
  <2>1. w = Reverted(v, e.arg) /\ e.arg \in Nat
    BY <1>5 DEF Project, EventAt
  <2> HIDE DEF w
  <2>2. /\ w \in ViewsTo(n + 1) /\ w.ok = v.ok
        /\ w.tools = {t \in v.tools : t <= e.arg}
        /\ Ordered(w.messages)
        /\ Spoken(w.messages) = {q \in Spoken(v.messages) : q <= e.arg}
    <3> DEFINE target == e.arg
    <3>1. target \in Nat /\ w = Reverted(v, target) /\ Ordered(v.messages)
      BY <1>5, <2>1
    <3> HIDE DEF target
    <3>2. /\ w \in ViewsTo(n + 1) /\ w.ok = v.ok
          /\ w.tools = {t \in v.tools : t <= target}
          /\ Ordered(w.messages)
          /\ Spoken(w.messages) = {q \in Spoken(v.messages) : q <= target}
      BY <3>1, RevertsPast
    <3> QED
      BY <3>2 DEF target
  <2>3. \A q \in Spoken(v.messages) : TakesOut(v, e, q) <=> ~(q <= e.arg)
    BY <1>1, <1>5, <2>1, SpokenRange DEF TakesOut
  <2> QED
    BY <1>5, <2>2, <2>3 DEF w
<1>6. CASE v.ok /\ e.kind = "compaction"
  <2>1. w = Compacted(v, e.arg) /\ e.arg \in 1 .. n
    BY <1>6 DEF Project, EventAt
  <2> HIDE DEF w
  <2>2. /\ w \in ViewsTo(n + 1) /\ w.ok = v.ok /\ w.tools = v.tools
        /\ Ordered(w.messages)
        /\ Spoken(w.messages) = {q \in Spoken(v.messages) : q >= e.arg}
    BY <1>6, <2>1, CompactsBefore
  <2>3. \A q \in Spoken(v.messages) : TakesOut(v, e, q) <=> ~(q >= e.arg)
    BY <1>1, <1>6, <2>1, SpokenRange DEF TakesOut
  <2> QED
    BY <1>6, <2>2, <2>3 DEF w
<1>7. CASE v.ok /\ e.kind \in {"edited", "deleted"} /\ e.arg \notin 1 .. Len(v.messages)
  <2>1. w = [v EXCEPT !.ok = FALSE]
    BY <1>7 DEF Project, Edited, Deleted
  <2>2. <<>> \in Seq(Messages(n + 1)) /\ {} \in SUBSET (1 .. n + 1)
    BY EmptySeq
  <2>3. [v EXCEPT !.ok = FALSE] \in ViewsTo(n + 1)
    BY <2>2, ViewMade
  <2>4. w.ok = FALSE
    BY <2>1 DEF ViewsTo
  <2> HIDE DEF w
  <2> QED
    BY <1>7, <2>1, <2>3, <2>4 DEF w
<1>8. CASE v.ok /\ e.kind = "edited" /\ e.arg \in 1 .. Len(v.messages)
  <2>1. w = Edited(v, e.arg)
    BY <1>8 DEF Project
  <2> HIDE DEF w
  <2>2. /\ w \in ViewsTo(n + 1) /\ w.ok = v.ok /\ w.tools = v.tools
        /\ Ordered(w.messages)
        /\ Spoken(w.messages) = Spoken(v.messages)
    BY <1>8, <2>1, EditsInPlace
  <2>3. \A q : ~TakesOut(v, e, q)
    BY <1>8 DEF TakesOut
  <2> QED
    BY <1>8, <2>2, <2>3 DEF w
<1>9. CASE v.ok /\ e.kind = "deleted" /\ e.arg \in 1 .. Len(v.messages)
  <2>1. w = Deleted(v, e.arg)
    BY <1>9 DEF Project
  <2> HIDE DEF w
  <2>2. /\ w \in ViewsTo(n + 1) /\ w.ok = v.ok /\ w.tools = v.tools
        /\ Ordered(w.messages)
        /\ Spoken(w.messages) =
             {q \in Spoken(v.messages) :
                ~(v.messages[e.arg].seq = q /\ v.messages[e.arg].role # "system")}
    BY <1>9, <2>1, DeletesOne
  <2>3. \A q : TakesOut(v, e, q)
               <=> v.messages[e.arg].seq = q /\ v.messages[e.arg].role # "system"
    BY <1>9 DEF TakesOut
  <2> QED
    BY <1>9, <2>2, <2>3 DEF w
<1>10. CASE v.ok /\ e.kind = "other"
  <2>1. w = v
    BY <1>10 DEF Project
  <2>2. \A q : ~TakesOut(v, e, q)
    BY <1>10 DEF TakesOut
  <2> HIDE DEF w
  <2> QED
    BY <1>1, <1>10, <2>1, <2>2 DEF w
<1>11. e.kind \in Kinds
  BY DEF EventAt
<1> HIDE DEF w
<1> QED
  BY <1>2, <1>3, <1>4, <1>5, <1>6, <1>7, <1>8, <1>9, <1>10, <1>11 DEF Kinds, w
-----------------------------------------------------------------------------
(***************************************************************************)
(* A log and the projections of its prefixes.                              *)
(***************************************************************************)
Events == [kind : Kinds, arg : Nat, by : Handles \cup {NoHandle}, basis : Nat]

\* The projection of the first n events has what was said in them and not
\* taken out since.
Right(lg, vw, n) ==
  /\ vw[n + 1] \in ViewsTo(n)
  /\ vw[n + 1].ok =>
       /\ Ordered(vw[n + 1].messages)
       /\ Spoken(vw[n + 1].messages) =
            {q \in 1 .. n : lg[q].kind \in {"prompt", "text"} /\
               \A k \in (q + 1) .. n : ~TakesOut(vw[k], lg[k], q)}
       /\ vw[n + 1].tools =
            {q \in 1 .. n : lg[q].kind = "tool" /\
               \A k \in (q + 1) .. n : lg[k].kind = "reverted" => q <= lg[k].arg}

\* Event n broke the session because its handle was out of date.
BrokenBy(lg, vw, n) ==
  vw[n].ok /\ ~vw[n + 1].ok => lg[n].by # NoHandle /\ lg[n].basis < n - 1

LogInv(lg, vw) ==
  /\ lg \in Seq(Events) /\ Len(lg) \in 3 .. MaxEvents
  /\ vw \in Seq(Views) /\ Len(vw) = Len(lg) + 1
  /\ \A n \in 0 .. Len(lg) : Right(lg, vw, n)
  /\ \A n \in 1 .. Len(lg) : BrokenBy(lg, vw, n)

LEMMA RightStep ==
  ASSUME NEW n \in Nat, NEW lg, NEW vw, Right(lg, vw, n), EventAt(lg[n + 1], n + 1),
         vw[n + 2] = Project(vw[n + 1], lg[n + 1], n + 1)
  PROVE  Right(lg, vw, n + 1)
<1> DEFINE v == vw[n + 1]
           e == lg[n + 1]
           w == vw[n + 2]
           N == n + 1
<1>1. v \in ViewsTo(n) /\ (v.ok => Ordered(v.messages)) /\ EventAt(e, n + 1)
  BY DEF Right
<1>2. w = Project(v, e, n + 1)
  OBVIOUS
<1>3. N \in Nat /\ N = n + 1 /\ N + 1 = n + 2
  OBVIOUS
<1>4. /\ w \in ViewsTo(n + 1)
      /\ w.ok =>
           /\ v.ok
           /\ Ordered(w.messages)
           /\ Spoken(w.messages) = {q \in Spoken(v.messages) : ~TakesOut(v, e, q)}
                                     \cup {q \in {n + 1} : e.kind \in {"prompt", "text"}}
           /\ w.tools = {q \in v.tools : e.kind = "reverted" => q <= e.arg}
                          \cup {q \in {n + 1} : e.kind = "tool"}
  <2> HIDE DEF v, e, w
  <2> QED
    BY <1>1, <1>2, ProjectStep
<1>5. vw[N + 1] = w
  BY <1>3
<1>6. ASSUME w.ok
      PROVE  /\ Spoken(w.messages) =
                  {q \in 1 .. N : lg[q].kind \in {"prompt", "text"} /\
                     \A k \in (q + 1) .. N : ~TakesOut(vw[k], lg[k], q)}
             /\ w.tools =
                  {q \in 1 .. N : lg[q].kind = "tool" /\
                     \A k \in (q + 1) .. N : lg[k].kind = "reverted" => q <= lg[k].arg}
  <2>1. /\ Spoken(v.messages) =
             {q \in 1 .. n : lg[q].kind \in {"prompt", "text"} /\
                \A k \in (q + 1) .. n : ~TakesOut(vw[k], lg[k], q)}
        /\ v.tools =
             {q \in 1 .. n : lg[q].kind = "tool" /\
                \A k \in (q + 1) .. n : lg[k].kind = "reverted" => q <= lg[k].arg}
    BY <1>4, <1>6 DEF Right
  <2>2. \A q \in 1 .. n : (q + 1) .. N = ((q + 1) .. n) \cup {n + 1}
    OBVIOUS
  <2>3. 1 .. N = (1 .. n) \cup {n + 1} /\ (N + 1) .. N = {} /\ n + 1 \notin 1 .. n
    OBVIOUS
  <2>4. vw[n + 1] = v /\ lg[n + 1] = e
    OBVIOUS
  <2> HIDE DEF v, e, w, N
  <2>5. Spoken(w.messages) =
          {q \in 1 .. N : lg[q].kind \in {"prompt", "text"} /\
             \A k \in (q + 1) .. N : ~TakesOut(vw[k], lg[k], q)}
    <3> DEFINE R == {q \in 1 .. N : lg[q].kind \in {"prompt", "text"} /\
                       \A k \in (q + 1) .. N : ~TakesOut(vw[k], lg[k], q)}
    <3>1. \A q \in 1 .. n : q \in R <=> (q \in Spoken(v.messages) /\ ~TakesOut(v, e, q))
      BY <2>1, <2>2, <2>3, <2>4
    <3>2. N \in R <=> e.kind \in {"prompt", "text"}
      BY <1>3, <2>3, <2>4
    <3>3. R \subseteq (1 .. n) \cup {N} /\ Spoken(v.messages) \subseteq 1 .. n
      BY <1>3, <2>1, <2>3
    <3> HIDE DEF R
    <3>4. R = {q \in Spoken(v.messages) : ~TakesOut(v, e, q)}
                \cup {q \in {N} : e.kind \in {"prompt", "text"}}
      BY <3>1, <3>2, <3>3
    <3>5. R = Spoken(w.messages)
      BY <1>3, <1>4, <1>6, <3>4
    <3> QED
      BY <3>5 DEF R
  <2>6. w.tools =
          {q \in 1 .. N : lg[q].kind = "tool" /\
             \A k \in (q + 1) .. N : lg[k].kind = "reverted" => q <= lg[k].arg}
    <3> DEFINE R == {q \in 1 .. N : lg[q].kind = "tool" /\
                       \A k \in (q + 1) .. N : lg[k].kind = "reverted" => q <= lg[k].arg}
    <3>1. \A q \in 1 .. n : q \in R <=> (q \in v.tools /\ (e.kind = "reverted" => q <= e.arg))
      BY <2>1, <2>2, <2>3, <2>4
    <3>2. N \in R <=> e.kind = "tool"
      BY <1>3, <2>3, <2>4
    <3>3. R \subseteq (1 .. n) \cup {N} /\ v.tools \subseteq 1 .. n
      BY <1>3, <2>1, <2>3
    <3> HIDE DEF R
    <3>4. R = {q \in v.tools : e.kind = "reverted" => q <= e.arg}
                \cup {q \in {N} : e.kind = "tool"}
      BY <3>1, <3>2, <3>3
    <3>5. R = w.tools
      BY <1>3, <1>4, <1>6, <3>4
    <3> QED
      BY <3>5 DEF R
  <2> QED
    BY <2>5, <2>6
<1>7. w \in ViewsTo(N) /\ (w.ok => Ordered(w.messages))
  BY <1>4
<1> HIDE DEF w, N
<1>8. Right(lg, vw, N)
  BY <1>5, <1>6, <1>7 DEF Right
<1> QED
  BY <1>8 DEF N

\* Being right about a prefix is a matter of that prefix.
LEMMA RightPrefix ==
  ASSUME NEW n \in Nat, NEW lg, NEW vw, NEW lg2, NEW vw2, Right(lg, vw, n),
         \A i \in 1 .. n : lg2[i] = lg[i], \A i \in 1 .. n + 1 : vw2[i] = vw[i]
  PROVE  Right(lg2, vw2, n)
<1>1. vw2[n + 1] = vw[n + 1]
  OBVIOUS
<1>2. \A q \in 1 .. n : \A k \in (q + 1) .. n : k \in 1 .. n /\ lg2[k] = lg[k] /\ vw2[k] = vw[k]
  OBVIOUS
<1>3. {q \in 1 .. n : lg2[q].kind \in {"prompt", "text"} /\
         \A k \in (q + 1) .. n : ~TakesOut(vw2[k], lg2[k], q)}
      = {q \in 1 .. n : lg[q].kind \in {"prompt", "text"} /\
           \A k \in (q + 1) .. n : ~TakesOut(vw[k], lg[k], q)}
  BY <1>2
<1>4. {q \in 1 .. n : lg2[q].kind = "tool" /\
         \A k \in (q + 1) .. n : lg2[k].kind = "reverted" => q <= lg2[k].arg}
      = {q \in 1 .. n : lg[q].kind = "tool" /\
           \A k \in (q + 1) .. n : lg[k].kind = "reverted" => q <= lg[k].arg}
  BY <1>2
<1> QED
  BY <1>1, <1>3, <1>4 DEF Right

LEMMA ViewsCover ==
  ASSUME NEW n \in 0 .. MaxEvents
  PROVE  ViewsTo(n) \subseteq Views
<1> DEFINE M == [role : {"user", "assistant", "system"}, seq : 1 .. MaxEvents,
                 edits : 0 .. MaxEvents]
<1>1. MaxEvents \in Nat
  BY HistoryAssumption
<1>2. Messages(n) \subseteq M
  BY <1>1 DEF Messages
<1> HIDE DEF M
<1>3. Seq(Messages(n)) \subseteq Seq(M)
  BY <1>2, SeqMonotonic
<1>4. SUBSET (1 .. n) \subseteq SUBSET (1 .. MaxEvents)
  BY <1>1
<1> QED
  BY <1>3, <1>4 DEF ViewsTo, Views, M

\* What a step can do to a log and its projections.
Grows(lg, vw, lg2, vw2, e) ==
  /\ Len(lg) < MaxEvents
  /\ e \in Events /\ EventAt(e, Len(lg) + 1)
  /\ lg2 = Append(lg, e)
  /\ vw2 = Append(vw, Project(vw[Len(lg) + 1], e, Len(lg) + 1))
  /\ e.kind \in {"edited", "deleted"} =>
       /\ e.by # NoHandle /\ e.basis \in 0 .. Len(lg)
       /\ e.arg \in 1 .. Len(vw[e.basis + 1].messages)

\* One more event: the log and the projections stay as they were, and what
\* holds of them holds of the longer ones, unless the event broke the session.
LEMMA LogGrows ==
  ASSUME NEW lg, NEW vw, NEW lg2, NEW vw2, NEW e, LogInv(lg, vw), Grows(lg, vw, lg2, vw2, e)
  PROVE  /\ LogInv(lg2, vw2)
         /\ Len(lg2) = Len(lg) + 1
         /\ \A i \in 1 .. Len(lg) : lg2[i] = lg[i]
         /\ lg2[Len(lg) + 1] = e
<1> DEFINE len == Len(lg)
           w == Project(vw[len + 1], e, len + 1)
<1>1. /\ lg \in Seq(Events) /\ len \in 3 .. MaxEvents /\ len < MaxEvents
      /\ vw \in Seq(Views) /\ Len(vw) = len + 1 /\ MaxEvents \in Nat
      /\ e \in Events /\ EventAt(e, len + 1) /\ lg2 = Append(lg, e)
  BY HistoryAssumption DEF LogInv, Grows
<1>2. Right(lg, vw, len)
  BY <1>1 DEF LogInv
<1>3. vw2 = Append(vw, w)
  BY DEF Grows
<1>4. /\ w \in ViewsTo(len + 1)
      /\ vw[len + 1].ok /\ ~w.ok => /\ e.kind \in {"edited", "deleted"}
                                    /\ e.arg \notin 1 .. Len(vw[len + 1].messages)
  <2> DEFINE v == vw[len + 1]
  <2>1. v \in ViewsTo(len) /\ (v.ok => Ordered(v.messages)) /\ len \in Nat
    BY <1>1, <1>2 DEF Right
  <2>2. w = Project(v, e, len + 1) /\ EventAt(e, len + 1)
    BY <1>1
  <2> HIDE DEF v, w, len
  <2>3. /\ w \in ViewsTo(len + 1)
        /\ v.ok /\ ~w.ok => e.kind \in {"edited", "deleted"} /\ e.arg \notin 1 .. Len(v.messages)
    BY <2>1, <2>2, ProjectStep
  <2> QED
    BY <2>3 DEF v
<1>5. w \in Views
  BY <1>1, <1>4, ViewsCover
<1> HIDE DEF w
<1>6. /\ lg2 \in Seq(Events) /\ Len(lg2) = len + 1
      /\ \A i \in 1 .. len : lg2[i] = lg[i]
      /\ lg2[len + 1] = e
  BY <1>1, AppendProperties
<1>7. /\ vw2 \in Seq(Views) /\ Len(vw2) = len + 2
      /\ \A i \in 1 .. len + 1 : vw2[i] = vw[i]
      /\ vw2[len + 2] = w
  BY <1>1, <1>3, <1>5, AppendProperties
<1>8. ASSUME NEW n \in 0 .. len
      PROVE  Right(lg2, vw2, n)
  <2>1. Right(lg, vw, n)
    BY DEF LogInv
  <2>2. /\ \A i \in 1 .. n : lg2[i] = lg[i]
        /\ \A i \in 1 .. n + 1 : vw2[i] = vw[i]
    BY <1>1, <1>6, <1>7
  <2>3. n \in Nat
    BY <1>1
  <2> QED
    BY <2>1, <2>2, <2>3, RightPrefix
<1>9. Right(lg2, vw2, len + 1)
  <2>1. Right(lg2, vw2, len) /\ EventAt(lg2[len + 1], len + 1)
    BY <1>1, <1>6, <1>8
  <2>2. vw2[len + 2] = Project(vw2[len + 1], lg2[len + 1], len + 1)
    BY <1>1, <1>6, <1>7 DEF w
  <2>3. len \in Nat
    BY <1>1
  <2> HIDE DEF len
  <2> QED
    BY <2>1, <2>2, <2>3, RightStep
<1>10. ASSUME NEW n \in 1 .. len
       PROVE  BrokenBy(lg2, vw2, n)
  <2>1. BrokenBy(lg, vw, n)
    BY DEF LogInv
  <2>2. lg2[n] = lg[n] /\ vw2[n] = vw[n] /\ vw2[n + 1] = vw[n + 1]
    BY <1>1, <1>6, <1>7
  <2> QED
    BY <2>1, <2>2 DEF BrokenBy
<1>11. BrokenBy(lg2, vw2, len + 1)
  <2> SUFFICES ASSUME vw[len + 1].ok, ~w.ok
               PROVE  e.by # NoHandle /\ e.basis < len
    BY <1>1, <1>6, <1>7 DEF BrokenBy
  <2>1. e.kind \in {"edited", "deleted"} /\ e.arg \notin 1 .. Len(vw[len + 1].messages)
    BY <1>4
  <2>2. e.by # NoHandle /\ e.basis \in 0 .. len /\ e.arg \in 1 .. Len(vw[e.basis + 1].messages)
    BY <2>1 DEF Grows
  <2>3. e.basis # len
    BY <2>1, <2>2
  <2> QED
    BY <1>1, <2>2, <2>3
<1>12. /\ 0 .. Len(lg2) = (0 .. len) \cup {len + 1}
       /\ 1 .. Len(lg2) = (1 .. len) \cup {len + 1}
       /\ Len(lg2) \in 3 .. MaxEvents /\ Len(vw2) = Len(lg2) + 1
  BY <1>1, <1>6, <1>7
<1> HIDE DEF len
<1>13. /\ \A n \in 0 .. Len(lg2) : Right(lg2, vw2, n)
       /\ \A n \in 1 .. Len(lg2) : BrokenBy(lg2, vw2, n)
  BY <1>8, <1>9, <1>10, <1>11, <1>12
<1>14. LogInv(lg2, vw2)
  BY <1>6, <1>7, <1>12, <1>13 DEF LogInv
<1> QED
  BY <1>6, <1>14 DEF len
-----------------------------------------------------------------------------
(***************************************************************************)
(* The inductive invariant: what LogInv says of the log, and where the     *)
(* handles and the compactions are in it.                                  *)
(***************************************************************************)
HandlesInv ==
  /\ handle \in [Handles -> {"idle", "ready", "wrote"}]
  /\ seen \in [Handles -> Nat]
  /\ \A h \in Handles : seen[h] <= Len(log)
  /\ SeesItsOwnWrites

InLog(base) == \E n \in 1 .. Len(log) : log[n].kind = "compaction" /\ log[n].arg = base

CompactionsInv ==
  /\ compacting \in [Compactions -> {"new", "read", "wrote", "numbered", "done", "failed"}]
  /\ baseline \in [Compactions -> 0 .. ReadLimit]
  /\ nextEpoch \in [Compactions -> Nat]
  /\ epochs \in Seq(1 .. MaxEvents)
  /\ \A c \in Compactions :
       /\ baseline[c] <= Len(log)
       /\ compacting[c] # "new" => baseline[c] >= 1
       /\ compacting[c] \notin {"new", "read"} => InLog(baseline[c])
       /\ compacting[c] = "done" => /\ nextEpoch[c] \in 1 .. Len(epochs)
                                    /\ epochs[nextEpoch[c]] = baseline[c]

IInv == LogInv(log, views) /\ HandlesInv /\ CompactionsInv

Appends(e) == Grows(log, views, log', views', e)

LEMMA InitInv == Init => IInv
<1> SUFFICES ASSUME Init PROVE IInv
  OBVIOUS
<1> DEFINE e1 == Event("other", 0, NoHandle, 0)
           e2 == Event("prompt", 0, NoHandle, 1)
           e3 == Event("text", 0, NoHandle, 2)
           v1 == Project(EmptyView, e1, 1)
           v2 == Project(v1, e2, 2)
           v3 == Project(v2, e3, 3)
<1>1. /\ log = <<e1, e2, e3>> /\ views = <<EmptyView, v1, v2, v3>>
      /\ Len(log) = 3 /\ log[1] = e1 /\ log[2] = e2 /\ log[3] = e3
      /\ views[1] = EmptyView /\ views[2] = v1 /\ views[3] = v2 /\ views[4] = v3
      /\ Len(views) = 4
  BY DEF Init, UsedLog, UsedViews
<1>2. /\ e1 \in Events /\ e2 \in Events /\ e3 \in Events
      /\ EventAt(e1, 1) /\ EventAt(e2, 2) /\ EventAt(e3, 3)
      /\ e1.kind \notin {"edited", "deleted"} /\ e2.kind \notin {"edited", "deleted"}
      /\ e3.kind \notin {"edited", "deleted"}
      /\ e1.by = NoHandle /\ e2.by = NoHandle /\ e3.by = NoHandle
  BY DEF Event, Events, EventAt, Kinds
<1> HIDE DEF e1, e2, e3
<1>3. EmptyView \in ViewsTo(0) /\ EmptyView.ok /\ EmptyView.messages = <<>> /\ EmptyView.tools = {}
  <2>1. <<>> \in Seq(Messages(0)) /\ {} \in SUBSET (1 .. 0)
    BY EmptySeq
  <2> QED
    BY <2>1 DEF EmptyView, ViewsTo
<1>4. Right(log, views, 0)
  <2>1. Ordered(<<>>) /\ Spoken(<<>>) = {}
    BY DEF Ordered, Spoken
  <2>2. 1 .. 0 = {} /\ views[0 + 1] = EmptyView
    BY <1>1
  <2> HIDE DEF v1, v2, v3
  <2>3. Right(log, views, 0) <=>
          /\ EmptyView \in ViewsTo(0)
          /\ EmptyView.ok =>
               /\ Ordered(EmptyView.messages)
               /\ Spoken(EmptyView.messages) = {}
               /\ EmptyView.tools = {}
    BY <2>2 DEF Right
  <2> QED
    BY <1>3, <2>1, <2>3
<1>5. Right(log, views, 1)
  <2>1. /\ EventAt(log[0 + 1], 0 + 1)
        /\ views[0 + 2] = Project(views[0 + 1], log[0 + 1], 0 + 1)
    BY <1>1, <1>2
  <2>2. Right(log, views, 0 + 1)
    BY <1>4, <2>1, RightStep
  <2> QED
    BY <2>2
<1>6. Right(log, views, 2)
  <2>1. /\ EventAt(log[1 + 1], 1 + 1)
        /\ views[1 + 2] = Project(views[1 + 1], log[1 + 1], 1 + 1)
    BY <1>1, <1>2
  <2>2. Right(log, views, 1 + 1)
    BY <1>5, <2>1, RightStep
  <2> QED
    BY <2>2
<1>7. Right(log, views, 3)
  <2>1. /\ EventAt(log[2 + 1], 2 + 1)
        /\ views[2 + 2] = Project(views[2 + 1], log[2 + 1], 2 + 1)
    BY <1>1, <1>2
  <2>2. Right(log, views, 2 + 1)
    BY <1>6, <2>1, RightStep
  <2> QED
    BY <2>2
<1>8. MaxEvents \in Nat /\ MaxEvents >= 3 /\ ReadLimit \in Nat
  BY HistoryAssumption
<1>9. views \in Seq(Views)
  <2>1. /\ views[1] \in ViewsTo(0) /\ views[2] \in ViewsTo(1)
        /\ views[3] \in ViewsTo(2) /\ views[4] \in ViewsTo(3)
    BY <1>4, <1>5, <1>6, <1>7 DEF Right
  <2>2. /\ views[1] \in Views /\ views[2] \in Views /\ views[3] \in Views /\ views[4] \in Views
    <3>1. 0 \in 0 .. MaxEvents /\ 1 \in 0 .. MaxEvents /\ 2 \in 0 .. MaxEvents
          /\ 3 \in 0 .. MaxEvents
      BY <1>8
    <3> QED
      BY <2>1, <3>1, ViewsCover
  <2> HIDE DEF v1, v2, v3
  <2> QED
    BY <1>1, <2>2
<1>10. log \in Seq(Events)
  BY <1>1, <1>2
<1>11. \A n \in 1 .. 3 : BrokenBy(log, views, n)
  <2>1. v1 = EmptyView /\ v1.ok
    BY <1>3 DEF Project, e1, Event
  <2> HIDE DEF v1
  <2>2. v2 = [ok |-> TRUE, messages |-> Append(<<>>, Message("user", 2)), tools |-> {}] /\ v2.ok
    BY <2>1 DEF Project, e2, Event, Adds, EmptyView
  <2> HIDE DEF v2
  <2>3. /\ v3 = [ok |-> TRUE, messages |-> Append(v2.messages, Message("assistant", 3)), tools |-> {}]
        /\ v3.ok
    BY <2>2 DEF Project, e3, Event, Adds
  <2> HIDE DEF v1, v2, v3
  <2> QED
    BY <1>1, <2>1, <2>2, <2>3 DEF BrokenBy
<1> HIDE DEF v1, v2, v3
<1>12. LogInv(log, views)
  <2>1. 0 .. 3 = {0, 1, 2, 3}
    OBVIOUS
  <2> QED
    BY <1>1, <1>4, <1>5, <1>6, <1>7, <1>8, <1>9, <1>10, <1>11, <2>1 DEF LogInv
<1>13. HandlesInv
  BY <1>1 DEF Init, HandlesInv, SeesItsOwnWrites
<1>14. CompactionsInv
  <2>1. epochs \in Seq(1 .. MaxEvents)
    BY EmptySeq DEF Init
  <2> QED
    BY <1>1, <1>8, <2>1 DEF Init, CompactionsInv
<1> QED
  BY <1>12, <1>13, <1>14 DEF IInv

\* What the log, the handles and the compactions are in keeps its shape when
\* an event is appended.
LEMMA AppendKeeps ==
  ASSUME IInv, NEW e, Appends(e)
  PROVE  /\ LogInv(log, views)'
         /\ Len(log)' = Len(log) + 1 /\ Len(log) \in Nat
         /\ \A i \in 1 .. Len(log) : log'[i] = log[i]
         /\ log'[Len(log) + 1] = e
<1> DEFINE lg2 == log'
           vw2 == views'
<1>1. LogInv(log, views) /\ Grows(log, views, lg2, vw2, e)
  BY DEF IInv, Appends
<1> HIDE DEF lg2, vw2
<1>2. /\ LogInv(lg2, vw2) /\ Len(lg2) = Len(log) + 1
      /\ \A i \in 1 .. Len(log) : lg2[i] = log[i]
      /\ lg2[Len(log) + 1] = e
  BY <1>1, LogGrows
<1>3. Len(log) \in Nat
  BY <1>1, LenProperties DEF LogInv
<1> QED
  BY <1>2, <1>3 DEF lg2, vw2, LogInv, Right, BrokenBy
-----------------------------------------------------------------------------
(***************************************************************************)
(* The steps.                                                              *)
(***************************************************************************)
\* The first ReadLimit events are in the log, and there is at least one.
LEMMA ReadsPrefix ==
  ASSUME IInv
  PROVE  /\ Len(log) \in Nat /\ Len(log) >= 3 /\ ReadLimit \in Nat \ {0}
         /\ ReadEvents \in 1 .. Len(log) /\ ReadEvents <= ReadLimit
         /\ \A n \in 1 .. Len(log) : n <= ReadLimit => n <= ReadEvents
<1>1. Len(log) \in 3 .. MaxEvents /\ MaxEvents \in Nat /\ ReadLimit \in Nat \ {0}
  BY HistoryAssumption DEF IInv, LogInv
<1> QED
  BY <1>1 DEF ReadEvents

\* A mutation appends one event of its handle, which was ready.
LEMMA MutateShape ==
  ASSUME IInv, NEW h \in Handles, NEW kind \in Kinds \ {"compaction"}, NEW arg \in Nat,
         Mutate(h, kind, arg),
         kind \in {"edited", "deleted"} => arg \in DOMAIN StateOf(h).messages
  PROVE  /\ Appends(Event(kind, arg, h, seen[h])) /\ handle[h] = "ready"
         /\ handle' = [handle EXCEPT ![h] = "wrote"]
         /\ UNCHANGED <<seen, compacting, baseline, nextEpoch, epochs>>
<1> DEFINE e == Event(kind, arg, h, seen[h])
<1>1. seen[h] \in 0 .. Len(log) /\ Len(log) \in Nat /\ h # NoHandle
  BY ReadsPrefix, HistoryAssumption DEF IInv, HandlesInv
<1>2. /\ Len(log) < MaxEvents
      /\ log' = Append(log, e)
      /\ views' = Append(views, Project(views[Len(log) + 1], e, Len(log) + 1))
  BY DEF Mutate, AppendEvent
<1>3. e.kind = kind /\ e.arg = arg /\ e.by = h /\ e.basis = seen[h] /\ e \in Events
  BY <1>1 DEF Event, Events
<1>4. kind \in {"edited", "deleted"} => arg \in 1 .. Len(views[seen[h] + 1].messages)
  <2>1. /\ views \in Seq(Views) /\ Len(views) = Len(log) + 1
    BY DEF IInv, LogInv
  <2>2. seen[h] + 1 \in 1 .. Len(views)
    BY <1>1, <2>1
  <2>3. views[seen[h] + 1] \in Views
    BY <2>1, <2>2, ElementOfSeq
  <2>4. DOMAIN views[seen[h] + 1].messages = 1 .. Len(views[seen[h] + 1].messages)
    BY <2>3, LenProperties DEF Views
  <2> QED
    BY <2>4 DEF StateOf
<1> HIDE DEF e
<1>5. Appends(e)
  BY <1>1, <1>2, <1>3, <1>4 DEF Appends, Grows, EventAt
<1> QED
  BY <1>5 DEF e, Mutate

\* What one handle does: it reads, it gives up, or it appends one event.
HandleMoves(h) ==
  \/ /\ seen' = [seen EXCEPT ![h] = ReadEvents]
     /\ handle' = [handle EXCEPT ![h] = "ready"]
     /\ UNCHANGED <<log, views, compacting, baseline, nextEpoch, epochs>>
  \/ /\ handle' = [handle EXCEPT ![h] = "idle"]
     /\ UNCHANGED <<log, views, seen, compacting, baseline, nextEpoch, epochs>>
  \/ \E e : /\ Appends(e) /\ e.by = h
            /\ handle' = [handle EXCEPT ![h] = "wrote"]
            /\ UNCHANGED <<seen, compacting, baseline, nextEpoch, epochs>>

LEMMA HandleShape ==
  ASSUME IInv, NEW h \in Handles, HandleStep(h)
  PROVE  HandleMoves(h)
<1>1. CASE Load(h)
  BY <1>1 DEF Load, HandleMoves
<1>2. ASSUME NEW kind \in Kinds \ {"compaction"}, NEW arg \in Nat, Mutate(h, kind, arg),
             kind \in {"edited", "deleted"} => arg \in DOMAIN StateOf(h).messages
      PROVE  HandleMoves(h)
  <2> DEFINE e == Event(kind, arg, h, seen[h])
  <2>1. /\ Appends(e) /\ handle' = [handle EXCEPT ![h] = "wrote"]
        /\ UNCHANGED <<seen, compacting, baseline, nextEpoch, epochs>>
    BY <1>2, MutateShape
  <2>2. e.by = h
    BY DEF Event
  <2> HIDE DEF e
  <2> QED
    BY <2>1, <2>2 DEF HandleMoves
<1>3. CASE Prompt(h) \/ AddText(h) \/ AddToolCall(h) \/ WriteOther(h) \/ Retry(h)
  <2>1. PICK kind \in {"prompt", "text", "tool", "other"} : Mutate(h, kind, 0)
    BY <1>3 DEF Prompt, AddText, AddToolCall, WriteOther, Retry
  <2>2. kind \in Kinds \ {"compaction"} /\ kind \notin {"edited", "deleted"} /\ 0 \in Nat
    BY DEF Kinds
  <2> QED
    BY <1>2, <2>1, <2>2
<1>4. CASE Revert(h)
  <2>1. PICK target \in 1 .. (seen[h] - 1) : Mutate(h, "reverted", target)
    BY <1>4 DEF Revert
  <2>2. target \in Nat
    BY DEF IInv, HandlesInv
  <2>3. "reverted" \in Kinds \ {"compaction"} /\ "reverted" \notin {"edited", "deleted"}
    BY DEF Kinds
  <2> QED
    BY <1>2, <2>1, <2>2, <2>3
<1>5. CASE EditMessage(h) \/ DeleteMessage(h)
  <2>1. PICK kind \in {"edited", "deleted"}, i \in DOMAIN StateOf(h).messages :
          Mutate(h, kind, i)
    BY <1>5 DEF EditMessage, DeleteMessage
  <2>2. i \in Nat
    <3>1. /\ views \in Seq(Views) /\ Len(views) = Len(log) + 1 /\ seen[h] \in 0 .. Len(log)
          /\ Len(log) \in Nat
      BY ReadsPrefix DEF IInv, LogInv, HandlesInv
    <3>2. StateOf(h) \in Views
      BY <3>1, ElementOfSeq DEF StateOf
    <3>3. DOMAIN StateOf(h).messages = 1 .. Len(StateOf(h).messages)
          /\ Len(StateOf(h).messages) \in Nat
      BY <3>2, LenProperties DEF Views
    <3> QED
      BY <3>3
  <2>3. kind \in Kinds \ {"compaction"}
    BY DEF Kinds
  <2> QED
    BY <1>2, <2>1, <2>2, <2>3
<1> QED
  BY <1>1, <1>3, <1>4, <1>5 DEF HandleStep

\* A compaction leaves the handles alone; what it appends is its event.
LEMMA CompactionShape ==
  ASSUME IInv, NEW c \in Compactions, CompactionStep(c)
  PROVE  /\ UNCHANGED <<handle, seen>>
         /\ AppendCompaction(c) =>
              Appends(Event("compaction", baseline[c], NoHandle, baseline[c]))
<1>1. ASSUME AppendCompaction(c)
      PROVE  /\ UNCHANGED <<handle, seen>>
             /\ Appends(Event("compaction", baseline[c], NoHandle, baseline[c]))
  <2> DEFINE e == Event("compaction", baseline[c], NoHandle, baseline[c])
  <2>0. Len(log) \in Nat
    BY ReadsPrefix
  <2>1. baseline[c] \in Nat /\ baseline[c] \in 1 .. Len(log)
    BY <1>1, <2>0, HistoryAssumption DEF AppendCompaction, IInv, CompactionsInv
  <2>2. /\ Len(log) < MaxEvents
        /\ log' = Append(log, e)
        /\ views' = Append(views, Project(views[Len(log) + 1], e, Len(log) + 1))
    BY <1>1 DEF AppendCompaction, AppendEvent
  <2>3. e.kind = "compaction" /\ e.arg = baseline[c] /\ e \in Events
    BY <2>1 DEF Event, Events, Kinds
  <2> HIDE DEF e
  <2>4. EventAt(e, Len(log) + 1)
    BY <2>0, <2>1, <2>3 DEF EventAt, Kinds
  <2>5. Appends(e)
    BY <2>2, <2>3, <2>4 DEF Appends, Grows
  <2> QED
    BY <1>1, <2>5 DEF e, AppendCompaction
<1>2. ASSUME ReadForCompaction(c) \/ NumberEpoch(c) \/ InsertEpoch(c)
      PROVE  UNCHANGED <<handle, seen>>
  BY <1>2 DEF ReadForCompaction, NumberEpoch, InsertEpoch
<1> QED
  BY <1>1, <1>2 DEF CompactionStep

LEMMA HandleKeeps ==
  ASSUME IInv, NEW h \in Handles, HandleStep(h)
  PROVE  IInv'
<1>1. HandleMoves(h)
  BY HandleShape
<1>2. /\ Len(log) \in Nat /\ ReadLimit \in Nat
      /\ ReadEvents \in 1 .. Len(log)
      /\ \A n \in 1 .. Len(log) : n <= ReadLimit => n <= ReadEvents
  BY ReadsPrefix
<1>3. /\ handle \in [Handles -> {"idle", "ready", "wrote"}]
      /\ seen \in [Handles -> Nat]
      /\ \A g \in Handles : seen[g] <= Len(log)
      /\ DOMAIN log = 1 .. Len(log)
  BY LenProperties DEF IInv, LogInv, HandlesInv
<1>4. ASSUME seen' = [seen EXCEPT ![h] = ReadEvents],
             handle' = [handle EXCEPT ![h] = "ready"],
             UNCHANGED <<log, views, compacting, baseline, nextEpoch, epochs>>
      PROVE  IInv'
  <2>1. LogInv(log, views)'
    BY <1>4 DEF IInv, LogInv, Right, BrokenBy
  <2>2. CompactionsInv'
    BY <1>4 DEF IInv, CompactionsInv, InLog
  <2>3. /\ handle' \in [Handles -> {"idle", "ready", "wrote"}]
        /\ seen' \in [Handles -> Nat]
        /\ \A g \in Handles : seen'[g] <= Len(log')
    BY <1>2, <1>3, <1>4
  <2>4. SeesItsOwnWrites'
    <3> SUFFICES ASSUME NEW g \in Handles, handle'[g] = "ready",
                        NEW n \in DOMAIN log, log[n].by = g, n <= ReadLimit
                 PROVE  n <= seen'[g]
      BY <1>4 DEF SeesItsOwnWrites
    <3>1. CASE g = h
      BY <1>2, <1>3, <1>4, <3>1
    <3>2. CASE g # h
      <4>1. handle[g] = "ready" /\ seen'[g] = seen[g]
        BY <1>3, <1>4, <3>2
      <4> QED
        BY <4>1 DEF IInv, HandlesInv, SeesItsOwnWrites
    <3> QED
      BY <3>1, <3>2
  <2> QED
    BY <2>1, <2>2, <2>3, <2>4 DEF IInv, HandlesInv
<1>5. ASSUME handle' = [handle EXCEPT ![h] = "idle"],
             UNCHANGED <<log, views, seen, compacting, baseline, nextEpoch, epochs>>
      PROVE  IInv'
  <2>1. LogInv(log, views)'
    BY <1>5 DEF IInv, LogInv, Right, BrokenBy
  <2>2. CompactionsInv'
    BY <1>5 DEF IInv, CompactionsInv, InLog
  <2>3. /\ handle' \in [Handles -> {"idle", "ready", "wrote"}]
        /\ \A g \in Handles : handle'[g] = "ready" => handle[g] = "ready"
    BY <1>3, <1>5
  <2>4. HandlesInv'
    BY <1>3, <1>5, <2>3 DEF IInv, HandlesInv, SeesItsOwnWrites
  <2> QED
    BY <2>1, <2>2, <2>4 DEF IInv
<1>6. ASSUME NEW e, Appends(e), e.by = h,
             handle' = [handle EXCEPT ![h] = "wrote"],
             UNCHANGED <<seen, compacting, baseline, nextEpoch, epochs>>
      PROVE  IInv'
  <2>1. /\ LogInv(log, views)'
        /\ Len(log') = Len(log) + 1
        /\ \A i \in 1 .. Len(log) : log'[i] = log[i]
        /\ log'[Len(log) + 1] = e
    BY <1>6, AppendKeeps
  <2>2. DOMAIN log' = 1 .. Len(log) + 1
    BY <2>1, LenProperties DEF LogInv
  <2>3. /\ handle' \in [Handles -> {"idle", "ready", "wrote"}]
        /\ \A g \in Handles : handle'[g] = "ready" => g # h /\ handle[g] = "ready"
        /\ \A g \in Handles : seen'[g] <= Len(log')
    BY <1>2, <1>3, <1>6, <2>1
  <2>4. SeesItsOwnWrites'
    <3> SUFFICES ASSUME NEW g \in Handles, handle'[g] = "ready",
                        NEW n \in DOMAIN log', log'[n].by = g, n <= ReadLimit
                 PROVE  n <= seen[g]
      BY <1>6 DEF SeesItsOwnWrites
    <3>1. g # h /\ handle[g] = "ready"
      BY <2>3
    <3>2. n # Len(log) + 1
      BY <1>6, <2>1, <3>1
    <3>3. n \in DOMAIN log /\ log[n].by = g
      BY <1>2, <1>3, <2>1, <2>2, <3>2
    <3> QED
      BY <3>1, <3>3 DEF IInv, HandlesInv, SeesItsOwnWrites
  <2>5. HandlesInv'
    BY <1>3, <1>6, <2>3, <2>4 DEF HandlesInv
  <2>6. \A c \in Compactions : InLog(baseline[c]) => InLog(baseline[c])'
    <3> TAKE c \in Compactions
    <3>1. ASSUME InLog(baseline[c]) PROVE InLog(baseline[c])'
      <4> DEFINE b == baseline[c]
      <4>1. InLog(b)
        BY <3>1
      <4>2. baseline' = baseline
        BY <1>6
      <4>3. InLog(b) => \E n \in 1 .. Len(log') : log'[n].kind = "compaction" /\ log'[n].arg = b
        BY <1>2, <2>1 DEF InLog
      <4> QED
        BY <4>1, <4>2, <4>3 DEF InLog
    <3> QED
      BY <3>1
  <2>7. CompactionsInv'
    <3>1. /\ \A c \in Compactions : baseline[c] \in Int /\ baseline[c] <= Len(log)
          /\ \A c \in Compactions : compacting[c] \notin {"new", "read"} => InLog(baseline[c])
      BY HistoryAssumption DEF IInv, CompactionsInv
    <3>2. \A c \in Compactions : baseline[c] <= Len(log')
      BY <1>2, <2>1, <3>1
    <3> QED
      BY <1>6, <2>6, <3>1, <3>2 DEF IInv, CompactionsInv
  <2> QED
    BY <2>1, <2>5, <2>7 DEF IInv
<1> QED
  BY <1>1, <1>4, <1>5, <1>6 DEF HandleMoves

LEMMA CompactionKeeps ==
  ASSUME IInv, NEW c \in Compactions, CompactionStep(c)
  PROVE  IInv'
<1> DEFINE e == Event("compaction", baseline[c], NoHandle, baseline[c])
<1>1. /\ UNCHANGED <<handle, seen>>
      /\ AppendCompaction(c) => Appends(e)
  BY CompactionShape
<1>2. /\ Len(log) \in Nat /\ ReadLimit \in Nat \ {0}
      /\ ReadEvents \in 1 .. Len(log) /\ ReadEvents <= ReadLimit
  BY ReadsPrefix
<1>3. /\ DOMAIN log = 1 .. Len(log) /\ Len(log) <= MaxEvents /\ MaxEvents \in Nat
      /\ LogInv(log, views) /\ HandlesInv
  BY LenProperties, HistoryAssumption DEF IInv, LogInv
<1>4. /\ compacting \in [Compactions -> {"new", "read", "wrote", "numbered", "done", "failed"}]
      /\ baseline \in [Compactions -> 0 .. ReadLimit]
      /\ nextEpoch \in [Compactions -> Nat]
      /\ epochs \in Seq(1 .. MaxEvents)
      /\ \A d \in Compactions :
           /\ baseline[d] <= Len(log)
           /\ compacting[d] # "new" => baseline[d] >= 1
           /\ compacting[d] \notin {"new", "read"} => InLog(baseline[d])
           /\ compacting[d] = "done" => /\ nextEpoch[d] \in 1 .. Len(epochs)
                                        /\ epochs[nextEpoch[d]] = baseline[d]
  BY DEF IInv, CompactionsInv
<1>5. ASSUME UNCHANGED <<log, views>>
      PROVE  /\ LogInv(log, views)' /\ HandlesInv'
             /\ \A b : InLog(b)' <=> InLog(b)
  BY <1>1, <1>3, <1>5 DEF LogInv, Right, BrokenBy, HandlesInv, SeesItsOwnWrites, InLog
<1>6. CASE AppendCompaction(c)
  <2>1. /\ compacting' = [compacting EXCEPT ![c] = "wrote"] /\ compacting[c] = "read"
        /\ UNCHANGED <<baseline, nextEpoch, epochs>>
        /\ log' = Append(log, e)
    BY <1>6 DEF AppendCompaction, AppendEvent
  <2>2. Appends(e)
    BY <1>1, <1>6
  <2>3. /\ LogInv(log, views)'
        /\ Len(log') = Len(log) + 1
        /\ \A i \in 1 .. Len(log) : log'[i] = log[i]
        /\ log'[Len(log) + 1] = e
    BY <2>2, AppendKeeps
  <2>4. e.kind = "compaction" /\ e.arg = baseline[c] /\ e.by = NoHandle
    BY DEF Event
  <2>5. DOMAIN log' = 1 .. Len(log) + 1
    BY <2>3, LenProperties DEF LogInv
  <2> HIDE DEF e
  <2>6. HandlesInv'
    <3>1. \A h \in Handles : seen[h] \in Nat /\ seen[h] <= Len(log)
      BY <1>3 DEF HandlesInv
    <3>2. \A h \in Handles : seen[h] <= Len(log')
      BY <1>2, <2>3, <3>1
    <3>3. SeesItsOwnWrites'
      <4> SUFFICES ASSUME NEW h \in Handles, handle[h] = "ready",
                          NEW n \in DOMAIN log', log'[n].by = h, n <= ReadLimit
                   PROVE  n <= seen[h]
        BY <1>1 DEF SeesItsOwnWrites
      <4>1. n # Len(log) + 1
        BY <2>3, <2>4, HistoryAssumption
      <4>2. n \in DOMAIN log /\ log[n].by = h
        BY <1>2, <1>3, <2>3, <2>5, <4>1
      <4> QED
        BY <1>3, <4>2 DEF HandlesInv, SeesItsOwnWrites
    <3> QED
      BY <1>1, <1>3, <3>2, <3>3 DEF HandlesInv
  <2>8. \A d \in Compactions : InLog(baseline[d]) \/ d = c => InLog(baseline[d])'
    <3> SUFFICES ASSUME NEW d \in Compactions, InLog(baseline[d]) \/ d = c
                 PROVE  InLog(baseline[d])'
      OBVIOUS
    <3> DEFINE b == baseline[d]
    <3>1. InLog(b) \/ b = baseline[c]
      OBVIOUS
    <3>2. baseline'[d] = b
      BY <2>1
    <3>3. \E n \in 1 .. Len(log') : log'[n].kind = "compaction" /\ log'[n].arg = b
      <4> HIDE DEF b
      <4>1. CASE b = baseline[c]
        <5>1. Len(log) + 1 \in 1 .. Len(log')
          BY <1>2, <2>3
        <5> QED
          BY <2>3, <2>4, <4>1, <5>1
      <4>2. CASE InLog(b)
        BY <1>2, <2>3, <4>2 DEF InLog
      <4> QED
        BY <3>1, <4>1, <4>2
    <3> QED
      BY <3>2, <3>3 DEF InLog
  <2>9. \A d \in Compactions : baseline[d] <= Len(log')
    BY <1>2, <1>4, <2>3
  <2>10. CompactionsInv'
    BY <1>4, <2>1, <2>8, <2>9 DEF CompactionsInv
  <2> QED
    BY <2>3, <2>6, <2>10 DEF IInv
<1>7. CASE ReadForCompaction(c)
  <2>1. UNCHANGED <<log, views>>
    BY <1>7 DEF ReadForCompaction
  <2>2. /\ compacting[c] = "new"
        /\ compacting' = [compacting EXCEPT ![c] = "read"]
        /\ baseline' = [baseline EXCEPT ![c] = ReadEvents]
        /\ UNCHANGED <<nextEpoch, epochs>>
    BY <1>7 DEF ReadForCompaction
  <2>3. ReadEvents \in 0 .. ReadLimit /\ ReadEvents >= 1 /\ ReadEvents <= Len(log)
    BY <1>2
  <2>4. \A d \in Compactions : InLog(baseline[d])' <=> InLog(baseline'[d])
    BY <2>1 DEF InLog
  <2>5. CompactionsInv'
    BY <1>4, <2>1, <2>2, <2>3, <2>4 DEF CompactionsInv
  <2> QED
    BY <1>5, <2>1, <2>5 DEF IInv
<1>8. CASE NumberEpoch(c)
  <2>1. UNCHANGED <<log, views>>
    BY <1>8 DEF NumberEpoch
  <2>2. /\ compacting[c] = "wrote"
        /\ compacting' = [compacting EXCEPT ![c] = "numbered"]
        /\ nextEpoch' = [nextEpoch EXCEPT ![c] = Len(epochs) + 1]
        /\ UNCHANGED <<baseline, epochs>>
    BY <1>8 DEF NumberEpoch
  <2>3. Len(epochs) + 1 \in Nat
    BY <1>4, LenProperties
  <2>4. \A d \in Compactions : InLog(baseline[d])' <=> InLog(baseline[d])
    BY <2>1, <2>2 DEF InLog
  <2>5. CompactionsInv'
    BY <1>4, <2>1, <2>2, <2>3, <2>4 DEF CompactionsInv
  <2> QED
    BY <1>5, <2>1, <2>5 DEF IInv
<1>9. CASE InsertEpoch(c)
  <2>1. UNCHANGED <<log, views>>
    BY <1>9 DEF InsertEpoch
  <2>2. compacting[c] = "numbered" /\ UNCHANGED <<baseline, nextEpoch>>
    BY <1>9 DEF InsertEpoch
  <2>3. \A d \in Compactions : InLog(baseline[d])' <=> InLog(baseline[d])
    BY <2>1, <2>2 DEF InLog
  <2>4. CASE /\ nextEpoch[c] = Len(epochs) + 1
             /\ epochs' = Append(epochs, baseline[c])
             /\ compacting' = [compacting EXCEPT ![c] = "done"]
    <3>1. baseline[c] \in 1 .. MaxEvents
      BY <1>2, <1>3, <1>4, <2>2
    <3>2. /\ epochs' \in Seq(1 .. MaxEvents) /\ Len(epochs') = Len(epochs) + 1
          /\ Len(epochs) \in Nat
          /\ \A i \in 1 .. Len(epochs) : epochs'[i] = epochs[i]
          /\ epochs'[Len(epochs) + 1] = baseline[c]
      <4> DEFINE T == 1 .. MaxEvents
                 b == baseline[c]
      <4>1. epochs \in Seq(T) /\ b \in T /\ epochs' = Append(epochs, b)
        BY <1>4, <2>4, <3>1
      <4> HIDE DEF T, b
      <4>2. /\ Append(epochs, b) \in Seq(T) /\ Len(Append(epochs, b)) = Len(epochs) + 1
            /\ Len(epochs) \in Nat
            /\ \A i \in 1 .. Len(epochs) : Append(epochs, b)[i] = epochs[i]
            /\ Append(epochs, b)[Len(epochs) + 1] = b
        BY <4>1, AppendProperties, LenProperties
      <4> QED
        BY <4>1, <4>2 DEF T, b
    <3>3. \A d \in Compactions :
            compacting'[d] = "done" => /\ nextEpoch[d] \in 1 .. Len(epochs')
                                       /\ epochs'[nextEpoch[d]] = baseline[d]
      <4> TAKE d \in Compactions
      <4>1. CASE d = c
        BY <2>4, <3>2, <4>1
      <4>2. CASE d # c
        BY <1>4, <2>4, <3>2, <4>2
      <4> QED
        BY <4>1, <4>2
    <3>4. CompactionsInv'
      BY <1>4, <2>1, <2>2, <2>3, <2>4, <3>2, <3>3 DEF CompactionsInv
    <3> QED
      BY <1>5, <2>1, <3>4 DEF IInv
  <2>5. CASE compacting' = [compacting EXCEPT ![c] = "failed"] /\ UNCHANGED epochs
    <3>1. CompactionsInv'
      BY <1>4, <2>1, <2>2, <2>3, <2>5 DEF CompactionsInv
    <3> QED
      BY <1>5, <2>1, <3>1 DEF IInv
  <2> QED
    BY <1>9, <2>4, <2>5 DEF InsertEpoch
<1> QED
  BY <1>6, <1>7, <1>8, <1>9 DEF CompactionStep

LEMMA StutterKeeps ==
  ASSUME IInv, UNCHANGED vars
  PROVE  IInv'
<1>1. LogInv(log, views)'
  BY DEF IInv, LogInv, Right, BrokenBy, vars
<1>2. HandlesInv'
  BY DEF IInv, HandlesInv, SeesItsOwnWrites, vars
<1>3. CompactionsInv'
  BY DEF IInv, CompactionsInv, InLog, vars
<1> QED
  BY <1>1, <1>2, <1>3 DEF IInv

LEMMA Invariance == Spec => []IInv
<1>1. IInv /\ [Next]_vars => IInv'
  BY HandleKeeps, CompactionKeeps, StutterKeeps DEF Next
<1> QED
  BY InitInv, <1>1, PTL DEF Spec
-----------------------------------------------------------------------------
(***************************************************************************)
(* What the runs check.                                                    *)
(***************************************************************************)
\* Every variable has its type: the projection of a log of any length is made
\* of messages with a role, a number in the log and a number of edits.
THEOREM HistoryTypes == Spec => []TypeOK
<1>1. IInv => TypeOK
  <2> SUFFICES ASSUME IInv PROVE TypeOK
    OBVIOUS
  <2>1. /\ Len(log) \in 3 .. MaxEvents /\ Len(views) = Len(log) + 1 /\ MaxEvents \in Nat
        /\ views \in Seq(Views) /\ DOMAIN views = 1 .. Len(views)
    BY LenProperties, HistoryAssumption DEF IInv, LogInv
  <2>2. \A i \in DOMAIN views : views[i] \in Views
    BY <2>1, ElementOfSeq
  <2>3. /\ handle \in [Handles -> {"idle", "ready", "wrote"}]
        /\ seen \in [Handles -> 0 .. MaxEvents]
    BY <2>1 DEF IInv, HandlesInv
  <2>4. /\ compacting \in
             [Compactions -> {"new", "read", "wrote", "numbered", "done", "failed"}]
        /\ baseline \in [Compactions -> 0 .. ReadLimit]
        /\ nextEpoch \in [Compactions -> Nat]
        /\ epochs \in Seq(1 .. MaxEvents)
    BY DEF IInv, CompactionsInv
  <2>5. \A i \in DOMAIN epochs : epochs[i] \in 1 .. MaxEvents
    <3> DEFINE T == 1 .. MaxEvents
    <3>1. epochs \in Seq(T) /\ DOMAIN epochs = 1 .. Len(epochs)
      BY <2>4, LenProperties
    <3> HIDE DEF T
    <3>2. \A i \in 1 .. Len(epochs) : epochs[i] \in T
      BY <3>1, ElementOfSeq
    <3> QED
      BY <3>1, <3>2 DEF T
  <2> QED
    BY <2>1, <2>2, <2>3, <2>4, <2>5 DEF TypeOK
<1> QED
  BY <1>1, Invariance, PTL

\* Whatever prompts, answers, edits, deletions, reverts and compactions are in
\* the log, of however many handles, its projection has exactly the messages
\* and tool rounds that no later event took away, once each and in their order.
THEOREM HistoryRemains == Spec => []HistoryIsWhatRemains
<1>1. IInv => HistoryIsWhatRemains
  <2> SUFFICES ASSUME IInv, Current.ok
               PROVE  LET ms     == Current.messages
                          spoken == {i \in DOMAIN ms : ms[i].role # "system"}
                      IN  /\ {ms[i].seq : i \in spoken} =
                               {n \in DOMAIN log : IsMessage(n) /\
                                  \A k \in (n + 1) .. Len(log) : ~Removes(k, n)}
                          /\ \A i, j \in spoken : i < j => ms[i].seq < ms[j].seq
                          /\ \A i \in DOMAIN ms \ spoken : i = 1
                          /\ Current.tools =
                               {n \in DOMAIN log : log[n].kind = "tool" /\
                                  \A k \in (n + 1) .. Len(log) :
                                    log[k].kind = "reverted" => n <= log[k].arg}
    BY DEF HistoryIsWhatRemains
  <2> DEFINE ms == Current.messages
             spoken == {i \in DOMAIN ms : ms[i].role # "system"}
             len == Len(log)
  <2>1. len \in Nat /\ DOMAIN log = 1 .. len /\ Right(log, views, len)
    BY LenProperties DEF IInv, LogInv
  <2>2. /\ Current \in ViewsTo(len) /\ Ordered(ms)
        /\ Spoken(ms) =
             {q \in 1 .. len : log[q].kind \in {"prompt", "text"} /\
                \A k \in (q + 1) .. len : ~TakesOut(views[k], log[k], q)}
        /\ Current.tools =
             {q \in 1 .. len : log[q].kind = "tool" /\
                \A k \in (q + 1) .. len : log[k].kind = "reverted" => q <= log[k].arg}
    BY <2>1 DEF Right, Current
  <2>3. \A k, q : Removes(k, q) <=> TakesOut(views[k], log[k], q)
    BY DEF Removes, TakesOut
  <2>4. {ms[i].seq : i \in spoken} =
          {n \in DOMAIN log : IsMessage(n) /\ \A k \in (n + 1) .. len : ~Removes(k, n)}
    <3>1. {ms[i].seq : i \in spoken} = Spoken(ms)
      BY DEF Spoken
    <3> QED
      BY <2>1, <2>2, <2>3, <3>1 DEF IsMessage
  <2>5. ms \in Seq(Messages(len))
    BY <2>2 DEF ViewsTo
  <2>6. DOMAIN ms = 1 .. Len(ms) /\ Len(ms) \in Nat
    BY <2>5, LenProperties
  <2> HIDE DEF ms
  <2>7. \A i, j \in spoken : i < j => ms[i].seq < ms[j].seq
    BY <2>2 DEF Ordered
  <2>8. ASSUME NEW i \in DOMAIN ms \ spoken
        PROVE  i = 1
    <3>1. i \in 1 .. Len(ms) /\ ms[i].role = "system"
      BY <2>6
    <3>2. i # 1 => 1 \in DOMAIN ms /\ 1 < i
      BY <2>6, <3>1
    <3> QED
      BY <2>2, <3>1, <3>2 DEF Ordered
  <2>9. Current.tools =
          {n \in DOMAIN log : log[n].kind = "tool" /\
             \A k \in (n + 1) .. len : log[k].kind = "reverted" => n <= log[k].arg}
    BY <2>1, <2>2
  <2> QED
    BY <2>4, <2>7, <2>8, <2>9 DEF ms
<1> QED
  BY <1>1, Invariance, PTL

\* A session becomes unreadable only by an edit or a deletion of a handle that
\* was out of date when it decided on the index.
THEOREM BrokenByStaleOnly == Spec => []BrokenOnlyByStaleHandle
<1>1. IInv => BrokenOnlyByStaleHandle
  <2>1. ASSUME IInv PROVE DOMAIN log = 1 .. Len(log)
    BY <2>1, LenProperties DEF IInv, LogInv
  <2> QED
    BY <2>1 DEF IInv, LogInv, BrokenBy, BrokenOnlyByStaleHandle
<1> QED
  BY <1>1, Invariance, PTL

\* A row of context_epochs stands for a compaction that is in the log, and the
\* row of another one is never overwritten, in whatever order compactions run.
THEOREM EpochsFollow == Spec => []EpochsFollowLog
<1>1. IInv => EpochsFollowLog
  <2>1. ASSUME IInv PROVE DOMAIN log = 1 .. Len(log)
    BY <2>1, LenProperties DEF IInv, LogInv
  <2> QED
    BY <2>1 DEF IInv, CompactionsInv, InLog, EpochsFollowLog
<1> QED
  BY <1>1, Invariance, PTL

\* After a mutation the state of its handle has what the handle wrote, as far
\* as read() goes.
THEOREM OwnWritesSeen == Spec => []SeesItsOwnWrites
<1>1. IInv => SeesItsOwnWrites
  BY DEF IInv, HandlesInv
<1> QED
  BY <1>1, Invariance, PTL
=============================================================================
