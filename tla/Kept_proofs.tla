---------------------------- MODULE Kept_proofs -----------------------------
(***************************************************************************)
(* Theorems about what is kept for later: the tables and the files of the  *)
(* database directory, settings, registries, the context epochs, the       *)
(* answers of plain chats and the times of a client's requests; and about  *)
(* what is kept of something longer: a preview, the messages and files of  *)
(* a turn, the highest of the layers, the text around mentions.  Each      *)
(* section has the invariant of one module, that it starts and stays true, *)
(* and the theorem.                                                        *)
(***************************************************************************)
EXTENDS MessageTable, Records, Migrations, OutputStore, ConfigLayers, ToolSets, PluginHost,
        ContextEpochs, TurnContext, PlainChat, RequestGuards, SharedTheorems

-----------------------------------------------------------------------------
(***************************************************************************)
(* The messages table: rows of messages, once each.                        *)
(***************************************************************************)

TableShape ==
  /\ logged \in Seq(Kinds) /\ mixedUp \in BOOLEAN
  /\ projecting = [p \in Projections |-> projecting[p]] /\ inserted \in [Projections -> BOOLEAN]

\* Somebody is to project the event, or nobody is going to.
Owes(n) == n \in missed \/ InLine(rebuildLeft, n) \/ \E p \in Projections : InLine(projecting[p], n)

NoEventTwice ==
  /\ OneByOne(Nat, tableRows) /\ OneByOne(Nat, rowsOnDisk) /\ OneByOne(Nat, rebuildLeft)
  /\ \A p \in Projections : OneByOne(Nat, projecting[p])
  /\ \A n : InLine(rebuildLeft, n) => n \notin missed
  /\ \A p \in Projections : \A n : InLine(projecting[p], n) =>
       n \notin missed /\ \A q \in Projections : InLine(projecting[q], n) => q = p

OneAtATime ==
  /\ rebuilding # "no" => \A p \in Projections : projecting[p] = <<>> /\ ~inserted[p]
  /\ rebuilding \in {"no", "deleted"} => rebuildLeft = <<>>
  /\ rebuilding = "deleted" => tableRows = <<>>

RowsOfMessages ==
  /\ \A n : InLine(tableRows, n) \/ InLine(rowsOnDisk, n) => n \in DOMAIN logged /\ Projects(n)
  /\ \A n : Owes(n) => n \in DOMAIN logged
  /\ rebuilding # "deleted" =>
       \A n \in DOMAIN logged : InLine(tableRows, n) <=> Projects(n) /\ ~Owes(n)

TableInv == TableShape /\ (~mixedUp => NoEventTwice /\ OneAtATime /\ RowsOfMessages)

LEMMA NobodyInLine == \A x : ~InLine(<<>>, x) /\ OneByOne(Nat, <<>>)
  BY EmptySeq DEF InLine, OneByOne

LEMMA RangeOfLine ==
  ASSUME NEW P, NEW q \in Seq(P)
  PROVE  \A x : x \in Range(q) <=> InLine(q, x)
  BY LenProperties DEF Range, InLine

LEMMA TableStart == TableInit => TableInv
<1> SUFFICES ASSUME TableInit PROVE TableInv
  OBVIOUS
<1>1. logged = <<>> /\ logged \in Seq(Kinds) /\ DOMAIN logged = {}
  <2>1. logged = <<>> /\ <<>> \in Seq(Kinds) /\ Len(<<>>) = 0
    BY EmptySeq DEF TableInit
  <2>2. DOMAIN logged = 1 .. 0
    BY <2>1, LenProperties
  <2> QED
    BY <2>1, <2>2
<1>1a. TableShape
  BY <1>1 DEF TableInit, TableShape
<1>2. NoEventTwice /\ OneAtATime
  BY NobodyInLine DEF TableInit, NoEventTwice, OneAtATime
<1>3. RowsOfMessages
  BY <1>1, NobodyInLine DEF TableInit, RowsOfMessages, Owes
<1> QED
  BY <1>1a, <1>2, <1>3 DEF TableInv

LEMMA EventsAppended ==
  ASSUME TableInv, NEW p \in Projections, AppendAndProject(p)
  PROVE  TableInv'
<1>1. PICK n \in 1 .. 2 : \E kinds \in [1 .. n -> Kinds] :
        /\ logged' = logged \o kinds
        /\ projecting' = [projecting EXCEPT ![p] = [i \in 1 .. Len(kinds) |-> Len(logged) + i]]
  BY DEF AppendAndProject
<1>2. PICK kinds \in [1 .. n -> Kinds] :
        /\ logged' = logged \o kinds
        /\ projecting' = [projecting EXCEPT ![p] = [i \in 1 .. Len(kinds) |-> Len(logged) + i]]
  BY <1>1
<1>3. kinds \in Seq(Kinds) /\ Len(kinds) = n
  <2>1. n \in Nat
    BY <1>1
  <2> QED
    BY <1>2, <2>1
<1> DEFINE new == [i \in 1 .. Len(kinds) |-> Len(logged) + i]
           m == Len(logged)
<1>4. /\ logged \in Seq(Kinds) /\ m \in Nat /\ DOMAIN logged = 1 .. m /\ n \in Nat
  BY <1>1, LenProperties DEF TableInv, TableShape
<1>5. /\ logged' \in Seq(Kinds) /\ DOMAIN logged' = 1 .. m + n
      /\ \A i \in 1 .. m : logged'[i] = logged[i]
  BY <1>2, <1>3, <1>4, ConcatProperties, LenProperties
<1>6. OneByOne(Nat, new) /\ \A x : InLine(new, x) => x \in m + 1 .. m + n
  <2>1. new \in Seq(Nat) /\ Len(new) = n /\ \A i \in 1 .. n : new[i] = m + i
    BY <1>3, <1>4
  <2> HIDE DEF new, m
  <2>2. \A i, j \in 1 .. n : m + i = m + j => i = j
    BY <1>4
  <2>3. \A i \in 1 .. n : m + i \in m + 1 .. m + n
    BY <1>4
  <2> QED
    BY <2>1, <2>2, <2>3 DEF OneByOne, InLine
<1>7. \A x \in m + 1 .. m + n : x \in 1 .. m + n /\ x \notin 1 .. m
  BY <1>4
<1>8. \A x \in 1 .. m + n : x \in 1 .. m \/ x \in m + 1 .. m + n
  BY <1>4
<1> HIDE DEF new, m
<1>9. /\ projecting' = [projecting EXCEPT ![p] = new] /\ rowsOnDisk' = tableRows
      /\ mixedUp' = (mixedUp \/ rebuilding # "no")
      /\ UNCHANGED <<tableRows, inserted, rebuilding, rebuildLeft, rebuilds, missed>>
      /\ projecting[p] = <<>>
  BY <1>2 DEF AppendAndProject, Busy, new, m
<1>10. /\ projecting' = [q \in Projections |-> projecting'[q]]
      /\ projecting'[p] = new /\ \A q \in Projections : q # p => projecting'[q] = projecting[q]
  BY <1>9 DEF TableInv, TableShape
<1>11. TableShape'
  BY <1>5, <1>9, <1>10 DEF TableInv, TableShape
<1>12. ASSUME ~mixedUp' PROVE NoEventTwice' /\ OneAtATime' /\ RowsOfMessages'
  <2>1. ~mixedUp /\ rebuilding = "no" /\ NoEventTwice /\ OneAtATime /\ RowsOfMessages
    BY <1>9, <1>12 DEF TableInv
  <2>2. \A x \in 1 .. m : Projects(x)' <=> Projects(x)
    BY <1>5 DEF Projects
  <2>3. \A x : Owes(x) => x \in 1 .. m
    BY <1>4, <2>1 DEF RowsOfMessages
  <2>4. \A x : InLine(tableRows, x) => x \in 1 .. m /\ Projects(x)
    BY <1>4, <2>1 DEF RowsOfMessages
  <2>5. \A q \in Projections : \A x : InLine(projecting'[q], x) <=> InLine(projecting[q], x) \/ (q = p /\ InLine(new, x))
    BY <1>9, <1>10, NobodyInLine
  <2>6. \A x : Owes(x)' <=> Owes(x) \/ InLine(new, x)
    BY <1>9, <2>5 DEF Owes
  <2>7. NoEventTwice'
    <3>1. \A q \in Projections : OneByOne(Nat, projecting'[q])
      BY <1>6, <1>10, <2>1 DEF NoEventTwice
    <3>2. \A x : InLine(new, x) => ~Owes(x)
      BY <1>6, <1>7, <2>3
    <3>3. \A q \in Projections : \A x : InLine(projecting'[q], x) =>
            x \notin missed /\ \A o \in Projections : InLine(projecting'[o], x) => o = q
      BY <2>1, <2>5, <3>2 DEF NoEventTwice, Owes
    <3> QED
      BY <1>9, <2>1, <3>1, <3>3 DEF NoEventTwice
  <2>8. OneAtATime'
    BY <1>9, <2>1 DEF OneAtATime
  <2>9. RowsOfMessages'
    <3>1. \A x : InLine(tableRows, x) => x \in DOMAIN logged' /\ Projects(x)'
      BY <1>4, <1>5, <2>2, <2>4
    <3>2. \A x : Owes(x)' => x \in DOMAIN logged'
      BY <1>4, <1>5, <1>6, <1>7, <2>3, <2>6
    <3>3. ASSUME NEW x \in 1 .. m + n
          PROVE  InLine(tableRows, x) <=> Projects(x)' /\ ~Owes(x)'
      <4>1. CASE x \in 1 .. m
        <5>1. ~InLine(new, x)
          BY <1>6, <1>7, <4>1
        <5> QED
          BY <1>4, <2>1, <2>2, <2>6, <4>1, <5>1 DEF RowsOfMessages
      <4>2. CASE x \in m + 1 .. m + n
        <5>1. InLine(new, x)
          <6>1. PICK i \in 1 .. n : x = m + i
            <7>1. x - m \in 1 .. n /\ x = m + (x - m)
              BY <1>4, <4>2
            <7> QED
              BY <7>1
          <6>2. Len(new) = n /\ new[i] = x
            BY <1>3, <1>4, <6>1 DEF new, m
          <6> QED
            BY <6>1, <6>2 DEF InLine
        <5> QED
          BY <1>7, <2>4, <2>6, <4>2, <5>1
      <4> QED
        BY <1>8, <4>1, <4>2
    <3> QED
      BY <1>5, <1>9, <3>1, <3>2, <3>3 DEF RowsOfMessages
  <2> QED
    BY <2>7, <2>8, <2>9
<1> QED
  BY <1>11, <1>12 DEF TableInv

LEMMA RowInserted ==
  ASSUME TableInv, NEW p \in Projections, InsertRow(p)
  PROVE  TableInv'
<1> DEFINE n == Head(projecting[p])
           rest == Tail(projecting[p])
<1>1. /\ projecting[p] # <<>> /\ projecting' = [projecting EXCEPT ![p] = rest]
      /\ tableRows' = IF Projects(n) THEN Append(tableRows, n) ELSE tableRows
      /\ inserted' = [inserted EXCEPT ![p] = Projects(n)]
      /\ UNCHANGED <<logged, rowsOnDisk, rebuilding, rebuildLeft, rebuilds, missed, mixedUp>>
  BY DEF InsertRow
<1>2. /\ projecting' = [q \in Projections |-> projecting'[q]] /\ inserted' \in [Projections -> BOOLEAN]
      /\ projecting'[p] = rest /\ \A q \in Projections : q # p => projecting'[q] = projecting[q]
  BY <1>1 DEF TableInv, TableShape, Projects
<1>3. TableShape'
  BY <1>1, <1>2 DEF TableInv, TableShape
<1>4. ASSUME ~mixedUp' PROVE NoEventTwice' /\ OneAtATime' /\ RowsOfMessages'
  <2>1. NoEventTwice /\ OneAtATime /\ RowsOfMessages
    BY <1>1, <1>4 DEF TableInv
  <2>2. /\ OneByOne(Nat, rest) /\ n \in Nat /\ InLine(projecting[p], n)
        /\ \A x : InLine(rest, x) <=> InLine(projecting[p], x) /\ x # n
    BY <1>1, <2>1, HeadLeaves DEF NoEventTwice
  <2> HIDE DEF n, rest
  <2>3. /\ Owes(n) /\ n \in DOMAIN logged /\ n \notin missed /\ rebuilding = "no"
        /\ \A q \in Projections : q # p => ~InLine(projecting[q], n)
    BY <1>1, <2>1, <2>2 DEF Owes, RowsOfMessages, NoEventTwice, OneAtATime
  <2>4. ~InLine(tableRows, n) /\ rebuildLeft = <<>>
    BY <2>1, <2>3 DEF RowsOfMessages, OneAtATime
  <2>5. \A q \in Projections : \A x : InLine(projecting'[q], x) <=> InLine(projecting[q], x) /\ x # n
    BY <1>2, <2>2, <2>3
  <2>6. \A x : Owes(x)' <=> Owes(x) /\ x # n
    BY <1>1, <2>3, <2>4, <2>5, NobodyInLine DEF Owes
  <2>7. OneByOne(Nat, tableRows') /\ \A x : InLine(tableRows', x) <=> InLine(tableRows, x) \/ (x = n /\ Projects(n))
    BY <1>1, <2>1, <2>2, <2>4, LineGrows DEF NoEventTwice
  <2>8. NoEventTwice'
    <3>1. \A q \in Projections : OneByOne(Nat, projecting'[q])
      BY <1>2, <2>1, <2>2 DEF NoEventTwice
    <3> QED
      BY <1>1, <2>1, <2>5, <2>7, <3>1 DEF NoEventTwice
  <2>9. OneAtATime'
    BY <1>1, <2>1, <2>3 DEF OneAtATime
  <2>10. RowsOfMessages'
    BY <1>1, <2>1, <2>3, <2>6, <2>7 DEF RowsOfMessages, Projects
  <2> QED
    BY <2>8, <2>9, <2>10
<1> QED
  BY <1>3, <1>4 DEF TableInv

LEMMA RowCommitted ==
  ASSUME TableInv, NEW p \in Projections, CommitRow(p)
  PROVE  TableInv'
<1>1. /\ inserted' = [inserted EXCEPT ![p] = FALSE] /\ rowsOnDisk' = tableRows
      /\ UNCHANGED <<logged, tableRows, projecting, rebuilding, rebuildLeft, rebuilds, missed, mixedUp>>
  BY DEF CommitRow
<1>2. /\ inserted' \in [Projections -> BOOLEAN]
      /\ \A q \in Projections : ~inserted[q] => ~inserted'[q]
  BY <1>1 DEF TableInv, TableShape
<1>3. TableShape'
  BY <1>1, <1>2 DEF TableInv, TableShape
<1>4. ASSUME ~mixedUp' PROVE NoEventTwice' /\ OneAtATime' /\ RowsOfMessages'
  <2>1. NoEventTwice /\ OneAtATime /\ RowsOfMessages
    BY <1>1, <1>4 DEF TableInv
  <2>2. NoEventTwice'
    BY <1>1, <2>1 DEF NoEventTwice
  <2>3. OneAtATime'
    BY <1>1, <1>2, <2>1 DEF OneAtATime
  <2>4. RowsOfMessages'
    BY <1>1, <2>1 DEF RowsOfMessages, Projects, Owes
  <2> QED
    BY <2>2, <2>3, <2>4
<1> QED
  BY <1>3, <1>4 DEF TableInv

LEMMA ProjectionGivesUp ==
  ASSUME TableInv, NEW p \in Projections, ProjectionFails(p)
  PROVE  TableInv'
<1>1. /\ projecting[p] # <<>> /\ missed' = missed \cup Range(projecting[p])
      /\ projecting' = [projecting EXCEPT ![p] = <<>>] /\ inserted' = [inserted EXCEPT ![p] = FALSE]
      /\ UNCHANGED <<logged, tableRows, rowsOnDisk, rebuilding, rebuildLeft, rebuilds, mixedUp>>
  BY DEF ProjectionFails
<1>2. /\ projecting' = [q \in Projections |-> projecting'[q]] /\ inserted' \in [Projections -> BOOLEAN]
      /\ projecting'[p] = <<>> /\ \A q \in Projections : q # p => projecting'[q] = projecting[q]
  BY <1>1 DEF TableInv, TableShape
<1>3. TableShape'
  BY <1>1, <1>2 DEF TableInv, TableShape
<1>4. ASSUME ~mixedUp' PROVE NoEventTwice' /\ OneAtATime' /\ RowsOfMessages'
  <2>1. NoEventTwice /\ OneAtATime /\ RowsOfMessages
    BY <1>1, <1>4 DEF TableInv
  <2>2. rebuilding = "no" /\ rebuildLeft = <<>>
    BY <1>1, <2>1 DEF OneAtATime
  <2>3. \A x : x \in missed' <=> x \in missed \/ InLine(projecting[p], x)
    <3>1. projecting[p] \in Seq(Nat)
      BY <2>1 DEF NoEventTwice, OneByOne
    <3> QED
      BY <1>1, <3>1, RangeOfLine
  <2>4. \A q \in Projections : \A x : InLine(projecting'[q], x) <=> q # p /\ InLine(projecting[q], x)
    BY <1>2, NobodyInLine
  <2>5. \A x : Owes(x)' <=> Owes(x)
    BY <1>1, <2>3, <2>4 DEF Owes
  <2>6. NoEventTwice'
    <3>1. \A q \in Projections : OneByOne(Nat, projecting'[q])
      BY <1>2, <2>1, NobodyInLine DEF NoEventTwice
    <3>2. \A q \in Projections : \A x : InLine(projecting'[q], x) =>
            x \notin missed' /\ \A o \in Projections : InLine(projecting'[o], x) => o = q
      BY <2>1, <2>3, <2>4 DEF NoEventTwice
    <3> QED
      BY <1>1, <2>1, <2>2, <3>1, <3>2, NobodyInLine DEF NoEventTwice
  <2>7. OneAtATime'
    BY <1>1, <2>1, <2>2 DEF OneAtATime
  <2>8. RowsOfMessages'
    BY <1>1, <2>1, <2>5 DEF RowsOfMessages, Projects
  <2> QED
    BY <2>6, <2>7, <2>8
<1> QED
  BY <1>3, <1>4 DEF TableInv

LEMMA RowsDeleted ==
  ASSUME TableInv, DeleteRows
  PROVE  TableInv'
<1>1. /\ rebuilding = "no" /\ rebuilding' = "deleted" /\ tableRows' = <<>>
      /\ mixedUp' = (mixedUp \/ Busy # {})
      /\ UNCHANGED <<logged, rowsOnDisk, projecting, inserted, rebuildLeft, missed>>
  BY DEF DeleteRows
<1>2. TableShape'
  BY <1>1 DEF TableInv, TableShape
<1>3. ASSUME ~mixedUp' PROVE NoEventTwice' /\ OneAtATime' /\ RowsOfMessages'
  <2>1. NoEventTwice /\ OneAtATime /\ RowsOfMessages /\ Busy = {}
    BY <1>1, <1>3 DEF TableInv
  <2>2. NoEventTwice'
    BY <1>1, <2>1, NobodyInLine DEF NoEventTwice
  <2>3. OneAtATime'
    BY <1>1, <2>1 DEF OneAtATime, Busy
  <2>4. RowsOfMessages'
    BY <1>1, <2>1, NobodyInLine DEF RowsOfMessages, Projects, Owes
  <2> QED
    BY <2>2, <2>3, <2>4
<1> QED
  BY <1>2, <1>3 DEF TableInv

LEMMA EventsRead ==
  ASSUME TableInv, ReadForRebuild
  PROVE  TableInv'
<1> DEFINE n == IF Len(logged) < TableReadLimit THEN Len(logged) ELSE TableReadLimit
           m == Len(logged)
           all == [i \in 1 .. n |-> i]
<1>1. /\ rebuilding = "deleted" /\ rebuilding' = "projecting"
      /\ rebuildLeft' = all /\ missed' = (n + 1) .. m
      /\ UNCHANGED <<logged, tableRows, rowsOnDisk, projecting, inserted, rebuilds, mixedUp>>
  BY DEF ReadForRebuild
<1>2. m \in Nat /\ n \in 0 .. m /\ DOMAIN logged = 1 .. m
  <2>1. logged \in Seq(Kinds) /\ TableReadLimit \in Nat
    BY MessageTableAssumption DEF TableInv, TableShape
  <2>2. m \in Nat /\ DOMAIN logged = 1 .. m
    BY <2>1, LenProperties
  <2> QED
    BY <2>1, <2>2
<1> HIDE DEF n, m
<1>3. OneByOne(Nat, all) /\ \A x : InLine(all, x) <=> x \in 1 .. n
  <2>1. all \in Seq(Nat) /\ Len(all) = n /\ \A i \in 1 .. n : all[i] = i
    BY <1>2
  <2> HIDE DEF all
  <2> QED
    BY <2>1 DEF OneByOne, InLine
<1>4. \A x : (x \in 1 .. m <=> x \in 1 .. n \/ x \in (n + 1) .. m) /\ ~(x \in 1 .. n /\ x \in (n + 1) .. m)
  BY <1>2
<1> HIDE DEF all
<1>5. TableShape'
  BY <1>1 DEF TableInv, TableShape
<1>6. ASSUME ~mixedUp' PROVE NoEventTwice' /\ OneAtATime' /\ RowsOfMessages'
  <2>1. /\ NoEventTwice /\ OneAtATime /\ RowsOfMessages /\ tableRows = <<>>
        /\ \A p \in Projections : projecting[p] = <<>> /\ ~inserted[p]
    BY <1>1, <1>6 DEF TableInv, OneAtATime
  <2>2. \A p \in Projections : \A x : ~InLine(projecting[p], x)
    BY <2>1, NobodyInLine
  <2>3. \A x : Owes(x)' <=> x \in 1 .. m
    BY <1>1, <1>3, <1>4, <2>2 DEF Owes
  <2>4. NoEventTwice'
    BY <1>1, <1>3, <1>4, <2>1, <2>2 DEF NoEventTwice
  <2>5. OneAtATime'
    BY <1>1, <2>1 DEF OneAtATime
  <2>6. RowsOfMessages'
    BY <1>1, <1>2, <2>1, <2>3, NobodyInLine DEF RowsOfMessages, Projects
  <2> QED
    BY <2>4, <2>5, <2>6
<1> QED
  BY <1>5, <1>6 DEF TableInv

LEMMA RowRebuilt ==
  ASSUME TableInv, RebuildRow
  PROVE  TableInv'
<1> DEFINE n == Head(rebuildLeft)
           rest == Tail(rebuildLeft)
<1>1. /\ rebuilding = "projecting"
      /\ UNCHANGED <<logged, rowsOnDisk, projecting, inserted, rebuilds, missed, mixedUp>>
  BY DEF RebuildRow
<1>2. TableShape'
  BY <1>1 DEF TableInv, TableShape
<1>3. ASSUME ~mixedUp', rebuildLeft = <<>> PROVE NoEventTwice' /\ OneAtATime' /\ RowsOfMessages'
  <2>1. /\ NoEventTwice /\ OneAtATime /\ RowsOfMessages
        /\ rebuilding' = "no" /\ UNCHANGED <<tableRows, rebuildLeft>>
    BY <1>1, <1>3 DEF TableInv, RebuildRow
  <2>2. NoEventTwice'
    BY <1>1, <2>1 DEF NoEventTwice
  <2>3. OneAtATime'
    BY <1>1, <1>3, <2>1 DEF OneAtATime
  <2>4. RowsOfMessages'
    BY <1>1, <2>1 DEF RowsOfMessages, Projects, Owes
  <2> QED
    BY <2>2, <2>3, <2>4
<1>4. ASSUME ~mixedUp', rebuildLeft # <<>> PROVE NoEventTwice' /\ OneAtATime' /\ RowsOfMessages'
  <2>1. /\ NoEventTwice /\ OneAtATime /\ RowsOfMessages
        /\ rebuildLeft' = rest /\ rebuilding' \in {"inserted", "projecting"}
        /\ tableRows' = IF Projects(n) THEN Append(tableRows, n) ELSE tableRows
    BY <1>1, <1>4 DEF TableInv, RebuildRow
  <2>2. /\ OneByOne(Nat, rest) /\ n \in Nat /\ InLine(rebuildLeft, n)
        /\ \A x : InLine(rest, x) <=> InLine(rebuildLeft, x) /\ x # n
    BY <1>4, <2>1, HeadLeaves DEF NoEventTwice
  <2> HIDE DEF n, rest
  <2>3. /\ Owes(n) /\ n \in DOMAIN logged /\ n \notin missed
        /\ \A q \in Projections : projecting[q] = <<>>
    BY <1>1, <2>1, <2>2 DEF Owes, RowsOfMessages, NoEventTwice, OneAtATime
  <2>4. ~InLine(tableRows, n)
    BY <1>1, <2>1, <2>3 DEF RowsOfMessages
  <2>5. \A x : Owes(x)' <=> Owes(x) /\ x # n
    BY <1>1, <2>1, <2>2, <2>3, NobodyInLine DEF Owes
  <2>6. OneByOne(Nat, tableRows') /\ \A x : InLine(tableRows', x) <=> InLine(tableRows, x) \/ (x = n /\ Projects(n))
    <3>1. OneByOne(Nat, tableRows)
      BY <2>1 DEF NoEventTwice
    <3>2. CASE Projects(n)
      BY <2>1, <2>2, <2>4, <3>1, <3>2, LineGrows
    <3>3. CASE ~Projects(n)
      BY <2>1, <3>1, <3>3
    <3> QED
      BY <3>2, <3>3
  <2>7. NoEventTwice'
    BY <1>1, <2>1, <2>2, <2>6 DEF NoEventTwice
  <2>8. OneAtATime'
    BY <1>1, <2>1 DEF OneAtATime
  <2>9. RowsOfMessages'
    BY <1>1, <2>1, <2>3, <2>5, <2>6 DEF RowsOfMessages, Projects
  <2> QED
    BY <2>7, <2>8, <2>9
<1> QED
  BY <1>1, <1>2, <1>3, <1>4 DEF TableInv

LEMMA RebuiltCommitted ==
  ASSUME TableInv, CommitRebuilt
  PROVE  TableInv'
<1>1. /\ rebuilding = "inserted" /\ rebuilding' = "projecting" /\ rowsOnDisk' = tableRows
      /\ UNCHANGED <<logged, tableRows, projecting, inserted, rebuildLeft, rebuilds, missed, mixedUp>>
  BY DEF CommitRebuilt
<1>2. TableShape'
  BY <1>1 DEF TableInv, TableShape
<1>3. ASSUME ~mixedUp' PROVE NoEventTwice' /\ OneAtATime' /\ RowsOfMessages'
  <2>1. NoEventTwice /\ OneAtATime /\ RowsOfMessages
    BY <1>1, <1>3 DEF TableInv
  <2>2. NoEventTwice'
    BY <1>1, <2>1 DEF NoEventTwice
  <2>3. OneAtATime'
    BY <1>1, <2>1 DEF OneAtATime
  <2>4. RowsOfMessages'
    BY <1>1, <2>1 DEF RowsOfMessages, Projects, Owes
  <2> QED
    BY <2>2, <2>3, <2>4
<1> QED
  BY <1>2, <1>3 DEF TableInv

LEMMA TableRestarts ==
  ASSUME TableInv, TableCrash
  PROVE  TableInv'
<1>1. /\ tableRows' = rowsOnDisk /\ missed' = {n \in DOMAIN logged : n \notin Range(rowsOnDisk)}
      /\ projecting' = [p \in Projections |-> <<>>] /\ inserted' = [p \in Projections |-> FALSE]
      /\ rebuilding' = "no" /\ rebuildLeft' = <<>>
      /\ UNCHANGED <<logged, rowsOnDisk, rebuilds, mixedUp>>
  BY DEF TableCrash
<1>2. /\ projecting' = [p \in Projections |-> projecting'[p]] /\ inserted' \in [Projections -> BOOLEAN]
      /\ \A p \in Projections : projecting'[p] = <<>> /\ ~inserted'[p]
  BY <1>1
<1>3. TableShape'
  BY <1>1, <1>2 DEF TableInv, TableShape
<1>4. ASSUME ~mixedUp' PROVE NoEventTwice' /\ OneAtATime' /\ RowsOfMessages'
  <2>1. NoEventTwice /\ OneAtATime /\ RowsOfMessages
    BY <1>1, <1>4 DEF TableInv
  <2>2. \A x : x \in missed' <=> x \in DOMAIN logged /\ ~InLine(rowsOnDisk, x)
    <3>1. rowsOnDisk \in Seq(Nat)
      BY <2>1 DEF NoEventTwice, OneByOne
    <3> QED
      BY <1>1, <3>1, RangeOfLine
  <2>3. \A p \in Projections : \A x : ~InLine(projecting'[p], x)
    BY <1>2, NobodyInLine
  <2>4. \A x : Owes(x)' <=> x \in DOMAIN logged /\ ~InLine(rowsOnDisk, x)
    BY <1>1, <2>2, <2>3, NobodyInLine DEF Owes
  <2>5. NoEventTwice'
    BY <1>1, <1>2, <2>1, <2>3, NobodyInLine DEF NoEventTwice
  <2>6. OneAtATime'
    BY <1>1 DEF OneAtATime
  <2>7. RowsOfMessages'
    BY <1>1, <2>1, <2>4 DEF RowsOfMessages, Projects
  <2> QED
    BY <2>5, <2>6, <2>7
<1> QED
  BY <1>3, <1>4 DEF TableInv

LEMMA TableStep == TableInv /\ [TableNext]_tableVars => TableInv'
<1> SUFFICES ASSUME TableInv, [TableNext]_tableVars PROVE TableInv'
  OBVIOUS
<1>1. CASE TableNext
  BY <1>1, EventsAppended, RowInserted, RowCommitted, ProjectionGivesUp, RowsDeleted, EventsRead,
     RowRebuilt, RebuiltCommitted, TableRestarts DEF TableNext
<1>2. CASE UNCHANGED tableVars
  BY <1>2 DEF tableVars, TableInv, TableShape, NoEventTwice, OneAtATime, RowsOfMessages, Projects, Owes
<1> QED
  BY <1>1, <1>2

\* A line in which nobody stands twice has one place for each.
LEMMA PlacesOfOne ==
  ASSUME NEW P, NEW q, OneByOne(P, q), NEW x
  PROVE  Cardinality({k \in DOMAIN q : q[k] = x}) = IF InLine(q, x) THEN 1 ELSE 0
<1>1. DOMAIN q = 1 .. Len(q) /\ \A i, j \in 1 .. Len(q) : q[i] = q[j] => i = j
  BY LenProperties DEF OneByOne
<1>2. CASE InLine(q, x)
  <2>1. PICK k \in 1 .. Len(q) : q[k] = x
    BY <1>2 DEF InLine
  <2>2. {i \in DOMAIN q : q[i] = x} = {k}
    BY <1>1, <2>1
  <2> QED
    BY <1>2, <2>2, FS_Singleton
<1>3. CASE ~InLine(q, x)
  <2>1. {i \in DOMAIN q : q[i] = x} = {}
    BY <1>1, <1>3 DEF InLine
  <2> QED
    BY <1>3, <2>1, FS_EmptySet
<1> QED
  BY <1>2, <1>3

LEMMA TableFollows == TableInv => TableFollowsLog
<1> SUFFICES ASSUME TableInv, ~mixedUp PROVE TableFollowsLog
  BY DEF TableFollowsLog
<1>1. NoEventTwice /\ OneAtATime /\ RowsOfMessages
  BY DEF TableInv
<1>2. \A n : n \in Owed <=> Owes(n)
  <2>1. \A p \in Projections : projecting[p] \in Seq(Nat)
    BY <1>1 DEF NoEventTwice, OneByOne
  <2>2. rebuildLeft \in Seq(Nat)
    BY <1>1 DEF NoEventTwice, OneByOne
  <2>3. \A p \in Projections : \A n : n \in Range(projecting[p]) <=> InLine(projecting[p], n)
    BY <2>1, RangeOfLine
  <2>4. \A n : n \in Range(rebuildLeft) <=> InLine(rebuildLeft, n)
    BY <2>2, RangeOfLine
  <2> QED
    BY <2>3, <2>4 DEF Owed, Owes
<1>3. ASSUME rebuilding # "deleted", NEW n \in DOMAIN logged
      PROVE  Cardinality({k \in DOMAIN tableRows : tableRows[k] = n}) =
               IF Projects(n) /\ n \notin Owed THEN 1 ELSE 0
  <2>1. InLine(tableRows, n) <=> Projects(n) /\ n \notin Owed
    BY <1>1, <1>2, <1>3 DEF RowsOfMessages
  <2>2. Cardinality({k \in DOMAIN tableRows : tableRows[k] = n}) = IF InLine(tableRows, n) THEN 1 ELSE 0
    BY <1>1, PlacesOfOne DEF NoEventTwice
  <2> QED
    BY <2>1, <2>2
<1>4. OneByOne(Nat, rowsOnDisk) /\ DOMAIN rowsOnDisk = 1 .. Len(rowsOnDisk)
  BY <1>1, LenProperties DEF NoEventTwice, OneByOne
<1>5. IsInjective(rowsOnDisk)
  BY <1>4 DEF IsInjective, OneByOne
<1>6. \A n \in Range(rowsOnDisk) : Projects(n)
  BY <1>1, <1>4, RangeOfLine DEF RowsOfMessages, OneByOne
<1> QED
  BY <1>3, <1>5, <1>6 DEF TableFollowsLog

(***************************************************************************)
(* As long as rebuilds and projections do not overlap, a message that is   *)
(* owed no row has exactly one outside a rebuild, and what is on disk is   *)
(* part of that, for any number of events and of requests that project     *)
(* them, whatever fails or crashes.                                        *)
(***************************************************************************)
THEOREM TableHolds == TableSpec => []TableFollowsLog
  BY TableStart, TableStep, TableFollows, PTL DEF TableSpec

-----------------------------------------------------------------------------
(***************************************************************************)
(* Records: what was acknowledged is in the file.                          *)
(***************************************************************************)

\* Every change of a request is stored, or the request has not returned.
LastChange(i) ==
  changedBy[i] # NoOne =>
    /\ changedBy[i] \in RecordCalls
    /\ recCall[changedBy[i]].at \in {"written", "returned", "failed"}
    /\ records[i] # recordsDisk[i] => recCall[changedBy[i]].at = "written"

NoPut(i) == \A c \in RecordCalls : recCall[c].op = "put" => recCall[c].id # i

GoneNow(i) == records[i] = NoRecord /\ recordsDisk[i] = NoRecord

\* A row that is to be created is not there, and who asks for it finds nothing.
Creates(c) ==
  recCall[c].op = "create" /\ recCall[c].at = "writing" /\ NoPut(recCall[c].id) =>
    /\ GoneNow(recCall[c].id) /\ recCall[c].id \notin removed
    /\ \A d \in RecordCalls : d # c /\ recCall[d].id = recCall[c].id =>
         recCall[d].at \in {"new", "reading", "failed"}

Unissued(i) ==
  GoneNow(i) /\ i \notin removed /\ \A c \in RecordCalls : recCall[c].at # "new" => recCall[c].id # i

RecordShape ==
  /\ records = [i \in RecordIds |-> records[i]]
  /\ recordsDisk = [i \in RecordIds |-> recordsDisk[i]]
  /\ changedBy = [i \in RecordIds |-> changedBy[i]]
  /\ recCall \in [RecordCalls -> [op : Ops \cup {"none"}, id : RecordIds \cup {NoOne}, at : Stages]]
  /\ issued \subseteq RecordIds /\ removed \subseteq RecordIds
  /\ \A c \in RecordCalls : recCall[c].at = "new" => recCall[c].op = "none"
  /\ \A c \in RecordCalls : recCall[c].at # "new" => recCall[c].id \in RecordIds /\ recCall[c].op \in Ops
  /\ \A c \in RecordCalls : recCall[c].at = "reading" => recCall[c].op # "create"

RecordInv ==
  /\ RecordShape
  /\ \A i \in RecordIds : LastChange(i)
  /\ \A i \in removed : NoPut(i) => GoneNow(i)
  /\ \A c \in RecordCalls : Creates(c)
  /\ \A i \in RecordIds \ issued : Unissued(i)

LEMMA RecordStart == RecordInit => RecordInv
  BY DEF RecordInit, RecordInv, RecordShape, LastChange, Creates, Unissued, GoneNow, Ops, Stages

\* A call moves on to the stage at.
LEMMA RecordCallGoes ==
  ASSUME RecordInv, NEW c \in RecordCalls, NEW at \in Stages \ {"new", "reading"}, Goes(c, at), recCall[c].at # "new"
  PROVE  /\ recCall'[c].at = at /\ recCall'[c].op = recCall[c].op /\ recCall'[c].id = recCall[c].id
         /\ \A d \in RecordCalls : d # c => recCall'[d] = recCall[d]
         /\ \A d \in RecordCalls : recCall'[d].op = recCall[d].op /\ recCall'[d].id = recCall[d].id
         /\ recCall' \in [RecordCalls -> [op : Ops \cup {"none"}, id : RecordIds \cup {NoOne}, at : Stages]]
         /\ \A d \in RecordCalls : recCall'[d].at = "new" => recCall'[d].op = "none"
         /\ \A d \in RecordCalls : recCall'[d].at # "new" => recCall'[d].id \in RecordIds /\ recCall'[d].op \in Ops
         /\ \A d \in RecordCalls : recCall'[d].at = "reading" => recCall'[d].op # "create"
         /\ \A i : NoPut(i)' <=> NoPut(i)
         /\ recCall[c].id \in issued
<1>1. /\ recCall \in [RecordCalls -> [op : Ops \cup {"none"}, id : RecordIds \cup {NoOne}, at : Stages]]
      /\ recCall' = [recCall EXCEPT ![c].at = at]
  BY DEF RecordInv, RecordShape, Goes
<1>2. /\ recCall'[c].at = at /\ recCall'[c].op = recCall[c].op /\ recCall'[c].id = recCall[c].id
      /\ \A d \in RecordCalls : d # c => recCall'[d] = recCall[d]
      /\ recCall' \in [RecordCalls -> [op : Ops \cup {"none"}, id : RecordIds \cup {NoOne}, at : Stages]]
  BY <1>1
<1>3. \A d \in RecordCalls : recCall'[d].op = recCall[d].op /\ recCall'[d].id = recCall[d].id
  BY <1>2
<1>4. \A i : NoPut(i)' <=> NoPut(i)
  BY <1>3 DEF NoPut
<1>5. recCall[c].id \in issued
  BY DEF RecordInv, RecordShape, Unissued
<1> QED
  BY <1>2, <1>3, <1>4, <1>5 DEF RecordInv, RecordShape

LEMMA ArrivesHolds ==
  ASSUME RecordInv, NEW c \in RecordCalls, NEW i \in RecordIds, NEW op \in Ops, Arrives(c, i, op)
  PROVE  RecordInv'
<1> DEFINE at == IF op \in {"create", "put"} THEN "writing" ELSE "reading"
           r  == [op |-> op, id |-> i, at |-> at]
<1>1. /\ recCall[c].at = "new" /\ recCall' = [recCall EXCEPT ![c] = r]
      /\ issued' = issued \cup {i} /\ (op = "create" <=> i \notin issued)
      /\ UNCHANGED <<records, recordsDisk, changedBy, removed>>
  BY DEF Arrives
<1>2. at \in {"writing", "reading"} /\ (at = "writing" <=> op \in {"create", "put"})
  OBVIOUS
<1>3. /\ r \in [op : Ops \cup {"none"}, id : RecordIds \cup {NoOne}, at : Stages]
      /\ r.op = op /\ r.id = i /\ r.at = at
  BY <1>2 DEF Stages
<1> HIDE DEF r, at
<1>4. /\ recCall'[c] = r /\ recCall[c].op = "none"
      /\ \A d \in RecordCalls : d # c => recCall'[d] = recCall[d]
      /\ recCall' \in [RecordCalls -> [op : Ops \cup {"none"}, id : RecordIds \cup {NoOne}, at : Stages]]
  BY <1>1, <1>3 DEF RecordInv, RecordShape
<1>5. RecordShape'
  BY <1>1, <1>2, <1>3, <1>4 DEF RecordInv, RecordShape
<1>6. \A k : NoPut(k)' => NoPut(k)
  BY <1>4 DEF NoPut
<1>7. \A k \in RecordIds : LastChange(k)'
  BY <1>1, <1>4 DEF RecordInv, LastChange
<1>8. \A k \in removed' : NoPut(k)' => GoneNow(k)'
  BY <1>1, <1>6 DEF RecordInv, GoneNow
<1>9. ASSUME NEW d \in RecordCalls PROVE Creates(d)'
  <2> SUFFICES ASSUME recCall'[d].op = "create", recCall'[d].at = "writing", NoPut(recCall[d].id)'
               PROVE  /\ GoneNow(recCall'[d].id) /\ recCall'[d].id \notin removed
                      /\ \A e \in RecordCalls : e # d /\ recCall'[e].id = recCall'[d].id =>
                           recCall'[e].at \in {"new", "reading", "failed"}
    BY <1>1 DEF Creates, GoneNow
  <2>1. CASE d = c
    <3>1. Unissued(i) /\ recCall'[d].id = i
      BY <1>1, <1>3, <1>4, <2>1 DEF RecordInv
    <3> QED
      BY <1>4, <2>1, <3>1 DEF Unissued, GoneNow
  <2>2. CASE d # c
    <3>1. /\ recCall'[d] = recCall[d] /\ Creates(d)
          /\ NoPut(recCall[d].id)
      BY <1>4, <1>6, <2>2 DEF RecordInv
    <3>2. recCall[d].id = i => op # "create" /\ op # "put"
      <4>1. recCall[d].id = i => i \in issued
        BY <3>1 DEF RecordInv, Unissued
      <4>2. op = "put" => recCall[d].id # i
        BY <1>3, <1>4, <3>1 DEF NoPut
      <4> QED
        BY <1>1, <4>1, <4>2
    <3>3. ASSUME NEW e \in RecordCalls, e # d, recCall'[e].id = recCall[d].id
          PROVE  recCall'[e].at \in {"new", "reading", "failed"}
      BY <1>2, <1>3, <1>4, <3>1, <3>2, <3>3 DEF Creates
    <3> QED
      BY <3>1, <3>3 DEF Creates
  <2> QED
    BY <2>1, <2>2
<1>10. \A k \in RecordIds \ issued' : Unissued(k)'
  BY <1>1, <1>3, <1>4 DEF RecordInv, Unissued, GoneNow
<1> QED
  BY <1>5, <1>7, <1>8, <1>9, <1>10 DEF RecordInv

\* Nothing but a call moves on, past what would write a row.
LEMMA PassesHolds ==
  ASSUME RecordInv, NEW c \in RecordCalls, recCall[c].at \in {"reading", "writing"},
         NEW at \in Stages \ {"new", "reading"}, Goes(c, at),
         at = "failed" \/ (at = "writing" /\ recCall[c].op # "create" /\ records[recCall[c].id] # NoRecord),
         UNCHANGED <<records, recordsDisk, issued, changedBy, removed>>
  PROVE  RecordInv'
<1>1. /\ recCall'[c].at = at /\ recCall'[c].op = recCall[c].op /\ recCall'[c].id = recCall[c].id
      /\ \A d \in RecordCalls : d # c => recCall'[d] = recCall[d]
      /\ \A d \in RecordCalls : recCall'[d].op = recCall[d].op /\ recCall'[d].id = recCall[d].id
      /\ recCall' \in [RecordCalls -> [op : Ops \cup {"none"}, id : RecordIds \cup {NoOne}, at : Stages]]
      /\ \A d \in RecordCalls : recCall'[d].at = "new" => recCall'[d].op = "none"
      /\ \A d \in RecordCalls : recCall'[d].at # "new" => recCall'[d].id \in RecordIds /\ recCall'[d].op \in Ops
      /\ \A d \in RecordCalls : recCall'[d].at = "reading" => recCall'[d].op # "create"
      /\ \A i : NoPut(i)' <=> NoPut(i)
  BY RecordCallGoes
<1>2. RecordShape'
  BY <1>1 DEF RecordInv, RecordShape
<1>3. \A i \in RecordIds : LastChange(i)'
  BY <1>1 DEF RecordInv, LastChange
<1>4. \A i \in removed' : NoPut(i)' => GoneNow(i)'
  BY <1>1 DEF RecordInv, GoneNow
<1>5. ASSUME NEW d \in RecordCalls PROVE Creates(d)'
  <2> SUFFICES ASSUME recCall'[d].op = "create", recCall'[d].at = "writing", NoPut(recCall[d].id)'
               PROVE  /\ GoneNow(recCall'[d].id) /\ recCall'[d].id \notin removed
                      /\ \A e \in RecordCalls : e # d /\ recCall'[e].id = recCall'[d].id =>
                           recCall'[e].at \in {"new", "reading", "failed"}
    BY DEF Creates, GoneNow
  <2>1. d # c /\ recCall'[d] = recCall[d] /\ Creates(d) /\ NoPut(recCall[d].id)
    BY <1>1 DEF RecordInv
  <2>2. recCall[c].id = recCall[d].id => records[recCall[c].id] = NoRecord
    BY <2>1 DEF Creates, GoneNow
  <2> QED
    BY <1>1, <2>1, <2>2 DEF Creates
<1>6. \A k \in RecordIds \ issued' : Unissued(k)'
  <2>1. \A d \in RecordCalls : recCall'[d].at # "new" => recCall[d].at # "new"
    BY <1>1
  <2> QED
    BY <1>1, <2>1 DEF RecordInv, Unissued, GoneNow
<1> QED
  BY <1>2, <1>3, <1>4, <1>5, <1>6 DEF RecordInv

LEMMA WritesHolds ==
  ASSUME RecordInv, NEW c \in RecordCalls, Writes(c)
  PROVE  RecordInv'
<1> DEFINE i == recCall[c].id
<1>1. /\ recCall[c].at = "writing" /\ Goes(c, "written")
      /\ UNCHANGED <<recordsDisk, issued, removed>>
  BY DEF Writes
<1>2. /\ recCall'[c].at = "written" /\ recCall'[c].op = recCall[c].op /\ recCall'[c].id = recCall[c].id
      /\ \A d \in RecordCalls : d # c => recCall'[d] = recCall[d]
      /\ \A d \in RecordCalls : recCall'[d].op = recCall[d].op /\ recCall'[d].id = recCall[d].id
      /\ recCall' \in [RecordCalls -> [op : Ops \cup {"none"}, id : RecordIds \cup {NoOne}, at : Stages]]
      /\ \A d \in RecordCalls : recCall'[d].at = "new" => recCall'[d].op = "none"
      /\ \A d \in RecordCalls : recCall'[d].at # "new" => recCall'[d].id \in RecordIds /\ recCall'[d].op \in Ops
      /\ \A d \in RecordCalls : recCall'[d].at = "reading" => recCall'[d].op # "create"
      /\ \A k : NoPut(k)' <=> NoPut(k)
      /\ i \in issued
  BY <1>1, RecordCallGoes DEF Stages
<1>3. PICK v \in RecordValues : \E new \in Statement(c, records[i], v) : records' = [records EXCEPT ![i] = new]
  BY DEF Writes
<1>4. PICK new \in Statement(c, records[i], v) : records' = [records EXCEPT ![i] = new]
  BY <1>3
<1>5. i \in RecordIds /\ DOMAIN records = RecordIds /\ DOMAIN changedBy = RecordIds
  BY <1>2 DEF RecordInv, RecordShape
<1>6. /\ records'[i] = new /\ \A k \in RecordIds : k # i => records'[k] = records[k]
      /\ records' = [k \in RecordIds |-> records'[k]]
  BY <1>4, <1>5
<1>7. changedBy' = [changedBy EXCEPT ![i] = IF records'[i] # records[i] THEN c ELSE changedBy[i]]
  BY DEF Writes
<1>8. /\ changedBy'[i] = IF records'[i] # records[i] THEN c ELSE changedBy[i]
      /\ \A k \in RecordIds : k # i => changedBy'[k] = changedBy[k]
      /\ changedBy' = [k \in RecordIds |-> changedBy'[k]]
  BY <1>5, <1>7
<1>9. recCall[c].op # "create" /\ recCall[c].op # "put" /\ records[i] = NoRecord => new = NoRecord
  <2>1. recCall[c].op \in {"create", "put", "delete", "update", "rotate"}
    BY <1>1 DEF RecordInv, RecordShape, Ops
  <2> QED
    BY <1>4, <2>1 DEF Statement
<1>10. RecordShape'
  BY <1>1, <1>2, <1>6, <1>8 DEF RecordInv, RecordShape
<1>11. ASSUME NEW k \in RecordIds PROVE LastChange(k)'
  <2>1. LastChange(k)
    BY DEF RecordInv
  <2>2. CASE changedBy'[k] = changedBy[k] /\ records'[k] = records[k]
    <3>1. changedBy[k] # NoOne => changedBy[k] # c
      BY <1>1, <2>1 DEF LastChange
    <3> QED
      BY <1>1, <1>2, <2>1, <2>2, <3>1 DEF LastChange
  <2>3. CASE k = i /\ records'[i] # records[i]
    BY <1>1, <1>2, <1>8, <2>3 DEF LastChange
  <2> QED
    BY <1>6, <1>8, <2>2, <2>3
<1>12. ASSUME NEW k \in removed', NoPut(k)' PROVE GoneNow(k)'
  <2>1. k \in removed /\ NoPut(k) /\ GoneNow(k) /\ k \in RecordIds
    BY <1>1, <1>2, <1>12 DEF RecordInv, RecordShape
  <2>2. CASE k # i
    BY <1>1, <1>6, <2>1, <2>2 DEF GoneNow
  <2>3. CASE k = i
    <3>1. recCall[c].op # "put"
      BY <2>1, <2>3 DEF NoPut
    <3>2. recCall[c].op # "create"
      BY <1>1, <2>1, <2>3 DEF RecordInv, Creates
    <3> QED
      BY <1>1, <1>6, <1>9, <2>1, <2>3, <3>1, <3>2 DEF GoneNow
  <2> QED
    BY <2>2, <2>3
<1>13. ASSUME NEW d \in RecordCalls PROVE Creates(d)'
  <2> SUFFICES ASSUME recCall'[d].op = "create", recCall'[d].at = "writing", NoPut(recCall[d].id)'
               PROVE  /\ GoneNow(recCall[d].id)' /\ recCall'[d].id \notin removed
                      /\ \A e \in RecordCalls : e # d /\ recCall'[e].id = recCall'[d].id =>
                           recCall'[e].at \in {"new", "reading", "failed"}
    BY <1>1 DEF Creates
  <2>1. d # c /\ recCall'[d] = recCall[d] /\ Creates(d) /\ NoPut(recCall[d].id)
    BY <1>2 DEF RecordInv
  <2>2. recCall[d].id # i /\ recCall[d].id \in RecordIds
    BY <1>1, <1>2, <2>1 DEF Creates
  <2> QED
    BY <1>1, <1>2, <1>6, <2>1, <2>2 DEF Creates, GoneNow
<1>14. \A k \in RecordIds \ issued' : Unissued(k)'
  <2>1. \A d \in RecordCalls : recCall'[d].at # "new" => recCall[d].at # "new"
    BY <1>1, <1>2
  <2> QED
    BY <1>1, <1>2, <1>6, <2>1 DEF RecordInv, Unissued, GoneNow
<1> QED
  BY <1>10, <1>11, <1>12, <1>13, <1>14 DEF RecordInv

LEMMA CommitsHolds ==
  ASSUME RecordInv, NEW c \in RecordCalls, Commits(c)
  PROVE  RecordInv'
<1> DEFINE i == recCall[c].id
<1>1. /\ recCall[c].at = "written" /\ Goes(c, "returned") /\ recordsDisk' = records
      /\ removed' = IF recCall[c].op = "delete" /\ records[i] = NoRecord THEN removed \cup {i} ELSE removed
      /\ UNCHANGED <<records, issued, changedBy>>
  BY DEF Commits
<1>2. /\ recCall'[c].at = "returned" /\ recCall'[c].op = recCall[c].op /\ recCall'[c].id = recCall[c].id
      /\ \A d \in RecordCalls : d # c => recCall'[d] = recCall[d]
      /\ \A d \in RecordCalls : recCall'[d].op = recCall[d].op /\ recCall'[d].id = recCall[d].id
      /\ recCall' \in [RecordCalls -> [op : Ops \cup {"none"}, id : RecordIds \cup {NoOne}, at : Stages]]
      /\ \A d \in RecordCalls : recCall'[d].at = "new" => recCall'[d].op = "none"
      /\ \A d \in RecordCalls : recCall'[d].at # "new" => recCall'[d].id \in RecordIds /\ recCall'[d].op \in Ops
      /\ \A d \in RecordCalls : recCall'[d].at = "reading" => recCall'[d].op # "create"
      /\ \A k : NoPut(k)' <=> NoPut(k)
      /\ i \in issued
  BY <1>1, RecordCallGoes DEF Stages
<1>3. i \in RecordIds
  BY <1>2
<1>4. RecordShape'
  BY <1>1, <1>2, <1>3 DEF RecordInv, RecordShape
<1>5. \A k \in RecordIds : LastChange(k)'
  BY <1>1, <1>2 DEF RecordInv, LastChange
<1>6. \A k \in removed' : NoPut(k)' => GoneNow(k)'
  BY <1>1, <1>2 DEF RecordInv, GoneNow
<1>7. ASSUME NEW d \in RecordCalls PROVE Creates(d)'
  <2> SUFFICES ASSUME recCall'[d].op = "create", recCall'[d].at = "writing", NoPut(recCall[d].id)'
               PROVE  /\ GoneNow(recCall[d].id)' /\ recCall'[d].id \notin removed'
                      /\ \A e \in RecordCalls : e # d /\ recCall'[e].id = recCall'[d].id =>
                           recCall'[e].at \in {"new", "reading", "failed"}
    BY DEF Creates
  <2>1. d # c /\ recCall'[d] = recCall[d] /\ Creates(d) /\ NoPut(recCall[d].id)
    BY <1>2 DEF RecordInv
  <2>2. recCall[d].id # i
    BY <1>1, <2>1 DEF Creates
  <2> QED
    BY <1>1, <1>2, <2>1, <2>2 DEF Creates, GoneNow
<1>8. \A k \in RecordIds \ issued' : Unissued(k)'
  <2>1. \A d \in RecordCalls : recCall'[d].at # "new" => recCall[d].at # "new"
    BY <1>1, <1>2
  <2> QED
    BY <1>1, <1>2, <2>1 DEF RecordInv, Unissued, GoneNow
<1> QED
  BY <1>4, <1>5, <1>6, <1>7, <1>8 DEF RecordInv

\* Everything that is not committed is undone; calls that are not new fail or
\* stay as they are.
LEMMA UndoHolds ==
  ASSUME RecordInv, records' = recordsDisk,
         changedBy' = [i \in RecordIds |-> IF records[i] = recordsDisk[i] THEN changedBy[i] ELSE NoOne],
         recCall' \in [RecordCalls -> [op : Ops \cup {"none"}, id : RecordIds \cup {NoOne}, at : Stages]],
         \A d \in RecordCalls :
           /\ recCall'[d].op = recCall[d].op /\ recCall'[d].id = recCall[d].id
           /\ recCall'[d].at = recCall[d].at \/ (recCall[d].at # "new" /\ recCall'[d].at = "failed"),
         UNCHANGED <<recordsDisk, issued, removed>>
  PROVE  RecordInv'
<1>1. \A k : NoPut(k)' <=> NoPut(k)
  BY DEF NoPut
<1>2. RecordShape'
  BY DEF RecordInv, RecordShape
<1>3. \A k \in RecordIds : LastChange(k)'
  BY DEF RecordInv, LastChange
<1>4. \A k \in removed' : NoPut(k)' => GoneNow(k)'
  BY <1>1 DEF RecordInv, GoneNow
<1>5. \A d \in RecordCalls : Creates(d)'
  BY <1>1 DEF RecordInv, Creates, GoneNow
<1>6. \A k \in RecordIds \ issued' : Unissued(k)'
  BY DEF RecordInv, Unissued, GoneNow
<1> QED
  BY <1>2, <1>3, <1>4, <1>5, <1>6 DEF RecordInv

LEMMA DropHolds ==
  ASSUME RecordInv, NEW i \in RecordIds, DropShare(i)
  PROVE  RecordInv'
<1>1. /\ \A k \in RecordIds : records'[k] = IF k = i THEN NoRecord ELSE records[k]
      /\ \A k \in RecordIds : changedBy'[k] = IF k = i THEN NoOne ELSE changedBy[k]
      /\ records' = [k \in RecordIds |-> records'[k]] /\ changedBy' = [k \in RecordIds |-> changedBy'[k]]
      /\ UNCHANGED <<recordsDisk, issued, recCall, removed>>
  BY DEF DropShare, RecordInv, RecordShape
<1>2. RecordShape'
  BY <1>1 DEF RecordInv, RecordShape
<1>3. \A k \in RecordIds : LastChange(k)'
  BY <1>1 DEF RecordInv, LastChange
<1>4. \A k : NoPut(k)' <=> NoPut(k)
  BY <1>1 DEF NoPut
<1>5. \A k \in RecordIds : GoneNow(k) => GoneNow(k)'
  BY <1>1 DEF GoneNow
<1>6. \A k \in removed' : NoPut(k)' => GoneNow(k)'
  BY <1>1, <1>4, <1>5 DEF RecordInv, RecordShape
<1>7. \A d \in RecordCalls : Creates(d)'
  BY <1>1, <1>4, <1>5 DEF RecordInv, RecordShape, Creates
<1>8. \A k \in RecordIds \ issued' : Unissued(k)'
  BY <1>1, <1>5 DEF RecordInv, Unissued
<1> QED
  BY <1>2, <1>3, <1>6, <1>7, <1>8 DEF RecordInv

LEMMA RecordStep == RecordInv /\ [RecordNext]_recordVars => RecordInv'
<1> SUFFICES ASSUME RecordInv, [RecordNext]_recordVars PROVE RecordInv'
  OBVIOUS
<1>1. CASE UNCHANGED recordVars
  <2>1. UNCHANGED <<records, recordsDisk, issued, recCall, changedBy, removed>>
    BY <1>1 DEF recordVars
  <2>2. RecordShape'
    BY <2>1 DEF RecordInv, RecordShape
  <2>3. /\ \A i : LastChange(i) => LastChange(i)'
        /\ \A i : (NoPut(i) <=> NoPut(i)') /\ (GoneNow(i) => GoneNow(i)')
        /\ \A i : Unissued(i) => Unissued(i)'
    BY <2>1 DEF LastChange, NoPut, GoneNow, Unissued
  <2>4. \A c : Creates(c) => Creates(c)'
    BY <2>1, <2>3 DEF Creates
  <2> QED
    BY <2>1, <2>2, <2>3, <2>4 DEF RecordInv
<1>2. ASSUME NEW c \in RecordCalls, NEW i \in RecordIds, NEW op \in Ops, Arrives(c, i, op) PROVE RecordInv'
  BY <1>2, ArrivesHolds
<1>3. ASSUME NEW c \in RecordCalls, ReadRecord(c) PROVE RecordInv'
  <2> DEFINE at == IF records[recCall[c].id] = NoRecord THEN "failed" ELSE "writing"
  <2>1. /\ recCall[c].at = "reading" /\ Goes(c, at) /\ at \in Stages \ {"new", "reading"}
        /\ UNCHANGED <<records, recordsDisk, issued, changedBy, removed>>
        /\ at = "failed" \/ (at = "writing" /\ records[recCall[c].id] # NoRecord)
    BY <1>3 DEF ReadRecord, Stages
  <2>2. recCall[c].op # "create"
    BY <2>1 DEF RecordInv, RecordShape
  <2> HIDE DEF at
  <2> QED
    BY <2>1, <2>2, PassesHolds
<1>4. ASSUME NEW c \in RecordCalls, Writes(c) PROVE RecordInv'
  BY <1>4, WritesHolds
<1>5. ASSUME NEW c \in RecordCalls, Commits(c) PROVE RecordInv'
  BY <1>5, CommitsHolds
<1>6. ASSUME NEW c \in RecordCalls, RollsBack(c) PROVE RecordInv'
  <2>1. /\ recCall[c].at = "written" /\ Goes(c, "failed")
        /\ records' = recordsDisk /\ UNCHANGED <<recordsDisk, issued, removed>>
        /\ changedBy' = [i \in RecordIds |-> IF records[i] = recordsDisk[i] THEN changedBy[i] ELSE NoOne]
    BY <1>6 DEF RollsBack
  <2>2. /\ recCall' \in [RecordCalls -> [op : Ops \cup {"none"}, id : RecordIds \cup {NoOne}, at : Stages]]
        /\ \A d \in RecordCalls : recCall'[d].op = recCall[d].op /\ recCall'[d].id = recCall[d].id
        /\ recCall'[c].at = "failed"
        /\ \A d \in RecordCalls : d # c => recCall'[d] = recCall[d]
    BY <2>1, RecordCallGoes DEF Stages
  <2> QED
    BY <2>1, <2>2, UndoHolds
<1>7. ASSUME NEW c \in RecordCalls, Refuses(c) PROVE RecordInv'
  BY <1>7, PassesHolds DEF Refuses, Stages
<1>8. ASSUME NEW i \in RecordIds, DropShare(i) PROVE RecordInv'
  BY <1>8, DropHolds
<1>9. CASE RecordCrash
  <2>1. /\ records' = recordsDisk /\ UNCHANGED <<recordsDisk, issued, removed>>
        /\ changedBy' = [i \in RecordIds |-> IF records[i] = recordsDisk[i] THEN changedBy[i] ELSE NoOne]
        /\ \A c \in RecordCalls : recCall'[c] =
             IF recCall[c].at \in {"new", "returned"} THEN recCall[c] ELSE [recCall[c] EXCEPT !.at = "failed"]
    BY <1>9 DEF RecordCrash
  <2>2. /\ recCall' \in [RecordCalls -> [op : Ops \cup {"none"}, id : RecordIds \cup {NoOne}, at : Stages]]
        /\ \A d \in RecordCalls :
             /\ recCall'[d].op = recCall[d].op /\ recCall'[d].id = recCall[d].id
             /\ recCall'[d].at = recCall[d].at \/ (recCall[d].at # "new" /\ recCall'[d].at = "failed")
    BY <1>9, <2>1 DEF RecordCrash, RecordInv, RecordShape, Stages
  <2> QED
    BY <2>1, <2>2, UndoHolds
<1> QED
  BY <1>1, <1>2, <1>3, <1>4, <1>5, <1>6, <1>7, <1>8, <1>9 DEF RecordNext

LEMMA RecordsAreTrue == RecordInv => AckedIsStored
  BY DEF RecordInv, RecordShape, LastChange, NoPut, GoneNow, AckedIsStored

(***************************************************************************)
(* What was acknowledged is what is stored, but for the deletion of a      *)
(* share, and what was removed stays so, for any number of rows, calls and *)
(* values, whatever fails or crashes.                                      *)
(***************************************************************************)
THEOREM RecordsHold == RecordSpec => []AckedIsStored
<1>1. RecordSpec => []RecordInv
  BY RecordStart, RecordStep, PTL DEF RecordSpec
<1> QED
  BY <1>1, RecordsAreTrue, PTL

-----------------------------------------------------------------------------
(***************************************************************************)
(* Migrations: what is marked is applied, and who serves has it all.       *)
(***************************************************************************)

RunnerStates ==
  [at : {"off", "upgrade", "apply", "downgrade", "unmark", "commit", "up", "failed"},
   rollback : BOOLEAN, target : Versions \cup {0}, applied : SUBSET Versions,
   version : 0 .. (Len(MigrationSteps) + 1), statement : Nat \ {0}, rolled : BOOLEAN]

MigrationShape ==
  /\ runner \in [Runners -> RunnerStates]
  /\ writer \in Runners \cup {NoRunner}
  /\ unsaved = [schema |-> unsaved.schema, marked |-> unsaved.marked]
  /\ marked \subseteq Versions /\ unsaved.marked \subseteq Versions

\* A statement of the version deletes or inserts rows before the n-th.
DataBefore(v, n) == \E k \in DOMAIN MigrationSteps[v] : k < n /\ MigrationSteps[v][k] = "data"

Complete(inFile, versions, missing) == \A s \in Steps : s[1] \in versions => s \in inFile \cup missing

\* What is marked is applied, in the file and in the transaction that is open;
\* only a column that nothing in its migration can have locked is missed.
FileComplete ==
  /\ Complete(schema, marked, missedColumns)
  /\ writer # NoRunner => schema \subseteq unsaved.schema /\ Complete(unsaved.schema, unsaved.marked, missedColumns)
  /\ \A s \in missedColumns : s \in Steps /\ ~DataBefore(s[1], s[2] + 1)

\* A process writes from its first DELETE or its mark on, until it commits.
InPlace(r) ==
  /\ runner[r].at = "commit" => writer = r
  /\ runner[r].at \notin {"apply", "commit"} => writer # r
  /\ runner[r].at = "apply" =>
       /\ runner[r].version \in Versions
       /\ writer = r <=> DataBefore(runner[r].version, runner[r].statement)
       /\ \A k \in DOMAIN MigrationSteps[runner[r].version] :
            k < runner[r].statement => <<runner[r].version, k>> \in SchemaOf(r) \cup missedColumns
  /\ runner[r].rollback \/ runner[r].at \in {"downgrade", "unmark"} => runner[r].rolled
  /\ runner[r].at = "commit" /\ runner[r].version \notin unsaved.marked => runner[r].rolled

\* The versions that a process has left behind are marked.
LeftMarked(r) ==
  /\ runner[r].at = "upgrade" =>
       \A v \in Versions : v <= runner[r].version \/ v \in runner[r].applied => v \in marked
  /\ runner[r].at \in {"apply", "commit"} =>
       \A v \in Versions : v < runner[r].version \/ v \in runner[r].applied => v \in marked
  /\ runner[r].at = "up" => Versions \subseteq marked

NobodyRolled == \A r \in Runners : ~runner[r].rolled

OnlyForward ==
  /\ writer # NoRunner => marked \subseteq unsaved.marked
  /\ \A r \in Runners : LeftMarked(r)

MigrationInv ==
  /\ MigrationShape
  /\ FileComplete
  /\ \A r \in Runners : InPlace(r)
  /\ NobodyRolled => OnlyForward

LEMMA MigrationStart == MigrationInit => MigrationInv
<1> SUFFICES ASSUME MigrationInit PROVE MigrationInv
  OBVIOUS
<1>1. Off \in RunnerStates
  BY DEF Off, RunnerStates
<1>2. MigrationShape
  BY <1>1, Zenon DEF MigrationInit, MigrationShape
<1>3. FileComplete
  BY DEF MigrationInit, FileComplete, Complete
<1>4. \A r \in Runners : InPlace(r) /\ LeftMarked(r)
  BY MigrationAssumption DEF MigrationInit, InPlace, LeftMarked, Off
<1> QED
  BY <1>2, <1>3, <1>4 DEF MigrationInv, OnlyForward, MigrationInit

\* What a step of one process has to show: the others stay where they are.
LEMMA OthersStay ==
  ASSUME MigrationInv, NEW r \in Runners, NEW x \in RunnerStates,
         runner' = [runner EXCEPT ![r] = x],
         FileComplete', writer' \in Runners \cup {NoRunner},
         unsaved' = [schema |-> unsaved'.schema, marked |-> unsaved'.marked],
         marked' \subseteq Versions, unsaved'.marked \subseteq Versions,
         \/ writer' = writer /\ unsaved' = unsaved
         \/ Free(r) /\ writer' \in {r, NoRunner},
         schema \cup missedColumns \subseteq schema' \cup missedColumns',
         Free(r) \/ (missedColumns \subseteq missedColumns'),
         InPlace(r)', runner[r].rolled => x.rolled,
         NobodyRolled /\ ~x.rolled =>
           /\ marked \subseteq marked' /\ LeftMarked(r)'
           /\ writer' # NoRunner => marked' \subseteq unsaved'.marked
  PROVE  MigrationInv'
<1>1. /\ runner' \in [Runners -> RunnerStates] /\ runner'[r] = x
      /\ \A q \in Runners : q # r => runner'[q] = runner[q]
  BY DEF MigrationInv, MigrationShape
<1>2. MigrationShape'
  BY <1>1 DEF MigrationShape
<1>3. ASSUME NEW q \in Runners, q # r
      PROVE  InPlace(q)' /\ (writer = q => writer' = q /\ unsaved' = unsaved)
  <2>1. runner'[q] = runner[q] /\ InPlace(q) /\ q # NoRunner
    BY <1>1, <1>3, MigrationAssumption DEF MigrationInv
  <2>2. /\ writer' = q <=> writer = q
        /\ writer = q => unsaved' = unsaved
    BY <1>3, <2>1 DEF Free
  <2>3. SchemaOf(q) \cup missedColumns \subseteq SchemaOf(q)' \cup missedColumns'
    <3>1. CASE writer = q
      <4>1. missedColumns \subseteq missedColumns'
        BY <1>3, <2>1, <3>1 DEF Free
      <4> QED
        BY <2>2, <3>1, <4>1 DEF SchemaOf
    <3>2. CASE writer # q
      BY <2>2, <3>2 DEF SchemaOf
    <3> QED
      BY <3>1, <3>2
  <2>4. runner[q].at = "apply" =>
          \A k \in DOMAIN MigrationSteps[runner[q].version] :
            k < runner[q].statement => <<runner[q].version, k>> \in SchemaOf(q)' \cup missedColumns'
    BY <2>1, <2>3 DEF InPlace
  <2>5. runner[q].at = "commit" => unsaved' = unsaved
    BY <2>1, <2>2 DEF InPlace
  <2> QED
    BY <2>1, <2>2, <2>4, <2>5 DEF InPlace
<1>4. ASSUME NobodyRolled' PROVE OnlyForward'
  <2>1. \A q \in Runners : ~runner'[q].rolled
    BY <1>4 DEF NobodyRolled
  <2>2. ~x.rolled /\ \A q \in Runners : q # r => ~runner[q].rolled
    BY <1>1, <2>1
  <2>3. NobodyRolled
    BY <2>2 DEF NobodyRolled
  <2>4. OnlyForward /\ marked \subseteq marked' /\ LeftMarked(r)' /\ (writer' # NoRunner => marked' \subseteq unsaved'.marked)
    BY <2>2, <2>3 DEF MigrationInv
  <2>5. ASSUME NEW q \in Runners, q # r PROVE LeftMarked(q)'
    <3>1. runner'[q] = runner[q] /\ LeftMarked(q)
      BY <1>1, <2>4, <2>5 DEF OnlyForward
    <3> QED
      BY <2>4, <3>1 DEF LeftMarked
  <2> QED
    BY <2>4, <2>5 DEF OnlyForward
<1> QED
  BY <1>2, <1>3, <1>4 DEF MigrationInv

\* The steps that leave the file and the transactions alone.
LEMMA OnlyMoves ==
  ASSUME MigrationInv, NEW r \in Runners, NEW x \in RunnerStates,
         runner' = [runner EXCEPT ![r] = x],
         UNCHANGED <<schema, marked, missedColumns, writer, unsaved>>,
         InPlace(r)', runner[r].rolled => x.rolled, NobodyRolled /\ ~x.rolled => LeftMarked(r)'
  PROVE  MigrationInv'
<1>1. FileComplete'
  BY DEF MigrationInv, FileComplete, Complete
<1>2. /\ writer' \in Runners \cup {NoRunner} /\ marked' \subseteq Versions /\ unsaved'.marked \subseteq Versions
      /\ unsaved' = [schema |-> unsaved'.schema, marked |-> unsaved'.marked]
  BY DEF MigrationInv, MigrationShape
<1>3. NobodyRolled => (writer' # NoRunner => marked' \subseteq unsaved'.marked)
  BY DEF MigrationInv, OnlyForward
<1>4. /\ writer' = writer /\ unsaved' = unsaved /\ marked \subseteq marked' /\ missedColumns \subseteq missedColumns'
      /\ schema \cup missedColumns \subseteq schema' \cup missedColumns'
  OBVIOUS
<1> QED
  BY <1>1, <1>2, <1>3, <1>4, OthersStay

LEMMA StateOfRunner ==
  ASSUME MigrationInv, NEW r \in Runners
  PROVE  /\ runner[r] \in RunnerStates /\ r # NoRunner /\ InPlace(r)
         /\ NobodyRolled => OnlyForward /\ LeftMarked(r) /\ ~runner[r].rolled
  BY MigrationAssumption DEF MigrationInv, MigrationShape, OnlyForward, NobodyRolled

\* Once here, the process is here.
LEMMA RunnerIs ==
  ASSUME MigrationInv, NEW r \in Runners, NEW x, runner' = [runner EXCEPT ![r] = x]
  PROVE  runner'[r] = x
  BY DEF MigrationInv, MigrationShape

\* Where a process goes without a change of anything else about it.
LEMMA RunnerMoves ==
  ASSUME MigrationInv, NEW r \in Runners, NEW at, MovesTo(r, at),
         at \in {"upgrade", "downgrade", "commit", "up", "failed"}
  PROVE  \E x \in RunnerStates :
           /\ runner' = [runner EXCEPT ![r] = x] /\ runner'[r] = x
           /\ x.at = at /\ x.applied = runner[r].applied /\ x.version = runner[r].version
           /\ x.rollback = runner[r].rollback /\ x.rolled = runner[r].rolled
<1> DEFINE x == [runner[r] EXCEPT !.at = at]
<1>1. runner' = [runner EXCEPT ![r] = x] /\ runner[r] \in RunnerStates
  BY StateOfRunner DEF MovesTo
<1>2. /\ x \in RunnerStates
      /\ x.at = at /\ x.applied = runner[r].applied /\ x.version = runner[r].version
      /\ x.rollback = runner[r].rollback /\ x.rolled = runner[r].rolled
  BY <1>1 DEF RunnerStates
<1> HIDE DEF x
<1>3. runner'[r] = x
  BY <1>1, RunnerIs
<1> QED
  BY <1>1, <1>2, <1>3

LEMMA VersionsAreNumbers ==
  /\ Len(MigrationSteps) \in Nat /\ Versions = 1 .. Len(MigrationSteps)
  /\ \A v \in Versions : DOMAIN MigrationSteps[v] = 1 .. Len(MigrationSteps[v]) /\ Len(MigrationSteps[v]) \in Nat
<1>1. MigrationSteps \in Seq(Seq({"create", "column", "data"}))
  BY MigrationAssumption
<1>2. Len(MigrationSteps) \in Nat /\ Versions = 1 .. Len(MigrationSteps)
  BY <1>1, LenProperties DEF Versions
<1>3. \A v \in Versions : MigrationSteps[v] \in Seq({"create", "column", "data"})
  BY <1>1, <1>2, ElementOfSeq
<1> QED
  BY <1>2, <1>3, LenProperties

LEMMA ProcessStarts ==
  ASSUME MigrationInv, NEW r \in Runners, StartProcess(r)
  PROVE  MigrationInv'
<1>1. PICK rollback \in BOOLEAN, target \in Versions \cup {0} :
        runner' = [runner EXCEPT ![r] = [Off EXCEPT !.at = "upgrade", !.rollback = rollback,
                     !.target = target, !.applied = marked, !.rolled = rollback \/ runner[r].rolled]]
  BY DEF StartProcess
<1> DEFINE ever == rollback \/ runner[r].rolled
           x == [Off EXCEPT !.at = "upgrade", !.rollback = rollback, !.target = target,
                            !.applied = marked, !.rolled = ever]
<1>2. /\ runner' = [runner EXCEPT ![r] = x]
      /\ ever \in BOOLEAN /\ (ever <=> rollback \/ runner[r].rolled) /\ marked \in SUBSET Versions
  BY <1>1, StateOfRunner DEF RunnerStates, MigrationInv, MigrationShape
<1> HIDE DEF ever
<1>3. Off \in RunnerStates /\ Off.version = 0
  <2>1. 0 \in 0 .. (Len(MigrationSteps) + 1) /\ 1 \in Nat \ {0}
    BY VersionsAreNumbers
  <2> QED
    BY <2>1 DEF Off, RunnerStates
<1>4. x \in RunnerStates
  BY <1>2, <1>3 DEF RunnerStates
<1>5. x.at = "upgrade" /\ x.version = 0 /\ x.applied = marked /\ x.rollback = rollback /\ x.rolled = ever
  BY <1>2, <1>3 DEF RunnerStates
<1> HIDE DEF x
<1>6. runner'[r] = x
  BY <1>2, RunnerIs
<1>7. runner[r].at = "off" /\ UNCHANGED <<schema, marked, missedColumns, writer, unsaved>>
  BY DEF StartProcess
<1>8. InPlace(r)'
  <2>1. writer # r
    BY <1>7, StateOfRunner DEF InPlace
  <2> QED
    BY <1>2, <1>5, <1>6, <1>7, <2>1 DEF InPlace
<1>9. LeftMarked(r)'
  <2>1. \A v \in Versions : ~(v <= 0)
    BY VersionsAreNumbers
  <2> QED
    BY <1>5, <1>6, <1>7, <2>1 DEF LeftMarked
<1>10. runner[r].rolled => x.rolled
  BY <1>2, <1>5
<1> QED
  BY <1>2, <1>4, <1>7, <1>8, <1>9, <1>10, OnlyMoves

\* The least version of some.
LEMMA LeastVersion ==
  ASSUME NEW W \in SUBSET Versions, W # {}
  PROVE  LET v == CHOOSE v \in W : \A w \in W : v <= w IN v \in W /\ \A w \in W : v <= w
  BY VersionsAreNumbers, EndsOfPlaces

LEMMA GreatestVersion ==
  ASSUME NEW W \in SUBSET Versions, W # {}
  PROVE  (CHOOSE v \in W : \A w \in W : w <= v) \in W
  BY VersionsAreNumbers, EndsOfPlaces

LEMMA VersionFollows ==
  ASSUME MigrationInv, NEW r \in Runners, NextVersion(r)
  PROVE  MigrationInv'
<1> DEFINE pending == {v \in Versions : v > runner[r].version /\ v \notin runner[r].applied}
<1>1. /\ runner[r].at = "upgrade" /\ UNCHANGED <<schema, marked, missedColumns, writer, unsaved>>
      /\ runner[r] \in RunnerStates /\ InPlace(r) /\ writer # r
      /\ NobodyRolled => LeftMarked(r)
  BY StateOfRunner DEF NextVersion, InPlace
<1>2. runner[r].version \in Int
  BY <1>1 DEF RunnerStates
<1>3. CASE pending # {}
  <2> DEFINE next == CHOOSE v \in pending : \A w \in pending : v <= w
             x == [runner[r] EXCEPT !.at = "apply", !.statement = 1, !.version = next]
  <2>1. next \in pending /\ \A w \in pending : next <= w
    BY <1>3, LeastVersion
  <2>2. runner' = [runner EXCEPT ![r] = x]
    BY <1>3 DEF NextVersion
  <2> HIDE DEF next, pending
  <2>3. next \in Versions /\ next \in 0 .. (Len(MigrationSteps) + 1) /\ 1 \in Nat \ {0}
    BY <2>1, VersionsAreNumbers DEF pending
  <2>4. /\ x \in RunnerStates
        /\ x.at = "apply" /\ x.statement = 1 /\ x.version = next /\ x.applied = runner[r].applied
        /\ x.rollback = runner[r].rollback /\ x.rolled = runner[r].rolled
    BY <1>1, <2>3 DEF RunnerStates
  <2> HIDE DEF x
  <2>5. runner'[r] = x
    BY <2>2, RunnerIs
  <2>6. \A k \in DOMAIN MigrationSteps[next] : ~(k < 1)
    BY <2>3, VersionsAreNumbers
  <2>7. InPlace(r)'
    BY <1>1, <2>3, <2>4, <2>5, <2>6 DEF InPlace, DataBefore
  <2>8. ASSUME NobodyRolled PROVE LeftMarked(r)'
    <3>1. ASSUME NEW v \in Versions, v < next \/ v \in runner[r].applied
          PROVE  v \in marked
      <4>1. v \in Int /\ next \in Int
        BY <2>3, VersionsAreNumbers
      <4>2. v \in runner[r].applied \/ v <= runner[r].version
        BY <1>2, <2>1, <3>1, <4>1 DEF pending
      <4> QED
        BY <1>1, <2>8, <4>2 DEF LeftMarked
    <3> QED
      BY <1>1, <2>4, <2>5, <3>1 DEF LeftMarked
  <2> QED
    BY <1>1, <2>2, <2>4, <2>7, <2>8, OnlyMoves
<1>4. CASE pending = {} /\ runner[r].rollback
  <2> DEFINE x == [runner[r] EXCEPT !.at = "downgrade", !.applied = marked, !.version = Len(MigrationSteps) + 1]
  <2>1. runner' = [runner EXCEPT ![r] = x]
    BY <1>4 DEF NextVersion
  <2>2. Len(MigrationSteps) + 1 \in 0 .. (Len(MigrationSteps) + 1) /\ marked \in SUBSET Versions
    BY VersionsAreNumbers DEF MigrationInv, MigrationShape
  <2>3. /\ x \in RunnerStates /\ x.at = "downgrade"
        /\ x.rollback = runner[r].rollback /\ x.rolled = runner[r].rolled
    BY <1>1, <2>2 DEF RunnerStates
  <2> HIDE DEF x
  <2>4. runner'[r] = x
    BY <2>1, RunnerIs
  <2>5. InPlace(r)'
    BY <1>1, <1>4, <2>3, <2>4 DEF InPlace
  <2>6. LeftMarked(r)'
    BY <2>3, <2>4 DEF LeftMarked
  <2> QED
    BY <1>1, <2>1, <2>3, <2>5, <2>6, OnlyMoves
<1>5. CASE pending = {} /\ ~runner[r].rollback
  <2>1. MovesTo(r, "up")
    BY <1>5 DEF NextVersion
  <2>2. PICK x \in RunnerStates :
          /\ runner' = [runner EXCEPT ![r] = x] /\ runner'[r] = x /\ x.at = "up"
          /\ x.rollback = runner[r].rollback /\ x.rolled = runner[r].rolled
    BY <2>1, RunnerMoves
  <2>3. InPlace(r)'
    BY <1>1, <2>2 DEF InPlace
  <2>4. ASSUME NobodyRolled PROVE LeftMarked(r)'
    <3>1. ASSUME NEW v \in Versions PROVE v \in marked
      <4>1. v \in Int
        BY VersionsAreNumbers
      <4>2. v \in runner[r].applied \/ v <= runner[r].version
        BY <1>2, <1>5, <4>1
      <4> QED
        BY <1>1, <2>4, <4>2 DEF LeftMarked
    <3> QED
      BY <1>1, <2>2, <3>1 DEF LeftMarked
  <2> QED
    BY <1>1, <2>2, <2>3, <2>4, OnlyMoves
<1> QED
  BY <1>3, <1>4, <1>5

LEMMA DowngradeFollows ==
  ASSUME MigrationInv, NEW r \in Runners, NextDowngrade(r)
  PROVE  MigrationInv'
<1> DEFINE left == {v \in runner[r].applied : v < runner[r].version /\ v > runner[r].target}
<1>1. /\ runner[r].at = "downgrade" /\ UNCHANGED <<schema, marked, missedColumns, writer, unsaved>>
      /\ runner[r] \in RunnerStates /\ InPlace(r) /\ writer # r /\ runner[r].rolled
  BY StateOfRunner DEF NextDowngrade, InPlace
<1>2. ~NobodyRolled
  BY <1>1 DEF NobodyRolled
<1>3. CASE left # {}
  <2> DEFINE next == CHOOSE v \in left : \A w \in left : w <= v
             x == [runner[r] EXCEPT !.at = "unmark", !.version = next]
  <2>1. left \in SUBSET Versions
    BY <1>1 DEF RunnerStates
  <2>2. next \in Versions
    BY <1>3, <2>1, GreatestVersion
  <2>3. runner' = [runner EXCEPT ![r] = x]
    BY <1>3 DEF NextDowngrade
  <2> HIDE DEF next, left
  <2>4. next \in 0 .. (Len(MigrationSteps) + 1)
    BY <2>2, VersionsAreNumbers
  <2>5. /\ x \in RunnerStates /\ x.at = "unmark"
        /\ x.rollback = runner[r].rollback /\ x.rolled = runner[r].rolled
    BY <1>1, <2>4 DEF RunnerStates
  <2> HIDE DEF x
  <2>6. runner'[r] = x
    BY <2>3, RunnerIs
  <2>7. InPlace(r)'
    BY <1>1, <2>5, <2>6 DEF InPlace
  <2> QED
    BY <1>1, <1>2, <2>3, <2>5, <2>7, OnlyMoves
<1>4. CASE left = {}
  <2>1. MovesTo(r, "up")
    BY <1>4 DEF NextDowngrade
  <2>2. PICK x \in RunnerStates :
          /\ runner' = [runner EXCEPT ![r] = x] /\ runner'[r] = x /\ x.at = "up"
          /\ x.rollback = runner[r].rollback /\ x.rolled = runner[r].rolled
    BY <2>1, RunnerMoves
  <2>3. InPlace(r)'
    BY <1>1, <2>2 DEF InPlace
  <2> QED
    BY <1>1, <1>2, <2>2, <2>3, OnlyMoves
<1> QED
  BY <1>3, <1>4

\* A process fails or ends: its transaction is undone.
LEMMA UndoneIsComplete ==
  ASSUME MigrationInv, NEW r \in Runners, NEW x \in RunnerStates,
         runner' = [runner EXCEPT ![r] = x], RollBack(r), UNCHANGED missedColumns,
         x.at \in {"off", "failed"}, x.rollback => x.rolled, x.rolled = runner[r].rolled
  PROVE  MigrationInv'
<1>1. runner'[r] = x /\ r # NoRunner
  BY RunnerIs, StateOfRunner
<1>2. schema' = schema /\ marked' = marked /\ missedColumns' = missedColumns
  BY DEF RollBack
<1>3. CASE writer = r
  <2>1. writer' = NoRunner /\ unsaved' = [schema |-> {}, marked |-> {}]
    BY <1>3 DEF RollBack, EndsWriting
  <2>2. FileComplete'
    BY <1>2, <2>1 DEF MigrationInv, FileComplete, Complete
  <2>3. InPlace(r)' /\ LeftMarked(r)'
    BY <1>1, <2>1 DEF InPlace, LeftMarked
  <2>4. /\ writer' \in Runners \cup {NoRunner} /\ marked' \subseteq Versions /\ unsaved'.marked \subseteq Versions
        /\ unsaved' = [schema |-> unsaved'.schema, marked |-> unsaved'.marked]
    BY <1>2, <2>1 DEF MigrationInv, MigrationShape
  <2>5. Free(r) /\ writer' \in {r, NoRunner}
    BY <1>3, <2>1 DEF Free
  <2> QED
    BY <1>2, <2>1, <2>2, <2>3, <2>4, <2>5, OthersStay
<1>4. CASE writer # r
  <2>1. UNCHANGED <<schema, marked, missedColumns, writer, unsaved>>
    BY <1>2, <1>4 DEF RollBack
  <2>2. InPlace(r)' /\ LeftMarked(r)'
    BY <1>1, <1>4, <2>1 DEF InPlace, LeftMarked
  <2> QED
    BY <2>1, <2>2, OnlyMoves
<1> QED
  BY <1>3, <1>4

LEMMA RunnerFails ==
  ASSUME MigrationInv, NEW r \in Runners, Fails(r)
  PROVE  MigrationInv'
<1>1. RollBack(r) /\ MovesTo(r, "failed") /\ UNCHANGED missedColumns
  BY DEF Fails
<1>2. PICK x \in RunnerStates :
        /\ runner' = [runner EXCEPT ![r] = x] /\ x.at = "failed"
        /\ x.rollback = runner[r].rollback /\ x.rolled = runner[r].rolled
  BY <1>1, RunnerMoves
<1>3. x.rollback => x.rolled
  BY <1>2, StateOfRunner DEF InPlace
<1> QED
  BY <1>1, <1>2, <1>3, UndoneIsComplete

LEMMA RunnerStops ==
  ASSUME MigrationInv, NEW r \in Runners, Stop(r)
  PROVE  MigrationInv'
<1> DEFINE x == [Off EXCEPT !.rolled = runner[r].rolled]
<1>1. RollBack(r) /\ UNCHANGED missedColumns /\ runner' = [runner EXCEPT ![r] = x]
  BY DEF Stop
<1>2. Off \in RunnerStates /\ Off.at = "off" /\ Off.rollback = FALSE
  <2>1. 0 \in 0 .. (Len(MigrationSteps) + 1) /\ 1 \in Nat \ {0}
    BY VersionsAreNumbers
  <2> QED
    BY <2>1 DEF Off, RunnerStates
<1>3. runner[r].rolled \in BOOLEAN
  BY StateOfRunner DEF RunnerStates
<1>4. x \in RunnerStates /\ x.at = "off" /\ x.rollback = FALSE /\ x.rolled = runner[r].rolled
  BY <1>2, <1>3 DEF RunnerStates
<1> HIDE DEF x
<1> QED
  BY <1>1, <1>4, UndoneIsComplete

\* The statement that is next, and what is after it.
LEMMA NextStatementIs ==
  ASSUME MigrationInv, NEW r \in Runners, HasStep(r), NextStatement(r)
  PROVE  \E x \in RunnerStates :
           /\ runner' = [runner EXCEPT ![r] = x] /\ runner'[r] = x
           /\ x.at = "apply" /\ x.version = runner[r].version /\ x.statement = runner[r].statement + 1
           /\ x.applied = runner[r].applied /\ x.rollback = runner[r].rollback /\ x.rolled = runner[r].rolled
<1> DEFINE x == [runner[r] EXCEPT !.statement = @ + 1]
<1>1. runner[r] \in RunnerStates /\ runner[r].at = "apply"
  BY StateOfRunner DEF HasStep
<1>2. runner' = [runner EXCEPT ![r] = x]
  BY DEF NextStatement
<1>3. runner[r].statement + 1 \in Nat \ {0}
  BY <1>1 DEF RunnerStates
<1>4. /\ x \in RunnerStates
      /\ x.at = "apply" /\ x.version = runner[r].version /\ x.statement = runner[r].statement + 1
      /\ x.applied = runner[r].applied /\ x.rollback = runner[r].rollback /\ x.rolled = runner[r].rolled
  BY <1>1, <1>3 DEF RunnerStates
<1> HIDE DEF x
<1>5. runner'[r] = x
  BY <1>2, RunnerIs
<1> QED
  BY <1>2, <1>4, <1>5

LEMMA StatementIsOne ==
  ASSUME MigrationInv, NEW r \in Runners, HasStep(r)
  PROVE  /\ runner[r].version \in Versions /\ runner[r].statement \in DOMAIN MigrationSteps[runner[r].version]
         /\ StepOf(r) \in Steps /\ StepOf(r)[1] = runner[r].version /\ StepOf(r)[2] = runner[r].statement
         /\ \A k \in DOMAIN MigrationSteps[runner[r].version] :
              k < runner[r].statement + 1 <=> k < runner[r].statement \/ k = runner[r].statement
         /\ DataBefore(runner[r].version, runner[r].statement + 1) <=>
              DataBefore(runner[r].version, runner[r].statement) \/ KindOf(r) = "data"
<1>1. /\ runner[r].at = "apply" /\ runner[r] \in RunnerStates /\ runner[r].version \in Versions
      /\ runner[r].statement <= Len(MigrationSteps[runner[r].version])
  BY StateOfRunner DEF HasStep, InPlace
<1>2. runner[r].statement \in Nat \ {0}
  BY <1>1 DEF RunnerStates
<1>3. runner[r].statement \in DOMAIN MigrationSteps[runner[r].version]
  BY <1>1, <1>2, VersionsAreNumbers
<1>4. StepOf(r) \in Steps /\ StepOf(r)[1] = runner[r].version /\ StepOf(r)[2] = runner[r].statement
  BY <1>1, <1>3 DEF StepOf, Steps
<1>5. \A k \in DOMAIN MigrationSteps[runner[r].version] :
        k < runner[r].statement + 1 <=> k < runner[r].statement \/ k = runner[r].statement
  BY <1>1, <1>2, VersionsAreNumbers
<1>6. DataBefore(runner[r].version, runner[r].statement + 1) <=>
        DataBefore(runner[r].version, runner[r].statement) \/ KindOf(r) = "data"
  BY <1>3, <1>5 DEF DataBefore, KindOf
<1> QED
  BY <1>1, <1>3, <1>4, <1>5, <1>6

LEMMA StatementRuns ==
  ASSUME MigrationInv, NEW r \in Runners, RunStatement(r)
  PROVE  MigrationInv'
<1> DEFINE v == runner[r].version
           n == runner[r].statement
           s == StepOf(r)
<1>1. HasStep(r) /\ Free(r) /\ runner[r].at = "apply" /\ missedColumns' = missedColumns \ {s} /\ NextStatement(r)
  BY DEF RunStatement, HasStep
<1>2. /\ v \in Versions /\ s \in Steps /\ s[1] = v /\ s[2] = n /\ s = <<v, n>>
      /\ \A k \in DOMAIN MigrationSteps[v] : k < n + 1 <=> k < n \/ k = n
      /\ DataBefore(v, n + 1) <=> DataBefore(v, n) \/ KindOf(r) = "data"
  BY <1>1, StatementIsOne DEF StepOf
<1>3. PICK x \in RunnerStates :
        /\ runner' = [runner EXCEPT ![r] = x] /\ runner'[r] = x
        /\ x.at = "apply" /\ x.version = v /\ x.statement = n + 1
        /\ x.applied = runner[r].applied /\ x.rollback = runner[r].rollback /\ x.rolled = runner[r].rolled
  BY <1>1, NextStatementIs
<1>4. /\ InPlace(r) /\ r # NoRunner /\ (NobodyRolled => OnlyForward /\ LeftMarked(r))
      /\ MigrationShape /\ FileComplete
  BY StateOfRunner DEF MigrationInv
<1>5. \A k \in DOMAIN MigrationSteps[v] : k < n => <<v, k>> \in SchemaOf(r) \cup missedColumns
  BY <1>1, <1>4 DEF InPlace
<1>6. (writer = r) <=> DataBefore(v, n)
  BY <1>1, <1>4 DEF InPlace
<1> HIDE DEF v, n, s
<1>7. CASE KindOf(r) = "data" \/ writer = r
  <2>1. /\ writer' = r /\ unsaved' = [schema |-> SchemaOf(r) \cup {s}, marked |-> MarkedOf(r)]
        /\ schema' = schema /\ marked' = marked
    BY <1>7 DEF RunStatement, WritesAs, s
  <2>2. s \notin missedColumns /\ missedColumns' = missedColumns
    <3>1. DataBefore(s[1], s[2] + 1)
      BY <1>2, <1>6, <1>7
    <3> QED
      BY <1>1, <1>4, <3>1 DEF FileComplete
  <2>3. FileComplete'
    <3>1. schema \subseteq SchemaOf(r) /\ Complete(SchemaOf(r), MarkedOf(r), missedColumns)
      BY <1>4 DEF FileComplete, SchemaOf, MarkedOf
    <3>2. Complete(SchemaOf(r) \cup {s}, MarkedOf(r), missedColumns)
      BY <3>1 DEF Complete
    <3> QED
      BY <1>4, <2>1, <2>2, <3>1, <3>2 DEF FileComplete
  <2>4. SchemaOf(r)' = SchemaOf(r) \cup {s}
    BY <2>1 DEF SchemaOf
  <2>5. InPlace(r)'
    <3>1. (writer' = r) <=> DataBefore(v, n + 1)
      BY <1>2, <1>6, <1>7, <2>1
    <3>2. \A k \in DOMAIN MigrationSteps[v] : k < n + 1 => <<v, k>> \in SchemaOf(r)' \cup missedColumns'
      BY <1>2, <1>5, <2>2, <2>4
    <3> QED
      BY <1>2, <1>3, <1>4, <2>1, <3>1, <3>2 DEF InPlace
  <2>6. MarkedOf(r) \subseteq Versions /\ marked \subseteq Versions
    BY <1>4 DEF MigrationShape, MarkedOf
  <2>7. ASSUME NobodyRolled PROVE LeftMarked(r)' /\ marked' \subseteq unsaved'.marked
    <3>1. marked \subseteq MarkedOf(r)
      BY <1>4, <2>7 DEF OnlyForward, MarkedOf
    <3>2. LeftMarked(r)'
      BY <1>1, <1>3, <1>4, <2>1, <2>7 DEF LeftMarked, v
    <3> QED
      BY <2>1, <3>1, <3>2
  <2>8. /\ writer' \in Runners \cup {NoRunner} /\ marked' \subseteq Versions /\ unsaved'.marked \subseteq Versions
        /\ unsaved' = [schema |-> unsaved'.schema, marked |-> unsaved'.marked]
        /\ Free(r) /\ writer' \in {r, NoRunner} /\ marked \subseteq marked'
        /\ schema \cup missedColumns \subseteq schema' \cup missedColumns'
        /\ runner[r].rolled => x.rolled
    BY <1>1, <1>3, <2>1, <2>2, <2>6
  <2> QED
    BY <1>3, <2>3, <2>5, <2>7, <2>8, OthersStay
<1>8. CASE KindOf(r) # "data" /\ writer # r
  <2>1. schema' = schema \cup {s} /\ marked' = marked /\ writer' = writer /\ unsaved' = unsaved
    BY <1>8 DEF RunStatement, s
  <2>2. writer = NoRunner /\ schema \cup missedColumns \subseteq schema' \cup missedColumns'
    BY <1>1, <1>8, <2>1 DEF Free
  <2>3. FileComplete'
    <3>1. Complete(schema', marked, missedColumns')
      BY <1>4, <2>2 DEF FileComplete, Complete
    <3> QED
      BY <1>1, <1>4, <2>1, <2>2, <3>1 DEF FileComplete
  <2>4. SchemaOf(r)' = schema' /\ SchemaOf(r) = schema
    BY <1>8, <2>1 DEF SchemaOf
  <2>5. InPlace(r)'
    <3>1. ~DataBefore(v, n + 1) /\ writer' # r
      BY <1>2, <1>6, <1>8, <2>1
    <3>2. \A k \in DOMAIN MigrationSteps[v] : k < n + 1 => <<v, k>> \in SchemaOf(r)' \cup missedColumns'
      BY <1>2, <1>5, <2>1, <2>2, <2>4
    <3> QED
      BY <1>2, <1>3, <1>4, <2>1, <3>1, <3>2 DEF InPlace
  <2>6. ASSUME NobodyRolled PROVE LeftMarked(r)'
    BY <1>1, <1>3, <1>4, <2>1, <2>6 DEF LeftMarked, v
  <2>7. /\ writer' \in Runners \cup {NoRunner} /\ marked' \subseteq Versions /\ unsaved'.marked \subseteq Versions
        /\ unsaved' = [schema |-> unsaved'.schema, marked |-> unsaved'.marked]
    BY <1>4, <2>1 DEF MigrationShape
  <2>8. runner[r].rolled => x.rolled
    BY <1>3
  <2> QED
    BY <1>1, <1>3, <2>1, <2>2, <2>3, <2>5, <2>6, <2>7, <2>8, OthersStay
<1> QED
  BY <1>7, <1>8

LEMMA StatementGivesUp ==
  ASSUME MigrationInv, NEW r \in Runners, StatementTimesOut(r)
  PROVE  MigrationInv'
<1> DEFINE v == runner[r].version
           n == runner[r].statement
           s == StepOf(r)
<1>1. HasStep(r) /\ ~Free(r) /\ GivesUp(r) /\ runner[r].at = "apply" /\ writer # r
  BY DEF StatementTimesOut, HasStep, Free
<1>2. CASE KindOf(r) # "column"
  BY <1>1, <1>2, RunnerFails DEF GivesUp
<1>3. CASE KindOf(r) = "column"
  <2>1. /\ missedColumns' = missedColumns \cup ({s} \ schema) /\ NextStatement(r)
        /\ UNCHANGED <<schema, marked, writer, unsaved>>
    BY <1>1, <1>3 DEF GivesUp
  <2>2. /\ v \in Versions /\ s \in Steps /\ s[1] = v /\ s[2] = n /\ s = <<v, n>>
        /\ \A k \in DOMAIN MigrationSteps[v] : k < n + 1 <=> k < n \/ k = n
        /\ DataBefore(v, n + 1) <=> DataBefore(v, n) \/ KindOf(r) = "data"
    BY <1>1, StatementIsOne DEF StepOf
  <2>3. PICK x \in RunnerStates :
          /\ runner' = [runner EXCEPT ![r] = x] /\ runner'[r] = x
          /\ x.at = "apply" /\ x.version = v /\ x.statement = n + 1
          /\ x.applied = runner[r].applied /\ x.rollback = runner[r].rollback /\ x.rolled = runner[r].rolled
    BY <1>1, <2>1, NextStatementIs
  <2>4. /\ InPlace(r) /\ r # NoRunner /\ (NobodyRolled => OnlyForward /\ LeftMarked(r))
        /\ MigrationShape /\ FileComplete
    BY StateOfRunner DEF MigrationInv
  <2>5. /\ \A k \in DOMAIN MigrationSteps[v] : k < n => <<v, k>> \in SchemaOf(r) \cup missedColumns
        /\ ~DataBefore(v, n)
    BY <1>1, <2>4 DEF InPlace
  <2> HIDE DEF v, n, s
  <2>6. ~DataBefore(v, n + 1)
    BY <1>3, <2>2, <2>5
  <2>7. FileComplete'
    <3>1. \A t \in missedColumns' : t \in Steps /\ ~DataBefore(t[1], t[2] + 1)
      BY <2>1, <2>2, <2>4, <2>6 DEF FileComplete
    <3>2. Complete(schema, marked, missedColumns')
      BY <2>1, <2>4 DEF FileComplete, Complete
    <3>3. writer # NoRunner => schema \subseteq unsaved.schema /\ Complete(unsaved.schema, unsaved.marked, missedColumns')
      BY <2>1, <2>4 DEF FileComplete, Complete
    <3> QED
      BY <2>1, <3>1, <3>2, <3>3 DEF FileComplete
  <2>8. InPlace(r)'
    <3>1. SchemaOf(r) = schema /\ SchemaOf(r)' = schema
      BY <1>1, <2>1 DEF SchemaOf
    <3>2. \A k \in DOMAIN MigrationSteps[v] : k < n + 1 => <<v, k>> \in SchemaOf(r)' \cup missedColumns'
      BY <2>1, <2>2, <2>5, <3>1
    <3> QED
      BY <1>1, <2>1, <2>2, <2>3, <2>4, <2>6, <3>2 DEF InPlace
  <2>9. ASSUME NobodyRolled PROVE LeftMarked(r)' /\ (writer' # NoRunner => marked' \subseteq unsaved'.marked)
    BY <1>1, <2>1, <2>3, <2>4, <2>9 DEF LeftMarked, OnlyForward, v
  <2>10. /\ writer' \in Runners \cup {NoRunner} /\ marked' \subseteq Versions /\ unsaved'.marked \subseteq Versions
         /\ unsaved' = [schema |-> unsaved'.schema, marked |-> unsaved'.marked]
    BY <2>1, <2>4 DEF MigrationShape
  <2>11. /\ writer' = writer /\ unsaved' = unsaved /\ marked \subseteq marked' /\ missedColumns \subseteq missedColumns'
         /\ schema \cup missedColumns \subseteq schema' \cup missedColumns'
         /\ runner[r].rolled => x.rolled
    BY <2>1, <2>3
  <2>12. NobodyRolled /\ ~x.rolled =>
           /\ marked \subseteq marked' /\ LeftMarked(r)'
           /\ writer' # NoRunner => marked' \subseteq unsaved'.marked
    BY <2>9, <2>11, Zenon
  <2> QED
    BY <2>3, <2>7, <2>8, <2>10, <2>11, <2>12, OthersStay
<1> QED
  BY <1>2, <1>3

\* When all of its statements have run, the version is marked.
LEMMA VersionIsMarked ==
  ASSUME MigrationInv, NEW r \in Runners, Mark(r)
  PROVE  MigrationInv'
<1> DEFINE v == runner[r].version
<1>1. /\ runner[r].at = "apply" /\ ~HasStep(r) /\ Free(r) /\ UNCHANGED missedColumns
      /\ writer' = r /\ unsaved' = [schema |-> SchemaOf(r), marked |-> MarkedOf(r) \cup {v}]
      /\ schema' = schema /\ marked' = marked /\ MovesTo(r, "commit")
  BY DEF Mark, WritesAs
<1>2. /\ InPlace(r) /\ r # NoRunner /\ (NobodyRolled => OnlyForward /\ LeftMarked(r))
      /\ MigrationShape /\ FileComplete /\ runner[r] \in RunnerStates
  BY StateOfRunner DEF MigrationInv
<1>3. /\ v \in Versions
      /\ \A k \in DOMAIN MigrationSteps[v] : k < runner[r].statement => <<v, k>> \in SchemaOf(r) \cup missedColumns
  BY <1>1, <1>2 DEF InPlace
<1>4. \A k \in DOMAIN MigrationSteps[v] : k < runner[r].statement
  <2>1. runner[r].statement \in Nat /\ ~(runner[r].statement <= Len(MigrationSteps[v]))
    BY <1>1, <1>2 DEF HasStep, RunnerStates
  <2> QED
    BY <1>3, <2>1, VersionsAreNumbers
<1>5. PICK x \in RunnerStates :
        /\ runner' = [runner EXCEPT ![r] = x] /\ runner'[r] = x
        /\ x.at = "commit" /\ x.applied = runner[r].applied /\ x.version = v
        /\ x.rollback = runner[r].rollback /\ x.rolled = runner[r].rolled
  BY <1>1, RunnerMoves
<1> HIDE DEF v
<1>6. FileComplete'
  <2>1. schema \subseteq SchemaOf(r) /\ Complete(SchemaOf(r), MarkedOf(r), missedColumns)
    BY <1>2 DEF FileComplete, SchemaOf, MarkedOf
  <2>2. Complete(SchemaOf(r), MarkedOf(r) \cup {v}, missedColumns)
    <3> SUFFICES ASSUME NEW s \in Steps, s[1] \in MarkedOf(r) \cup {v} PROVE s \in SchemaOf(r) \cup missedColumns
      BY DEF Complete
    <3>1. PICK w \in Versions : \E k \in DOMAIN MigrationSteps[w] : s = <<w, k>>
      BY DEF Steps
    <3>2. CASE w = v
      BY <1>3, <1>4, <3>1, <3>2
    <3>3. CASE w # v
      BY <2>1, <3>1, <3>3 DEF Complete
    <3> QED
      BY <3>2, <3>3
  <2> QED
    BY <1>1, <1>2, <2>1, <2>2 DEF FileComplete
<1>7. InPlace(r)'
  <2>1. v \in unsaved'.marked
    BY <1>1
  <2> QED
    BY <1>1, <1>2, <1>5, <2>1 DEF InPlace
<1>8. MarkedOf(r) \subseteq Versions
  BY <1>2 DEF MigrationShape, MarkedOf
<1>9. ASSUME NobodyRolled PROVE LeftMarked(r)' /\ marked' \subseteq unsaved'.marked
  <2>1. marked \subseteq MarkedOf(r)
    BY <1>2, <1>9 DEF OnlyForward, MarkedOf
  <2>2. LeftMarked(r)'
    BY <1>1, <1>2, <1>5, <1>9 DEF LeftMarked, v
  <2> QED
    BY <1>1, <2>1, <2>2
<1>10. /\ writer' \in Runners \cup {NoRunner} /\ marked' \subseteq Versions /\ unsaved'.marked \subseteq Versions
       /\ unsaved' = [schema |-> unsaved'.schema, marked |-> unsaved'.marked]
       /\ Free(r) /\ writer' \in {r, NoRunner} /\ marked \subseteq marked'
       /\ schema \cup missedColumns \subseteq schema' \cup missedColumns'
       /\ runner[r].rolled => x.rolled
  BY <1>1, <1>2, <1>3, <1>5, <1>8 DEF MigrationShape
<1> QED
  BY <1>5, <1>6, <1>7, <1>9, <1>10, OthersStay

LEMMA VersionIsUnmarked ==
  ASSUME MigrationInv, NEW r \in Runners, Unmark(r)
  PROVE  MigrationInv'
<1>1. /\ runner[r].at = "unmark" /\ Free(r) /\ UNCHANGED missedColumns
      /\ writer' = r /\ unsaved' = [schema |-> SchemaOf(r), marked |-> MarkedOf(r) \ {runner[r].version}]
      /\ schema' = schema /\ marked' = marked /\ MovesTo(r, "commit")
  BY DEF Unmark, WritesAs
<1>2. InPlace(r) /\ r # NoRunner /\ MigrationShape /\ FileComplete /\ runner[r].rolled
  BY <1>1, StateOfRunner DEF MigrationInv, InPlace
<1>3. PICK x \in RunnerStates :
        /\ runner' = [runner EXCEPT ![r] = x] /\ runner'[r] = x /\ x.at = "commit"
        /\ x.rollback = runner[r].rollback /\ x.rolled = runner[r].rolled
  BY <1>1, RunnerMoves
<1>4. FileComplete'
  <2>1. schema \subseteq SchemaOf(r) /\ Complete(SchemaOf(r), MarkedOf(r), missedColumns)
    BY <1>2 DEF FileComplete, SchemaOf, MarkedOf
  <2>2. Complete(SchemaOf(r), MarkedOf(r) \ {runner[r].version}, missedColumns)
    BY <2>1 DEF Complete
  <2> QED
    BY <1>1, <1>2, <2>1, <2>2 DEF FileComplete
<1>5. InPlace(r)'
  BY <1>1, <1>2, <1>3 DEF InPlace
<1>6. MarkedOf(r) \subseteq Versions
  BY <1>2 DEF MigrationShape, MarkedOf
<1>7. /\ writer' \in Runners \cup {NoRunner} /\ marked' \subseteq Versions /\ unsaved'.marked \subseteq Versions
      /\ unsaved' = [schema |-> unsaved'.schema, marked |-> unsaved'.marked]
      /\ Free(r) /\ writer' \in {r, NoRunner}
      /\ schema \cup missedColumns \subseteq schema' \cup missedColumns'
      /\ x.rolled
  BY <1>1, <1>2, <1>3, <1>6 DEF MigrationShape
<1> QED
  BY <1>3, <1>4, <1>5, <1>7, OthersStay

LEMMA MigrationCommits ==
  ASSUME MigrationInv, NEW r \in Runners, CommitMigration(r)
  PROVE  MigrationInv'
<1> DEFINE at == IF runner[r].version \in unsaved.marked THEN "upgrade" ELSE "downgrade"
<1>1. /\ runner[r].at = "commit" /\ UNCHANGED missedColumns
      /\ schema' = unsaved.schema /\ marked' = unsaved.marked
      /\ writer' = NoRunner /\ unsaved' = [schema |-> {}, marked |-> {}] /\ MovesTo(r, at)
  BY DEF CommitMigration, EndsWriting
<1>2. /\ InPlace(r) /\ r # NoRunner /\ (NobodyRolled => OnlyForward /\ LeftMarked(r) /\ ~runner[r].rolled)
      /\ MigrationShape /\ FileComplete /\ writer = r /\ runner[r] \in RunnerStates
  BY <1>1, StateOfRunner DEF MigrationInv, InPlace
<1>3. PICK x \in RunnerStates :
        /\ runner' = [runner EXCEPT ![r] = x] /\ runner'[r] = x /\ x.at = at
        /\ x.applied = runner[r].applied /\ x.version = runner[r].version
        /\ x.rollback = runner[r].rollback /\ x.rolled = runner[r].rolled
  BY <1>1, RunnerMoves
<1>4. FileComplete'
  BY <1>1, <1>2 DEF FileComplete
<1>5. ASSUME NobodyRolled PROVE LeftMarked(r)' /\ marked \subseteq marked'
  <2>1. marked \subseteq unsaved.marked /\ runner[r].version \in unsaved.marked /\ LeftMarked(r)
    BY <1>1, <1>2, <1>5 DEF OnlyForward, InPlace
  <2>2. at = "upgrade"
    BY <2>1
  <2>3. \A w \in Versions : w <= runner[r].version \/ w \in runner[r].applied => w \in unsaved.marked
    <3>1. /\ \A w \in Versions : w \in Int
          /\ runner[r].version \in Int
      BY <1>2, VersionsAreNumbers DEF RunnerStates
    <3>2. \A w \in Versions : w <= runner[r].version => w < runner[r].version \/ w = runner[r].version
      BY <3>1
    <3> QED
      BY <1>1, <2>1, <3>2 DEF LeftMarked
  <2> QED
    BY <1>1, <1>3, <2>1, <2>2, <2>3 DEF LeftMarked
<1>6. InPlace(r)'
  <2>1. at \in {"upgrade", "downgrade"} /\ (at = "downgrade" => runner[r].rolled)
    BY <1>1, <1>2 DEF InPlace
  <2> HIDE DEF at
  <2> QED
    BY <1>1, <1>2, <1>3, <2>1 DEF InPlace
<1>7. /\ writer' \in Runners \cup {NoRunner} /\ marked' \subseteq Versions /\ unsaved'.marked \subseteq Versions
      /\ unsaved' = [schema |-> unsaved'.schema, marked |-> unsaved'.marked]
      /\ Free(r) /\ writer' \in {r, NoRunner} /\ writer' = NoRunner
      /\ schema \cup missedColumns \subseteq schema' \cup missedColumns'
      /\ runner[r].rolled => x.rolled
  BY <1>1, <1>2, <1>3 DEF MigrationShape, FileComplete, Free
<1> QED
  BY <1>3, <1>4, <1>5, <1>6, <1>7, OthersStay

LEMMA MigrationStep == MigrationInv /\ [MigrationNext]_migrationVars => MigrationInv'
<1> SUFFICES ASSUME MigrationInv, [MigrationNext]_migrationVars PROVE MigrationInv'
  OBVIOUS
<1>1. CASE MigrationNext
  <2>1. PICK r \in Runners :
          \/ StartProcess(r) \/ NextVersion(r) \/ RunStatement(r) \/ Mark(r) \/ MarkFails(r)
          \/ StatementTimesOut(r) \/ MarkTimesOut(r) \/ NextDowngrade(r) \/ Unmark(r)
          \/ CommitMigration(r) \/ Stop(r)
    BY <1>1 DEF MigrationNext
  <2>2. CASE MarkFails(r) \/ MarkTimesOut(r)
    BY <2>2, RunnerFails DEF MarkFails, MarkTimesOut
  <2> QED
    BY <2>1, <2>2, ProcessStarts, VersionFollows, StatementRuns, VersionIsMarked, StatementGivesUp,
       DowngradeFollows, VersionIsUnmarked, MigrationCommits, RunnerStops
<1>2. CASE UNCHANGED migrationVars
  BY <1>2 DEF migrationVars, MigrationInv, MigrationShape, FileComplete, Complete, InPlace, SchemaOf,
              NobodyRolled, OnlyForward, LeftMarked
<1> QED
  BY <1>1, <1>2

LEMMA ServedIsLatest == MigrationInv => ServesLatest
<1> SUFFICES ASSUME MigrationInv, NEW r \in Runners, runner[r].at = "up",
                    Cardinality(marked) < Len(MigrationSteps)
             PROVE  ~NobodyRolled
  BY DEF ServesLatest, NobodyRolled
<1> SUFFICES ASSUME NobodyRolled PROVE FALSE
  OBVIOUS
<1> DEFINE n == Len(MigrationSteps)
<1>1. marked = 1 .. n /\ n \in Nat
  BY VersionsAreNumbers DEF MigrationInv, MigrationShape, OnlyForward, LeftMarked
<1> HIDE DEF n
<1>2. Cardinality(1 .. n) = n
  <2>0. n \in Int /\ 1 \in Int
    BY <1>1
  <2>1. Cardinality(1 .. n) = IF 1 > n THEN 0 ELSE n - 1 + 1
    BY <2>0, FS_Interval
  <2> QED
    BY <1>1, <2>1
<1>3. Cardinality(marked) < n
  BY DEF n
<1> QED
  BY <1>1, <1>2, <1>3

(***************************************************************************)
(* A marked version is applied, but for columns whose ALTER gave up, and   *)
(* a process that serves has every version marked unless somebody rolled   *)
(* back, for any migrations and any number of processes, wherever they are *)
(* killed.                                                                 *)
(***************************************************************************)
THEOREM MigrationsHold == MigrationSpec => [](MarkedIsApplied /\ ServesLatest)
<1>1. MigrationSpec => []MigrationInv
  BY MigrationStart, MigrationStep, PTL DEF MigrationSpec
<1>2. MigrationInv => MarkedIsApplied
  BY DEF MigrationInv, FileComplete, Complete, MarkedIsApplied
<1> QED
  BY <1>1, <1>2, ServedIsLatest, PTL

-----------------------------------------------------------------------------
(***************************************************************************)
(* Outputs of tools: the files of the entries, and sessions apart.         *)
(***************************************************************************)

\* The file is that of a key which is stored under k in the session.
StoredAt(k, s, p) == \E key \in OutputKeys : k = FullKey(s, key) /\ p = FileOf[<<s, key>>]

\* The entry under a key is that of a save under it.
EntryOK(k) ==
  /\ outputs[k].save \in Nat /\ outputs[k].save <= saves
  /\ outputs[k].save = Absent => outputs[k].scope = "_global"
  /\ outputs[k].save # Absent => outputs[k].scope \in Scopes /\ StoredAt(k, outputs[k].scope, outputs[k].path)

\* No key has the file for itself.
Shared(p) == \A s \in Scopes, key \in OutputKeys : FileOf[<<s, key>>] = p => ~OwnFile(s, key)

\* The file of an entry holds it, or what the property allows.
FileOK(save, p) ==
  \/ onDisk[p] = save \/ p \in refused
  \/ (onDisk[p] = Absent \/ onDisk[p] > save) /\ Shared(p)

FilesOK ==
  \A k \in FullKeys : outputs[k].save # Absent /\ outputs[k].managed => FileOK(outputs[k].save, outputs[k].path)

DiskOK == onDisk \in [Paths -> Int] /\ saves \in Nat /\ \A p \in Paths : onDisk[p] <= saves

OutputInv ==
  /\ outputs = [k \in FullKeys |-> outputs[k]] /\ DiskOK
  /\ \A k \in FullKeys : EntryOK(k)
  /\ FilesOK

LEMMA FilesFromInv == OutputInv => FilesHoldOutputs
  BY DEF OutputInv, FilesOK, FilesHoldOutputs, FileOK, Shared

LEMMA PathParts ==
  ASSUME NEW s \in Scopes, NEW key \in OutputKeys
  PROVE  FileOf[<<s, key>>] \in Paths /\ FullKey(s, key) \in FullKeys
<1>1. <<s, key>> \in Scopes \X OutputKeys
  OBVIOUS
<1> QED
  BY <1>1, OutputAssumption DEF FullKeys

\* A file that a key has for itself is in the directory of its session, and
\* what leads to it is that key.
LEMMA OwnFileIs ==
  ASSUME NEW p, ~Shared(p), NEW s \in Scopes, NEW t \in Scopes, NEW k, NEW l, StoredAt(k, s, p), StoredAt(l, t, p)
  PROVE  p[1] = s /\ t = s /\ l = k
<1>1. PICK u \in Scopes, mine \in OutputKeys : FileOf[<<u, mine>>] = p /\ OwnFile(u, mine)
  BY DEF Shared
<1>2. p[1] = u /\ \A x \in Scopes \X OutputKeys : FileOf[x] = p => x = <<u, mine>>
  BY <1>1 DEF OwnFile
<1>3. ASSUME NEW v \in Scopes, NEW other \in OutputKeys, FileOf[<<v, other>>] = p
      PROVE  v = u /\ other = mine
  <2>1. <<v, other>> \in Scopes \X OutputKeys
    OBVIOUS
  <2>2. <<v, other>> = <<u, mine>>
    BY <1>2, <1>3, <2>1
  <2> QED
    BY <2>2
<1>4. PICK one \in OutputKeys : k = FullKey(s, one) /\ p = FileOf[<<s, one>>]
  BY DEF StoredAt
<1>5. PICK two \in OutputKeys : l = FullKey(t, two) /\ p = FileOf[<<t, two>>]
  BY DEF StoredAt
<1>6. s = u /\ one = mine
  BY <1>3, <1>4
<1>7. t = u /\ two = mine
  BY <1>3, <1>5
<1> QED
  BY <1>2, <1>4, <1>5, <1>6, <1>7

\* A key in a session begins with it, and has at least two parts.
LEMMA KeyOfSession ==
  ASSUME NEW s \in StoreSessions, NEW key \in OutputKeys
  PROVE  FullKey(s, key)[1] = s /\ Len(FullKey(s, key)) > 1
<1>1. s # "_global"
  BY OutputAssumption
<1>2. FullKey(s, key) = <<s>> \o key
  BY <1>1 DEF FullKey
<1> DEFINE T == StoreSessions \cup OutputNames
<1>3. key \in Seq(T) /\ Len(key) > 0
  <2>1. CASE key \in {<<n>> : n \in OutputNames}
    <3>1. PICK n \in OutputNames : key = <<n>>
      BY <2>1
    <3>2. n \in T
      OBVIOUS
    <3> QED
      BY <3>1, <3>2
  <2>2. CASE key \in StoreSessions \X OutputNames
    <3>1. PICK t \in StoreSessions, n \in OutputNames : key = <<t, n>>
      BY <2>2
    <3> QED
      BY <3>1
  <2> QED
    BY <2>1, <2>2 DEF OutputKeys
<1>4. <<s>> \in Seq(T) /\ Len(<<s>>) = 1 /\ <<s>>[1] = s
  OBVIOUS
<1> HIDE DEF T
<1>5. Len(<<s>> \o key) = 1 + Len(key) /\ (<<s>> \o key)[1] = <<s>>[1]
  BY <1>3, <1>4, ConcatProperties
<1>6. Len(key) \in Nat
  BY <1>3, LenProperties
<1> QED
  BY <1>2, <1>3, <1>4, <1>5, <1>6

LEMMA NoOutputIs == NoOutput.save = Absent /\ NoOutput.scope = "_global"
  BY DEF NoOutput

LEMMA OutputStart == OutputInit => OutputInv
<1> SUFFICES ASSUME OutputInit PROVE OutputInv
  OBVIOUS
<1>1. DiskOK
  BY DEF OutputInit, DiskOK, Absent
<1>2. \A k \in FullKeys : outputs[k].save = Absent /\ outputs[k].scope = "_global"
  BY NoOutputIs DEF OutputInit
<1>3. \A k \in FullKeys : EntryOK(k)
  BY <1>2 DEF EntryOK, OutputInit, Absent
<1>4. outputs = [k \in FullKeys |-> outputs[k]]
  BY DEF OutputInit
<1> QED
  BY <1>1, <1>2, <1>3, <1>4 DEF OutputInv, FilesOK

\* An entry that is stored: its file is written, or it has none.
LEMMA SaveHolds ==
  ASSUME OutputInv, NEW s \in Scopes, NEW key \in OutputKeys, NEW managed \in BOOLEAN,
         NEW p, p = FileOf[<<s, key>>], saves' = saves + 1,
         onDisk' = IF managed THEN [onDisk EXCEPT ![p] = saves'] ELSE onDisk,
         refused' = IF managed THEN refused \ {p} ELSE refused,
         NEW k, k = FullKey(s, key),
         NEW o, o.save = saves', o.scope = s, o.managed = managed, o.path = p,
         outputs' = [outputs EXCEPT ![k] = o]
  PROVE  OutputInv'
<1>1. p \in Paths /\ k \in FullKeys /\ StoredAt(k, s, p)
  BY PathParts DEF StoredAt
<1>2. saves' \in Nat /\ saves' # Absent /\ saves \in Nat /\ saves < saves'
  BY DEF OutputInv, DiskOK, Absent
<1>3. /\ outputs'[k] = o /\ \A l \in FullKeys : l # k => outputs'[l] = outputs[l]
      /\ outputs' = [l \in FullKeys |-> outputs'[l]]
  BY <1>1 DEF OutputInv
<1>4. DiskOK'
  BY <1>1, <1>2 DEF OutputInv, DiskOK
<1>5. /\ managed => onDisk'[p] = saves'
      /\ \A q \in Paths : q # p => onDisk'[q] = onDisk[q] /\ (q \in refused' <=> q \in refused)
      /\ ~managed => onDisk' = onDisk /\ refused' = refused
  BY <1>1 DEF OutputInv, DiskOK
<1>6. ASSUME NEW l \in FullKeys PROVE EntryOK(l)'
  <2>1. CASE l = k
    BY <1>1, <1>2, <1>3, <2>1 DEF EntryOK
  <2>2. CASE l # k
    <3>1. EntryOK(l) /\ outputs'[l] = outputs[l]
      BY <1>3, <2>2 DEF OutputInv
    <3> QED
      BY <1>2, <3>1 DEF EntryOK
  <2> QED
    BY <2>1, <2>2
<1>7. ASSUME NEW l \in FullKeys, outputs'[l].save # Absent, outputs'[l].managed
      PROVE  FileOK(outputs[l].save, outputs[l].path)'
  <2>1. CASE l = k
    BY <1>3, <1>5, <1>7, <2>1 DEF FileOK
  <2>2. CASE l # k
    <3>1. outputs'[l] = outputs[l]
      BY <1>3, <2>2
    <3>2. EntryOK(l) /\ FileOK(outputs[l].save, outputs[l].path)
      BY <1>7, <3>1 DEF OutputInv, FilesOK
    <3>3. PICK save, q, t : /\ t \in Scopes /\ save = outputs[l].save /\ q = outputs[l].path
                            /\ save \in Nat /\ save <= saves /\ StoredAt(l, t, q)
      BY <1>7, <3>1, <3>2 DEF EntryOK
    <3>4. q \in Paths
      BY <3>3, PathParts DEF StoredAt
    <3>5. FileOK(save, q)'
      <4>1. CASE q # p \/ ~managed
        BY <1>5, <3>2, <3>3, <3>4, <4>1 DEF FileOK
      <4>2. CASE q = p /\ managed
        <5>1. Shared(p)
          BY <1>1, <2>2, <3>3, <4>2, OwnFileIs
        <5>2. onDisk'[p] > save
          BY <1>2, <1>5, <3>3, <4>2
        <5> QED
          BY <4>2, <5>1, <5>2 DEF FileOK
      <4> QED
        BY <4>1, <4>2
    <3> QED
      BY <3>1, <3>3, <3>5
  <2> QED
    BY <2>1, <2>2
<1>8. FilesOK'
  BY <1>7 DEF FilesOK
<1> QED
  BY <1>3, <1>4, <1>6, <1>8 DEF OutputInv

LEMMA SaveFailsHolds ==
  ASSUME OutputInv, NEW s \in Scopes, NEW key \in OutputKeys, SaveFails(s, key)
  PROVE  OutputInv'
<1> DEFINE p == FileOf[<<s, key>>]
<1>1. p \in Paths /\ saves \in Nat /\ onDisk \in [Paths -> Int] /\ \A q \in Paths : onDisk[q] <= saves
  BY PathParts DEF OutputInv, DiskOK
<1>2. /\ \E held \in {Garbled, onDisk[p]} : onDisk' = [onDisk EXCEPT ![p] = held]
      /\ refused' = refused \cup {p} /\ saves' = saves + 1 /\ outputs' = outputs
  BY DEF SaveFails
<1> HIDE DEF p
<1>3. /\ DiskOK' /\ saves \in Nat /\ saves <= saves'
      /\ \A q \in Paths : q # p => onDisk'[q] = onDisk[q]
  <2>1. PICK held \in {Garbled, onDisk[p]} : onDisk' = [onDisk EXCEPT ![p] = held]
    BY <1>2
  <2>2. held \in Int /\ held <= saves /\ onDisk[p] <= saves
    BY <1>1, <2>1 DEF Garbled
  <2> QED
    BY <1>1, <1>2, <2>1, <2>2 DEF DiskOK
<1>4. ASSUME NEW k \in FullKeys PROVE EntryOK(k)'
  <2>1. EntryOK(k)
    BY DEF OutputInv
  <2> QED
    BY <1>2, <1>3, <2>1 DEF EntryOK
<1>5. ASSUME NEW k \in FullKeys, outputs[k].save # Absent, outputs[k].managed
      PROVE  FileOK(outputs[k].save, outputs[k].path)'
  <2>1. PICK save, q, t : /\ t \in Scopes /\ save = outputs[k].save /\ q = outputs[k].path
                          /\ FileOK(save, q) /\ StoredAt(k, t, q)
    BY <1>5 DEF OutputInv, EntryOK, FilesOK
  <2>2. q \in Paths
    BY <2>1, PathParts DEF StoredAt
  <2>3. FileOK(save, q)'
    BY <1>2, <1>3, <2>1, <2>2 DEF FileOK
  <2> QED
    BY <1>2, <2>1, <2>3
<1>6. FilesOK'
  BY <1>2, <1>5 DEF FilesOK
<1>7. outputs' = [k \in FullKeys |-> outputs'[k]]
  BY <1>2 DEF OutputInv
<1> QED
  BY <1>3, <1>4, <1>6, <1>7 DEF OutputInv

LEMMA CleanupHolds ==
  ASSUME OutputInv, NEW store \in StoreKinds, NEW s \in StoreSessions, CleanupOutputs(store, s)
  PROVE  OutputInv'
<1> DEFINE theirs == {p \in Paths : \/ p[1] = s
                                    \/ \E k \in Forgotten(s) : outputs[k].managed /\ outputs[k].path = p}
<1>1. /\ outputs' = [k \in FullKeys |-> IF k \in Forgotten(s) THEN NoOutput ELSE outputs[k]]
      /\ saves' = saves /\ refused' = refused
  BY DEF CleanupOutputs
<1>2. /\ DiskOK' /\ \A p \in Paths : onDisk'[p] \in {onDisk[p], Absent}
      /\ \A p \in Paths : p \notin theirs => onDisk'[p] = onDisk[p]
  <2>1. CASE onDisk' = onDisk
    BY <1>1, <2>1 DEF OutputInv, DiskOK
  <2>2. ASSUME NEW gone \in SUBSET theirs,
               onDisk' = [p \in Paths |-> IF p \in gone THEN Absent ELSE onDisk[p]]
        PROVE  /\ DiskOK' /\ \A p \in Paths : onDisk'[p] \in {onDisk[p], Absent}
               /\ \A p \in Paths : p \notin theirs => onDisk'[p] = onDisk[p]
    <3> HIDE DEF theirs
    <3> QED
      BY <1>1, <2>2 DEF OutputInv, DiskOK, Absent
  <2> QED
    BY <2>1, <2>2 DEF CleanupOutputs
<1>3. ASSUME NEW k \in FullKeys, k \notin Forgotten(s), outputs[k].save # Absent, ~Shared(outputs[k].path)
      PROVE  outputs[k].path \in Paths /\ outputs[k].path \notin theirs
  <2>1. PICK p, t : t \in Scopes /\ p = outputs[k].path /\ StoredAt(k, t, p)
    BY <1>3 DEF OutputInv, EntryOK
  <2>2. p \in Paths
    BY <2>1, PathParts DEF StoredAt
  <2>3. p[1] = t
    BY <1>3, <2>1, OwnFileIs
  <2>4. t # s
    <3> SUFFICES ASSUME t = s PROVE FALSE
      OBVIOUS
    <3>1. OfSession(k, s)
      BY <2>1, KeyOfSession DEF OfSession, StoredAt
    <3> QED
      BY <1>3, <3>1 DEF Forgotten
  <2>5. ASSUME NEW l \in Forgotten(s), outputs[l].path = p PROVE FALSE
    <3>1. l \in FullKeys /\ outputs[l].save # Absent
      BY <2>5 DEF Forgotten
    <3>2. outputs[l].scope \in Scopes /\ StoredAt(l, outputs[l].scope, p)
      BY <2>5, <3>1 DEF OutputInv, EntryOK
    <3>3. l = k
      BY <1>3, <2>1, <3>2, OwnFileIs
    <3> QED
      BY <1>3, <2>5, <3>3
  <2> QED
    BY <2>1, <2>2, <2>3, <2>4, <2>5
<1> HIDE DEF theirs
<1>4. \A k \in FullKeys : outputs'[k] = outputs[k] \/ (outputs'[k].save = Absent /\ outputs'[k].scope = "_global")
  BY <1>1, NoOutputIs
<1>5. ASSUME NEW k \in FullKeys PROVE EntryOK(k)'
  <2>1. EntryOK(k) /\ saves \in Nat
    BY DEF OutputInv, DiskOK
  <2>2. CASE outputs'[k] = outputs[k]
    BY <1>1, <2>1, <2>2 DEF EntryOK
  <2>3. CASE outputs'[k].save = Absent /\ outputs'[k].scope = "_global"
    BY <1>1, <2>1, <2>3 DEF EntryOK, Absent
  <2> QED
    BY <1>4, <2>2, <2>3
<1>6. ASSUME NEW k \in FullKeys, outputs'[k].save # Absent, outputs'[k].managed
      PROVE  FileOK(outputs[k].save, outputs[k].path)'
  <2>1. k \notin Forgotten(s) /\ outputs'[k] = outputs[k]
    BY <1>1, <1>6, NoOutputIs
  <2>2. PICK save, q, t : /\ t \in Scopes /\ save = outputs[k].save /\ q = outputs[k].path
                          /\ FileOK(save, q) /\ StoredAt(k, t, q)
    BY <1>6, <2>1 DEF OutputInv, EntryOK, FilesOK
  <2>3. q \in Paths
    BY <2>2, PathParts DEF StoredAt
  <2>4. FileOK(save, q)'
    <3>1. CASE Shared(q)
      <4>1. onDisk'[q] = onDisk[q] \/ onDisk'[q] = Absent
        BY <1>2, <2>3
      <4> QED
        BY <1>1, <2>2, <3>1, <4>1 DEF FileOK
    <3>2. CASE ~Shared(q)
      <4>1. onDisk'[q] = onDisk[q]
        BY <1>2, <1>3, <1>6, <2>1, <2>2, <3>2
      <4> QED
        BY <1>1, <2>2, <4>1 DEF FileOK
    <3> QED
      BY <3>1, <3>2
  <2> QED
    BY <2>1, <2>2, <2>4
<1>7. FilesOK'
  BY <1>6 DEF FilesOK
<1>8. outputs' = [k \in FullKeys |-> outputs'[k]]
  BY <1>1
<1> QED
  BY <1>2, <1>5, <1>7, <1>8 DEF OutputInv

LEMMA OutputStep == OutputInv /\ [OutputNext]_outputVars => OutputInv'
<1> SUFFICES ASSUME OutputInv, [OutputNext]_outputVars PROVE OutputInv'
  OBVIOUS
<1>1. CASE UNCHANGED outputVars
  BY <1>1 DEF outputVars, OutputInv, DiskOK, EntryOK, FilesOK, FileOK
<1>2. ASSUME NEW s \in Scopes, NEW key \in OutputKeys, NEW store \in StoreKinds, NEW content,
             SaveOutput(store, s, key, content)
      PROVE  OutputInv'
  <2> DEFINE managed == Truncated(content) /\ store = "disk"
             p == FileOf[<<s, key>>]
             k == FullKey(s, key)
             o == [save |-> saves', scope |-> s, managed |-> managed, path |-> p]
  <2>1. /\ saves' = saves + 1
        /\ onDisk' = IF managed THEN [onDisk EXCEPT ![p] = saves'] ELSE onDisk
        /\ refused' = IF managed THEN refused \ {p} ELSE refused
        /\ outputs' = [outputs EXCEPT ![k] = o]
    BY <1>2 DEF SaveOutput
  <2>2. o.save = saves' /\ o.scope = s /\ o.managed = managed /\ o.path = p /\ managed \in BOOLEAN
    OBVIOUS
  <2>3. p = FileOf[<<s, key>>] /\ k = FullKey(s, key)
    OBVIOUS
  <2> HIDE DEF managed, p, k, o
  <2> QED
    BY <2>1, <2>2, <2>3, SaveHolds
<1>3. ASSUME NEW s \in Scopes, NEW key \in OutputKeys, SaveFails(s, key) PROVE OutputInv'
  BY <1>3, SaveFailsHolds
<1>4. ASSUME NEW store \in StoreKinds, NEW s \in StoreSessions, CleanupOutputs(store, s) PROVE OutputInv'
  BY <1>4, CleanupHolds
<1>5. CASE ClearOutputs
  <2>1. outputs' = [k \in FullKeys |-> NoOutput] /\ onDisk' = onDisk /\ saves' = saves
    BY <1>5 DEF ClearOutputs
  <2>2. \A k \in FullKeys : outputs'[k].save = Absent /\ outputs'[k].scope = "_global"
    BY <2>1, NoOutputIs
  <2>3. DiskOK' /\ saves \in Nat
    BY <2>1 DEF OutputInv, DiskOK
  <2>4. \A k \in FullKeys : EntryOK(k)'
    BY <2>1, <2>2, <2>3 DEF EntryOK, Absent
  <2>5. outputs' = [k \in FullKeys |-> outputs'[k]]
    BY <2>1
  <2>6. FilesOK'
    BY <2>2 DEF FilesOK
  <2> QED
    BY <2>3, <2>4, <2>5, <2>6 DEF OutputInv
<1> QED
  BY <1>1, <1>2, <1>3, <1>4, <1>5 DEF OutputNext

LEMMA OutputsApart == OutputInv => SessionsAreApart
<1> SUFFICES ASSUME OutputInv, NEW s \in StoreSessions, NEW n \in OutputNames
             PROVE  Found(s, <<n>>).scope \in {s, "_global"}
  BY DEF SessionsAreApart
<1>1. <<n>> \in OutputKeys /\ s \in Scopes /\ "_global" \in Scopes
  BY DEF OutputKeys, Scopes
<1>2. FullKey(s, <<n>>) \in FullKeys /\ <<n>> \in FullKeys
  <2>1. FullKey("_global", <<n>>) = <<n>>
    BY DEF FullKey
  <2> QED
    BY <1>1, <2>1 DEF FullKeys
<1>3. ASSUME NEW k \in FullKeys, NEW t \in StoreSessions, outputs[k].scope = t
      PROVE  k[1] = t /\ Len(k) > 1
  <2>1. outputs[k].save # Absent /\ EntryOK(k)
    BY <1>3, OutputAssumption DEF OutputInv, EntryOK
  <2>2. StoredAt(k, t, outputs[k].path)
    BY <1>3, <2>1 DEF EntryOK
  <2> QED
    BY <2>2, KeyOfSession DEF StoredAt
<1>4. \A k \in FullKeys : outputs[k].scope \in StoreSessions \/ outputs[k].scope = "_global"
  <2>1. \A k \in FullKeys : outputs[k].scope \in Scopes \/ outputs[k].scope = "_global"
    BY DEF OutputInv, EntryOK
  <2> QED
    BY <2>1 DEF Scopes
<1>5. FullKey(s, <<n>>)[1] = s /\ ~(Len(<<n>>) > 1)
  <2>1. FullKey(s, <<n>>)[1] = s
    BY <1>1, KeyOfSession
  <2> QED
    BY <2>1
<1>6. outputs[FullKey(s, <<n>>)].scope \in {s, "_global"}
  BY <1>2, <1>3, <1>4, <1>5
<1>7. outputs[<<n>>].scope = "_global"
  BY <1>2, <1>3, <1>4, <1>5
<1> QED
  BY <1>6, <1>7 DEF Found

(***************************************************************************)
(* The file that an entry names holds its output until a later output      *)
(* cannot be written there, never an earlier one even where keys lead to   *)
(* files of others, and a session is not given the output of another, for  *)
(* any number of sessions, names and saves and any way keys are resolved.  *)
(***************************************************************************)
THEOREM OutputsHold == OutputSpec => [](FilesHoldOutputs /\ SessionsAreApart)
<1>1. OutputSpec => []OutputInv
  BY OutputStart, OutputStep, PTL DEF OutputSpec
<1> QED
  BY <1>1, FilesFromInv, OutputsApart, PTL

(***************************************************************************)
(* Previews: the first lines and, of those, the first bytes.               *)
(***************************************************************************)

\* The bytes of the characters.
Sizes(s) == [i \in DOMAIN s |-> IF s[i] = 0 THEN 1 ELSE s[i]]

LEMMA SizesTyped ==
  ASSUME NEW s \in Seq(0 .. 3)
  PROVE  /\ Sizes(s) \in Seq(Nat) /\ Len(Sizes(s)) = Len(s) /\ Len(s) \in Nat /\ DOMAIN s = 1 .. Len(s)
         /\ \A i \in 1 .. Len(s) : /\ Sizes(s)[i] = IF s[i] = 0 THEN 1 ELSE s[i]
                                   /\ Sizes(s)[i] \in 1 .. 3
         /\ BytesOf(s) = SumsOf(Sizes(s))[Len(s)]
<1> DEFINE n == Len(s)
           z == Sizes(s)
<1>1. n \in Nat /\ DOMAIN s = 1 .. n /\ \A i \in 1 .. n : s[i] \in 0 .. 3
  BY LenProperties, ElementOfSeq
<1>2. z = [i \in 1 .. n |-> IF s[i] = 0 THEN 1 ELSE s[i]]
  BY <1>1 DEF Sizes
<1>3. BytesOf(s) = SumOf(z)
  BY DEF BytesOf, Sizes
<1> HIDE DEF n, z
<1>4. \A i \in 1 .. n : z[i] = IF s[i] = 0 THEN 1 ELSE s[i]
  BY <1>2
<1>5. \A i \in 1 .. n : z[i] \in 1 .. 3 /\ z[i] \in Nat
  BY <1>1, <1>4
<1>6. z \in [1 .. n -> Nat]
  BY <1>2, <1>5
<1>7. z \in Seq(Nat) /\ Len(z) = n
  <2>1. z \in Seq(Nat) /\ DOMAIN z = 1 .. n
    BY <1>1, <1>6, SeqDef
  <2> QED
    BY <1>1, <2>1, LenProperties
<1>8. BytesOf(s) = SumsOf(z)[n]
  BY <1>3, <1>7 DEF SumOf
<1> QED
  BY <1>1, <1>4, <1>5, <1>7, <1>8 DEF n, z

\* Every character adds one byte at least and three at most.
LEMMA BytesRise ==
  ASSUME NEW s \in Seq(0 .. 3)
  PROVE  LET sums == SumsOf(Sizes(s)) IN
         /\ sums[0] = 0 /\ \A k \in 0 .. Len(s) : sums[k] \in Nat
         /\ \A k \in 1 .. Len(s) : sums[k] = sums[k - 1] + Sizes(s)[k]
         /\ \A j, k \in 0 .. Len(s) : j <= k => sums[j] <= sums[k]
<1> DEFINE n == Len(s)
           z == Sizes(s)
           g == SumsOf(Sizes(s))
<1>1. z \in Seq(Nat) /\ Len(z) = n /\ n \in Nat /\ \A i \in 1 .. n : z[i] \in Nat
  BY SizesTyped, ElementOfSeq
<1>2. g[0] = 0 /\ \A k \in 1 .. n : g[k] = g[k - 1] + z[k]
  BY <1>1, SumsStep
<1>3. \A k \in 0 .. n : g[k] \in Nat
  BY <1>1, SumsAreNat
<1> HIDE DEF g, n, z
<1>4. ASSUME NEW j \in 0 .. n, NEW k \in 0 .. n, j <= k PROVE g[j] <= g[k]
  <2>1. j \in 0 .. Len(z) /\ k \in 0 .. Len(z)
    BY <1>1
  <2> QED
    BY <1>1, <1>4, <2>1, SumsRise DEF g, z
<1>5. \A j, k \in 0 .. n : j <= k => g[j] <= g[k]
  BY <1>4
<1> QED
  BY <1>2, <1>3, <1>5 DEF g, n, z

\* The first characters.
LEMMA FirstOnes ==
  ASSUME NEW s \in Seq(0 .. 3), NEW k \in 0 .. Len(s)
  PROVE  LET t == SubSeq(s, 1, k) IN
         /\ t \in Seq(0 .. 3) /\ Len(t) = k /\ \A i \in 1 .. k : t[i] = s[i]
         /\ BytesOf(t) = SumsOf(Sizes(s))[k]
<1> DEFINE t == SubSeq(s, 1, k)
           n == Len(s)
<1>1. n \in Nat /\ k \in Nat /\ k <= n /\ 1 \in Int /\ k \in Int
  BY LenProperties
<1>2. \A i \in 1 .. k : s[i] \in 0 .. 3
  <2>1. \A i \in 1 .. k : i \in 1 .. n
    BY <1>1
  <2> QED
    BY <2>1, ElementOfSeq
<1>3. t \in Seq(0 .. 3) /\ Len(t) = k /\ \A i \in 1 .. k : t[i] = s[i]
  <2>1. /\ t \in Seq(0 .. 3) /\ Len(t) = (IF 1 <= k THEN k - 1 + 1 ELSE 0)
        /\ \A i \in 1 .. k - 1 + 1 : t[i] = s[1 + i - 1]
    BY <1>1, <1>2, SubSeqProperties
  <2>2. k - 1 + 1 = k /\ (IF 1 <= k THEN k - 1 + 1 ELSE 0) = k /\ \A i \in 1 .. k : 1 + i - 1 = i
    BY <1>1
  <2> HIDE DEF t
  <2> QED
    BY <2>1, <2>2
<1> HIDE DEF t
<1> DEFINE y == Sizes(t)
           z == Sizes(s)
<1>4. /\ y \in Seq(Nat) /\ Len(y) = k /\ BytesOf(t) = SumsOf(y)[k]
      /\ \A i \in 1 .. k : y[i] = IF t[i] = 0 THEN 1 ELSE t[i]
  BY <1>3, SizesTyped
<1>5. z \in Seq(Nat) /\ Len(z) = n /\ \A i \in 1 .. n : z[i] = IF s[i] = 0 THEN 1 ELSE s[i]
  BY SizesTyped
<1>6. SumsOf(z)[0] = 0 /\ \A i \in 0 .. n : SumsOf(z)[i] \in Nat
  BY BytesRise
<1> HIDE DEF y, z, n
<1>7. \A i \in 1 .. Len(y) : y[i] = z[0 + i]
  <2>1. \A i \in 1 .. k : i \in 1 .. n /\ 0 + i = i
    BY <1>1
  <2> QED
    BY <1>3, <1>4, <1>5, <2>1
<1>8. SumsOf(y)[k] = SumsOf(z)[0 + k] - SumsOf(z)[0]
  <2>1. 0 + Len(y) <= Len(z) /\ k \in 0 .. Len(y)
    BY <1>1, <1>4, <1>5
  <2> QED
    BY <1>4, <1>5, <1>7, <2>1, SumsOfPart
<1>9. SumsOf(y)[k] = SumsOf(z)[k]
  <2>1. 0 + k = k /\ k \in 0 .. n
    BY <1>1
  <2>2. SumsOf(z)[k] \in Nat
    BY <1>6, <2>1
  <2> QED
    BY <1>6, <1>8, <2>1, <2>2
<1> QED
  BY <1>3, <1>4, <1>9 DEF t, z

\* Where the first bytes end.
LEMMA CutFound ==
  ASSUME NEW s \in Seq(0 .. 3), NEW L \in Nat
  PROVE  \E k \in 0 .. Len(s) : /\ BytesOf(SubSeq(s, 1, k)) <= L
                                /\ k < Len(s) => BytesOf(SubSeq(s, 1, k + 1)) > L
<1> DEFINE n == Len(s)
           g == SumsOf(Sizes(s))
           S == {k \in Nat : k <= n => g[k] <= L}
<1>1. n \in Nat
  BY LenProperties
<1>2. g[0] = 0 /\ \A k \in 0 .. n : g[k] \in Nat
  BY BytesRise
<1>3. \A k \in 0 .. n : BytesOf(SubSeq(s, 1, k)) = g[k]
  BY FirstOnes
<1> SUFFICES ASSUME \A k \in 0 .. n : ~(g[k] <= L /\ (k < n => g[k + 1] > L))
             PROVE  FALSE
  <2>1. \A k \in 0 .. n : k < n => k + 1 \in 0 .. n
    BY <1>1
  <2> HIDE DEF g
  <2> QED
    BY <1>3, <2>1
<1> HIDE DEF n, g
<1>4. 0 \in S
  BY <1>2
<1>5. ASSUME NEW k \in Nat, k \in S PROVE k + 1 \in S
  <2> SUFFICES ASSUME k + 1 <= n PROVE g[k + 1] <= L
    OBVIOUS
  <2>1. k \in 0 .. n /\ k < n /\ k <= n /\ k + 1 \in 0 .. n
    BY <1>1
  <2>2. g[k] <= L
    BY <1>5, <2>1
  <2>3. g[k + 1] \in Nat
    BY <1>2, <2>1
  <2>4. ~(g[k + 1] > L)
    BY <2>1, <2>2
  <2> QED
    BY <2>3, <2>4
<1>6. n \in S
  <2> HIDE DEF S
  <2> QED
    BY <1>1, <1>4, <1>5, StepsReach
<1>7. n \in 0 .. n /\ ~(n < n) /\ n <= n
  BY <1>1
<1>8. g[n] <= L
  BY <1>6, <1>7
<1> HIDE DEF S
<1> QED
  BY <1>7, <1>8

\* The first bytes of a text.
LEMMA FirstBytesAre ==
  ASSUME NEW s \in Seq(0 .. 3)
  PROVE  \E k \in 0 .. Len(s) :
           LET whole == SubSeq(s, 1, k) IN
           /\ BytesOf(whole) <= MaxBytes
           /\ k < Len(s) => BytesOf(SubSeq(s, 1, k + 1)) > MaxBytes
           /\ FirstBytes(s) = IF k < Len(s) /\ BytesOf(whole) < MaxBytes THEN Append(whole, 3) ELSE whole
<1> DEFINE C(k) == /\ BytesOf(SubSeq(s, 1, k)) <= MaxBytes
                   /\ k < Len(s) => BytesOf(SubSeq(s, 1, k + 1)) > MaxBytes
           c == CHOOSE k \in 0 .. Len(s) : C(k)
<1>1. MaxBytes \in Nat
  BY OutputAssumption
<1>2. \E k \in 0 .. Len(s) : C(k)
  BY <1>1, CutFound
<1>3. FirstBytes(s) = IF c < Len(s) /\ BytesOf(SubSeq(s, 1, c)) < MaxBytes
                      THEN Append(SubSeq(s, 1, c), 3) ELSE SubSeq(s, 1, c)
  BY DEF FirstBytes
<1> HIDE DEF C
<1>4. c \in 0 .. Len(s) /\ C(c)
  BY <1>2
<1> HIDE DEF c
<1> QED
  BY <1>3, <1>4 DEF C

\* The line feeds of a text, and the one that ends a line.
LEMMA FeedsCount ==
  ASSUME NEW s \in Seq(0 .. 3)
  PROVE  /\ Feeds(s) \in SUBSET (1 .. Len(s)) /\ IsFiniteSet(Feeds(s))
         /\ Cardinality(Feeds(s)) \in Nat /\ LinesOf(s) = 1 + Cardinality(Feeds(s))
<1> DEFINE n == Len(s)
<1>1. n \in Nat /\ DOMAIN s = 1 .. n
  BY LenProperties
<1>2. Feeds(s) \in SUBSET (1 .. n)
  BY <1>1 DEF Feeds
<1>3. IsFiniteSet(Feeds(s)) /\ Cardinality(Feeds(s)) \in Nat
  BY <1>1, <1>2, RanksNumber
<1> QED
  BY <1>2, <1>3 DEF LinesOf

LEMMA LineEnds ==
  ASSUME NEW s \in Seq(0 .. 3), LinesOf(s) > MaxLines
  PROVE  LET e == LineEnd(MaxLines, s) IN
         e \in 1 .. Len(s) /\ e \in Feeds(s) /\ Cardinality({j \in Feeds(s) : j <= e}) = MaxLines
<1> DEFINE W == Feeds(s)
           n == Len(s)
           e == LineEnd(MaxLines, s)
<1>1. n \in Nat /\ MaxLines \in Nat \ {0}
  BY LenProperties, OutputAssumption
<1>2. W \in SUBSET (1 .. n) /\ Cardinality(W) \in Nat /\ LinesOf(s) = 1 + Cardinality(W)
  BY FeedsCount
<1>3. MaxLines \in 1 .. Cardinality(W)
  BY <1>1, <1>2
<1>4. e = CHOOSE i \in W : RankIn(W, i) = MaxLines
  BY DEF LineEnd, RankIn
<1> HIDE DEF W, n, e
<1>5. \E i \in W : RankIn(W, i) = MaxLines
  BY <1>1, <1>2, <1>3, RanksNumber
<1>6. e \in W /\ RankIn(W, e) = MaxLines
  BY <1>4, <1>5
<1>7. e \in 1 .. n
  BY <1>2, <1>6
<1> QED
  BY <1>6, <1>7 DEF RankIn, W, n, e

\* The first lines begin a text, are few, and are less than a text of more.
LEMMA FirstLinesAre ==
  ASSUME NEW s \in Seq(0 .. 3)
  PROVE  LET f == FirstLines(s) IN
         /\ f \in Seq(0 .. 3) /\ Len(f) \in 0 .. Len(s) /\ \A i \in 1 .. Len(f) : f[i] = s[i]
         /\ Cardinality({j \in Feeds(s) : j <= Len(f)}) < MaxLines
         /\ LinesOf(s) > MaxLines => Len(f) < Len(s)
         /\ ~(LinesOf(s) > MaxLines) => f = s
<1> DEFINE f == FirstLines(s)
           n == Len(s)
           W == Feeds(s)
<1>1. n \in Nat /\ MaxLines \in Nat \ {0}
  BY LenProperties, OutputAssumption
<1>2. W \in SUBSET (1 .. n) /\ Cardinality(W) \in Nat /\ LinesOf(s) = 1 + Cardinality(W) /\ IsFiniteSet(W)
  BY FeedsCount
<1>3. CASE LinesOf(s) > MaxLines
  <2> DEFINE e == LineEnd(MaxLines, s)
             U == {j \in W : j <= e}
  <2>1. e \in 1 .. n /\ e \in W /\ Cardinality(U) = MaxLines
    BY <1>3, LineEnds
  <2>2. e - 1 \in 0 .. n /\ e - 1 < n
    BY <1>1, <2>1
  <2>3. f = SubSeq(s, 1, e - 1)
    BY <1>3 DEF FirstLines
  <2> HIDE DEF e
  <2>4. f \in Seq(0 .. 3) /\ Len(f) = e - 1 /\ \A i \in 1 .. e - 1 : f[i] = s[i]
    BY <2>2, <2>3, FirstOnes
  <2> DEFINE V == {j \in W : j <= e - 1}
  <2>5. V = U \ {e} /\ e \in U /\ V \subseteq W /\ U \subseteq W
    <3>1. \A j \in W : j \in 1 .. n
      BY <1>2
    <3>2. \A j \in W : j <= e - 1 <=> j <= e /\ j # e
      BY <1>1, <2>1, <3>1
    <3>3. e <= e
      BY <1>1, <2>1
    <3> QED
      BY <2>1, <3>2, <3>3
  <2> HIDE DEF U, V
  <2>6. IsFiniteSet(U) /\ IsFiniteSet(V)
    BY <1>2, <2>5, FS_Subset
  <2>7. Cardinality(V) = Cardinality(U) - 1
    BY <2>5, <2>6, FS_RemoveElement
  <2>8. Cardinality(V) < MaxLines
    BY <1>1, <2>1, <2>7
  <2>9. Cardinality({j \in W : j <= Len(f)}) < MaxLines
    BY <2>4, <2>8 DEF V
  <2> HIDE DEF f, W, n
  <2>10. Len(f) \in 0 .. n /\ Len(f) < n /\ \A i \in 1 .. Len(f) : f[i] = s[i]
    BY <2>2, <2>4
  <2> QED
    BY <1>3, <2>4, <2>9, <2>10 DEF f, W, n
<1>4. CASE ~(LinesOf(s) > MaxLines)
  <2>1. f = s
    BY <1>4 DEF FirstLines
  <2> HIDE DEF f
  <2>2. {j \in W : j <= Len(f)} = W
    <3>1. \A j \in W : j \in 1 .. n
      BY <1>2
    <3>2. \A j \in W : j <= n
      BY <3>1
    <3> QED
      BY <2>1, <3>2
  <2> HIDE DEF W, n
  <2>3. Cardinality(W) < MaxLines /\ n \in 0 .. n
    BY <1>1, <1>2, <1>4
  <2> QED
    BY <1>4, <2>1, <2>2, <2>3 DEF f, W, n
<1> QED
  BY <1>3, <1>4

\* A preview begins like its text and may have a character more.
LEMMA PreviewIs ==
  ASSUME NEW s \in Seq(0 .. 3)
  PROVE  LET f == FirstLines(s)
             p == Preview(s) IN
         \E k \in 0 .. Len(f) :
           LET cut == k < Len(f) /\ BytesOf(SubSeq(f, 1, k)) < MaxBytes IN
           /\ p \in Seq(0 .. 3) /\ Len(p) = IF cut THEN k + 1 ELSE k
           /\ \A i \in 1 .. k : p[i] = s[i]
           /\ cut => p[k + 1] = 3
           /\ BytesOf(SubSeq(f, 1, k)) <= MaxBytes /\ BytesOf(SubSeq(f, 1, k)) = SumsOf(Sizes(f))[k]
           /\ k < Len(f) => SumsOf(Sizes(f))[k + 1] > MaxBytes
           /\ BytesOf(p) <= MaxBytes + 2
<1> DEFINE f == FirstLines(s)
           p == Preview(s)
           n == Len(f)
<1>1. f \in Seq(0 .. 3) /\ n \in Nat /\ n <= Len(s) /\ \A i \in 1 .. n : f[i] = s[i]
  <2>1. f \in Seq(0 .. 3) /\ n \in 0 .. Len(s) /\ \A i \in 1 .. n : f[i] = s[i]
    BY FirstLinesAre
  <2>2. Len(s) \in Nat
    BY LenProperties
  <2> HIDE DEF f, n
  <2> QED
    BY <2>1, <2>2
<1>2. p = FirstBytes(f)
  BY DEF Preview
<1>3. MaxBytes \in Nat
  BY OutputAssumption
<1> HIDE DEF f, p
<1>4. PICK k \in 0 .. n : /\ BytesOf(SubSeq(f, 1, k)) <= MaxBytes
                          /\ k < n => BytesOf(SubSeq(f, 1, k + 1)) > MaxBytes
                          /\ p = IF k < n /\ BytesOf(SubSeq(f, 1, k)) < MaxBytes
                                 THEN Append(SubSeq(f, 1, k), 3) ELSE SubSeq(f, 1, k)
  BY <1>1, <1>2, FirstBytesAre
<1> DEFINE w == SubSeq(f, 1, k)
           cut == k < n /\ BytesOf(w) < MaxBytes
<1>5. w \in Seq(0 .. 3) /\ Len(w) = k /\ (\A i \in 1 .. k : w[i] = f[i]) /\ BytesOf(w) = SumsOf(Sizes(f))[k]
  BY <1>1, FirstOnes
<1>6. k < n => SumsOf(Sizes(f))[k + 1] > MaxBytes
  <2>1. k < n => k + 1 \in 0 .. n
    BY <1>1
  <2> QED
    BY <1>1, <1>4, <2>1, FirstOnes
<1>7. p = IF cut THEN Append(w, 3) ELSE w
  BY <1>4
<1>8. BytesOf(w) <= MaxBytes
  BY <1>4
<1>9. BytesOf(w) \in Nat
  BY <1>1, <1>5, BytesRise
<1>10. cut <=> k < n /\ BytesOf(w) < MaxBytes
  OBVIOUS
<1> HIDE DEF w, cut, n
<1>11. \A i \in 1 .. k : w[i] = s[i]
  <2>1. \A i \in 1 .. k : i \in 1 .. n
    BY <1>1
  <2> QED
    BY <1>1, <1>5, <2>1
<1>12. CASE cut
  <2>0. 3 \in 0 .. 3 /\ k \in Nat
    BY <1>1
  <2>1. p = Append(w, 3)
    BY <1>7, <1>12
  <2>2. p \in Seq(0 .. 3) /\ Len(p) = k + 1 /\ p[k + 1] = 3 /\ \A i \in 1 .. k : p[i] = w[i]
    BY <1>5, <2>0, <2>1, AppendProperties
  <2>3. SubSeq(p, 1, k) = w /\ BytesOf(SubSeq(p, 1, k)) = SumsOf(Sizes(p))[k]
    <3>1. k \in 0 .. Len(p)
      BY <2>0, <2>2
    <3> DEFINE t == SubSeq(p, 1, k)
    <3>2. t \in Seq(0 .. 3) /\ Len(t) = k /\ (\A i \in 1 .. k : t[i] = p[i]) /\ BytesOf(t) = SumsOf(Sizes(p))[k]
      BY <2>2, <3>1, FirstOnes
    <3> HIDE DEF t
    <3>3. t = w
      BY <1>5, <2>2, <3>2, SeqEqual
    <3> QED
      BY <3>2, <3>3 DEF t
  <2>4. BytesOf(p) = SumsOf(Sizes(p))[k + 1] /\ SumsOf(Sizes(p))[k + 1] = SumsOf(Sizes(p))[k] + Sizes(p)[k + 1]
    <3>1. k + 1 \in 1 .. Len(p) /\ (k + 1) - 1 = k
      BY <2>0, <2>2
    <3>2. SumsOf(Sizes(p))[k + 1] = SumsOf(Sizes(p))[(k + 1) - 1] + Sizes(p)[k + 1]
      BY <2>2, <3>1, BytesRise
    <3>3. BytesOf(p) = SumsOf(Sizes(p))[Len(p)]
      BY <2>2, SizesTyped
    <3> QED
      BY <2>2, <3>1, <3>2, <3>3
  <2>5. Sizes(p)[k + 1] = 3
    <3>1. k + 1 \in 1 .. Len(p)
      BY <2>0, <2>2
    <3>2. Sizes(p)[k + 1] = IF p[k + 1] = 0 THEN 1 ELSE p[k + 1]
      BY <2>2, <3>1, SizesTyped
    <3> QED
      BY <2>2, <3>2
  <2>6. BytesOf(p) = BytesOf(w) + 3
    BY <2>3, <2>4, <2>5
  <2>7. BytesOf(p) <= MaxBytes + 2
    BY <1>3, <1>9, <1>10, <1>12, <2>6
  <2>8. \A i \in 1 .. k : p[i] = s[i]
    BY <1>11, <2>2
  <2> QED
    BY <1>4, <1>5, <1>6, <1>8, <1>10, <1>12, <2>2, <2>7, <2>8 DEF f, p, n, w, cut
<1>13. CASE ~cut
  <2>1. p = w
    BY <1>7, <1>13
  <2>2. p \in Seq(0 .. 3) /\ Len(p) = k /\ \A i \in 1 .. k : p[i] = s[i]
    BY <1>5, <1>11, <2>1
  <2>3. BytesOf(p) <= MaxBytes + 2
    BY <1>3, <1>8, <1>9, <2>1
  <2> QED
    BY <1>4, <1>5, <1>6, <1>8, <1>10, <1>13, <2>2, <2>3 DEF f, p, n, w, cut
<1> QED
  BY <1>12, <1>13

\* The preview of a text whose characters have two bytes at most.
LEMMA PreviewKeepsLimits ==
  ASSUME NEW s \in Seq(0 .. 2)
  PROVE  LET p == Preview(s) IN
         /\ LinesOf(p) <= MaxLines /\ BytesOf(p) <= MaxBytes + 2
         /\ ~Truncated(s) <=> p = s
         /\ \A i \in DOMAIN p : p[i] = s[i] \/ (i = Len(p) /\ p[i] = 3)
<1> DEFINE f == FirstLines(s)
           p == Preview(s)
           n == Len(f)
           l == Len(s)
           g == SumsOf(Sizes(f))
<1>1. s \in Seq(0 .. 3) /\ l \in Nat /\ \A i \in 1 .. l : s[i] \in 0 .. 2
  <2>1. l \in Nat /\ \A i \in 1 .. l : s[i] \in 0 .. 2
    BY LenProperties, ElementOfSeq
  <2>2. s \in [1 .. l -> 0 .. 2]
    BY LenProperties
  <2> HIDE DEF l
  <2>3. s \in [1 .. l -> 0 .. 3]
    <3>1. \A i \in 1 .. l : s[i] \in 0 .. 3
      BY <2>1
    <3> QED
      BY <2>2, <3>1
  <2>4. s \in Seq(0 .. 3)
    BY <2>1, <2>3, SeqDef
  <2> QED
    BY <2>1, <2>4
<1>2. /\ f \in Seq(0 .. 3) /\ n \in 0 .. l /\ (\A i \in 1 .. n : f[i] = s[i])
      /\ Cardinality({j \in Feeds(s) : j <= n}) < MaxLines
      /\ LinesOf(s) > MaxLines => n < l
      /\ ~(LinesOf(s) > MaxLines) => f = s
  BY <1>1, FirstLinesAre
<1>3. n \in Nat /\ n <= l /\ MaxBytes \in Nat /\ MaxLines \in Nat
  <2>1. MaxBytes \in Nat /\ MaxLines \in Nat
    BY OutputAssumption
  <2> HIDE DEF n, l
  <2> QED
    BY <1>1, <1>2, <2>1
<1>4. /\ (\A i \in 0 .. n : g[i] \in Nat)
      /\ \A i, j \in 0 .. n : i <= j => g[i] <= g[j]
  BY <1>2, BytesRise
<1>5. BytesOf(f) = g[n]
  BY <1>2, SizesTyped
<1>6. Truncated(s) <=> LinesOf(s) > MaxLines \/ BytesOf(f) > MaxBytes
  BY DEF Truncated
<1>7. PICK k \in 0 .. n :
        LET cut == k < n /\ BytesOf(SubSeq(f, 1, k)) < MaxBytes IN
        /\ p \in Seq(0 .. 3) /\ Len(p) = IF cut THEN k + 1 ELSE k
        /\ \A i \in 1 .. k : p[i] = s[i]
        /\ cut => p[k + 1] = 3
        /\ BytesOf(SubSeq(f, 1, k)) <= MaxBytes /\ BytesOf(SubSeq(f, 1, k)) = g[k]
        /\ k < n => g[k + 1] > MaxBytes
        /\ BytesOf(p) <= MaxBytes + 2
  BY <1>1, PreviewIs
<1> DEFINE cut == k < n /\ BytesOf(SubSeq(f, 1, k)) < MaxBytes
<1>8. /\ p \in Seq(0 .. 3) /\ (\A i \in 1 .. k : p[i] = s[i]) /\ BytesOf(p) <= MaxBytes + 2
      /\ k < n => g[k + 1] > MaxBytes
  BY <1>7
<1>9. Len(p) = IF cut THEN k + 1 ELSE k
  BY <1>7
<1>10. (cut => p[k + 1] = 3) /\ (cut => k < n)
  BY <1>7
<1>11. g[k] <= MaxBytes
  BY <1>7
<1> HIDE DEF f, p, n, l, g, cut
<1>12. Len(p) \in Nat /\ Len(p) <= n /\ DOMAIN p = 1 .. Len(p) /\ k \in Nat /\ k <= n
  <2>1. Len(p) \in Nat /\ DOMAIN p = 1 .. Len(p)
    BY <1>8, LenProperties
  <2> QED
    BY <1>3, <1>9, <1>10, <2>1
<1>13. \A i \in 1 .. Len(p) : (i \in 1 .. k /\ p[i] = s[i]) \/ (cut /\ i = k + 1 /\ i = Len(p) /\ p[i] = 3)
  <2> SUFFICES ASSUME NEW i \in 1 .. Len(p), ~(i \in 1 .. k)
               PROVE  cut /\ i = k + 1 /\ i = Len(p) /\ p[i] = 3
    BY <1>8
  <2>1. CASE cut
    <3>1. i = k + 1 /\ i = Len(p)
      BY <1>9, <1>12, <2>1
    <3> QED
      BY <1>10, <2>1, <3>1
  <2>2. CASE ~cut
    BY <1>9, <1>12, <2>2
  <2> QED
    BY <2>1, <2>2
<1>14. LinesOf(p) <= MaxLines
  <2> DEFINE U == Feeds(p)
             V == {j \in Feeds(s) : j <= n}
  <2>1. U \subseteq V
    <3> SUFFICES ASSUME NEW i \in U PROVE i \in V
      OBVIOUS
    <3>1. i \in 1 .. Len(p) /\ p[i] = 0
      BY <1>12 DEF Feeds
    <3>2. p[i] # 3
      BY <3>1
    <3>3. i \in 1 .. k /\ p[i] = s[i]
      BY <1>13, <3>1, <3>2
    <3>4. i \in 1 .. l /\ i <= n
      BY <1>1, <1>3, <1>12, <3>3
    <3>5. DOMAIN s = 1 .. l
      BY LenProperties DEF l
    <3> QED
      BY <3>1, <3>3, <3>4, <3>5 DEF Feeds
  <2>2. IsFiniteSet(V)
    <3>1. V \subseteq Feeds(s)
      OBVIOUS
    <3>2. IsFiniteSet(Feeds(s))
      BY <1>1, FeedsCount
    <3> QED
      BY <3>1, <3>2, FS_Subset
  <2>3. Cardinality(U) <= Cardinality(V) /\ Cardinality(V) \in Nat
    BY <2>1, <2>2, FS_Subset, FS_CardinalityType
  <2>4. LinesOf(p) = 1 + Cardinality(U) /\ Cardinality(U) \in Nat
    BY <1>8, FeedsCount
  <2>5. Cardinality(V) < MaxLines
    BY <1>2
  <2> HIDE DEF U, V
  <2> QED
    BY <1>3, <2>3, <2>4, <2>5
<1>15. ASSUME ~Truncated(s) PROVE p = s
  <2>1. f = s /\ n = l /\ g[n] <= MaxBytes
    <3>1. f = s
      BY <1>2, <1>6, <1>15
    <3>2. n = l
      BY <3>1 DEF n, l
    <3>3. n \in 0 .. n
      BY <1>3
    <3>4. g[n] <= MaxBytes
      BY <1>3, <1>4, <1>5, <1>6, <1>15, <3>3
    <3> QED
      BY <3>1, <3>2, <3>4
  <2>2. k = n
    <3> SUFFICES ASSUME k < n PROVE FALSE
      BY <1>3, <1>12
    <3>1. k + 1 \in 0 .. n /\ n \in 0 .. n /\ k + 1 <= n
      BY <1>3, <1>12
    <3>2. g[k + 1] <= g[n] /\ g[k + 1] \in Nat /\ g[n] \in Nat
      BY <1>4, <3>1
    <3>3. g[k + 1] > MaxBytes
      BY <1>8
    <3> QED
      BY <1>3, <2>1, <3>2, <3>3
  <2>3. Len(p) = l
    <3>1. ~cut
      BY <1>3, <1>10, <2>2
    <3> QED
      BY <1>9, <2>1, <2>2, <3>1
  <2> QED
    BY <1>1, <1>8, <2>1, <2>2, <2>3, SeqEqual DEF l
<1>16. ASSUME Truncated(s) PROVE p # s
  <2> SUFFICES ASSUME p = s PROVE FALSE
    OBVIOUS
  <2>1. Len(p) = l
    BY DEF l
  <2>2. n = l /\ ~(LinesOf(s) > MaxLines)
    BY <1>1, <1>2, <1>3, <1>12, <2>1
  <2>3. g[n] > MaxBytes
    BY <1>5, <1>6, <1>16, <2>2
  <2>4. k < n
    <3>1. n \in 0 .. n /\ g[n] \in Nat
      BY <1>3, <1>4
    <3>2. g[n] > MaxBytes /\ g[k] <= MaxBytes
      BY <1>11, <2>3
    <3>3. k # n
      BY <1>3, <3>1, <3>2
    <3> QED
      BY <1>3, <1>12, <3>3
  <2>5. cut
    BY <1>9, <1>12, <2>1, <2>2, <2>4
  <2>6. k + 1 \in 1 .. l
    BY <1>1, <1>12, <2>2, <2>4
  <2>7. s[k + 1] = 3 /\ s[k + 1] \in 0 .. 2
    BY <1>1, <1>10, <2>5, <2>6
  <2> QED
    BY <2>7
<1>17. \A i \in DOMAIN p : p[i] = s[i] \/ (i = Len(p) /\ p[i] = 3)
  BY <1>12, <1>13
<1> QED
  BY <1>8, <1>14, <1>15, <1>16, <1>17 DEF p

LEMMA PreviewsFit == PreviewFits
<1> SUFFICES ASSUME NEW content \in UNION {[1 .. n -> 0 .. 2] : n \in 0 .. MaxBytes + 1}
             PROVE  LET p == Preview(content) IN
                    /\ LinesOf(p) <= MaxLines /\ BytesOf(p) <= MaxBytes + 2
                    /\ ~Truncated(content) <=> p = content
                    /\ \A i \in DOMAIN p : p[i] = content[i] \/ (i = Len(p) /\ p[i] = 3)
  BY DEF PreviewFits
<1>1. PICK n \in 0 .. MaxBytes + 1 : content \in [1 .. n -> 0 .. 2]
  OBVIOUS
<1>2. n \in Nat
  BY OutputAssumption
<1>3. content \in Seq(0 .. 2)
  BY <1>1, <1>2, SeqDef
<1> QED
  BY <1>3, PreviewKeepsLimits

(***************************************************************************)
(* A preview keeps its limits and is cut exactly where something is left   *)
(* out, for any limits and any text of up to one character more.           *)
(***************************************************************************)
THEOREM PreviewsHold == OutputSpec => []PreviewFits
  BY PreviewsFit, PTL

-----------------------------------------------------------------------------
(***************************************************************************)
(* Configuration files: what was asked for is in them after a save.        *)
(***************************************************************************)

ConfigInv ==
  /\ configRow = [f \in ConfigFields |-> configRow[f]]
  /\ SavedAsAsked

\* To complete a row before an update changes nothing.
LEMMA CompletedFirst ==
  ASSUME NEW row, row = [f \in ConfigFields |-> row[f]], NEW update
  PROVE  Updated(Updated(row, Nothing), update) = Updated(row, update)
<1>1. CASE row = NoRow
  <2>1. Updated(row, Nothing) = Nothing
    BY <1>1 DEF Updated, Nothing
  <2>2. Updated(Nothing, update) = Updated(row, update)
    BY <1>1 DEF Updated
  <2> QED
    BY <2>1, <2>2
<1>2. CASE row # NoRow
  <2>1. Updated(row, Nothing) = row
    BY <1>2 DEF Updated, Nothing
  <2> QED
    BY <2>1
<1> QED
  BY <1>1, <1>2

LEMMA ConfigStart == ConfigInit => ConfigInv
  BY DEF ConfigInit, ConfigInv, SavedAsAsked, NoRow

LEMMA ConfigStep == ConfigInv /\ [ConfigNext]_configVars => ConfigInv'
<1> SUFFICES ASSUME ConfigInv, [ConfigNext]_configVars PROVE ConfigInv'
  OBVIOUS
<1>1. CASE UNCHANGED configVars
  BY <1>1 DEF configVars, ConfigInv, SavedAsAsked
<1>2. ASSUME NEW c \in ConfigCalls, SaveConfig(c) PROVE ConfigInv'
  <2>1. PICK fields \in SUBSET ConfigFields :
          LET row == [f \in ConfigFields |-> IF f \in fields THEN c ELSE Default] IN
          Saves(row) /\ askedRow' = row
    BY <1>2 DEF SaveConfig
  <2> DEFINE row == [f \in ConfigFields |-> IF f \in fields THEN c ELSE Default]
  <2>2. row = [f \in ConfigFields |-> row[f]] /\ Saves(row) /\ askedRow' = row
    BY <2>1
  <2> HIDE DEF row
  <2> QED
    BY <2>2 DEF Saves, ConfigInv, SavedAsAsked
<1>3. ASSUME NEW c \in ConfigCalls, UpdateConfig(c) PROVE ConfigInv'
  BY <1>3 DEF UpdateConfig, ConfigInv, SavedAsAsked
<1>4. ASSUME NEW c \in ConfigCalls, WriteUpdate(c) PROVE ConfigInv'
  <2> DEFINE call == configCall[c]
             row  == Updated(call.read, call.updates)
  <2>1. row = [f \in ConfigFields |-> row[f]]
    BY DEF Updated
  <2>2. CASE /\ configRow' = row
             /\ disturbed' = (disturbed \/ call.read # Updated(configRow, Nothing))
    <3>1. askedRow' = Updated(askedRow, call.updates)
      BY <1>4 DEF WriteUpdate
    <3>2. ASSUME ~disturbed' PROVE configRow' = askedRow'
      <4>1. configRow = askedRow /\ call.read = Updated(configRow, Nothing)
        BY <2>2, <3>2 DEF ConfigInv, SavedAsAsked
      <4>2. row = Updated(configRow, call.updates)
        BY <4>1, CompletedFirst DEF ConfigInv
      <4> QED
        BY <2>2, <3>1, <4>1, <4>2
    <3> HIDE DEF row
    <3> QED
      BY <2>1, <2>2, <3>2 DEF ConfigInv, SavedAsAsked
  <2>3. CASE disturbed' = TRUE /\ UNCHANGED configRow
    BY <2>3 DEF ConfigInv, SavedAsAsked
  <2> QED
    BY <1>4, <2>2, <2>3 DEF WriteUpdate
<1> QED
  BY <1>1, <1>2, <1>3, <1>4 DEF ConfigNext

(***************************************************************************)
(* The row is what the requests asked for, in their order, while no save   *)
(* fails or writes over another's, for any fields and requests.            *)
(***************************************************************************)
THEOREM SavesHold == ConfigSpec => []SavedAsAsked
<1>1. ConfigInv => SavedAsAsked
  BY DEF ConfigInv
<1> QED
  BY <1>1, ConfigStart, ConfigStep, PTL DEF ConfigSpec

(***************************************************************************)
(* Layers of the configuration: the last one that says something wins.     *)
(***************************************************************************)

\* A function that merges the first layers, any number of them.
IsMerged(g, n, layers) ==
  g = [k \in 0 .. n |-> IF k = 0 THEN Defaults ELSE MergeConfig(g[k - 1], layers[k])]

LEMMA MergedExists ==
  ASSUME NEW layers
  PROVE  \A n \in Nat : \E g : IsMerged(g, n, layers)
<1> DEFINE S == {n \in Nat : \E g : IsMerged(g, n, layers)}
<1>1. 0 \in S
  <2> DEFINE g == [k \in 0 .. 0 |-> Defaults]
  <2>1. \A k \in 0 .. 0 : k = 0
    OBVIOUS
  <2>2. g = [k \in 0 .. 0 |-> IF k = 0 THEN Defaults ELSE MergeConfig(g[k - 1], layers[k])]
    BY <2>1
  <2>3. IsMerged(g, 0, layers)
    BY <2>2 DEF IsMerged
  <2> HIDE DEF g
  <2> QED
    BY <2>3
<1>2. ASSUME NEW n \in Nat, n \in S PROVE n + 1 \in S
  <2>1. PICK g : IsMerged(g, n, layers)
    BY <1>2
  <2> DEFINE h == [k \in 0 .. n + 1 |-> IF k = n + 1 THEN MergeConfig(g[n], layers[n + 1]) ELSE g[k]]
  <2>2. \A k \in 0 .. n : g[k] = IF k = 0 THEN Defaults ELSE MergeConfig(g[k - 1], layers[k])
    BY <2>1 DEF IsMerged
  <2>3. ASSUME NEW k \in 0 .. n + 1
        PROVE  h[k] = IF k = 0 THEN Defaults ELSE MergeConfig(h[k - 1], layers[k])
    <3>1. CASE k = n + 1
      <4>1. k # 0 /\ k - 1 = n /\ n \in 0 .. n + 1 /\ n # n + 1
        BY <3>1
      <4>2. h[k] = MergeConfig(g[n], layers[n + 1]) /\ h[n] = g[n]
        BY <3>1, <4>1
      <4> HIDE DEF h
      <4> QED
        BY <3>1, <4>1, <4>2
    <3>2. CASE k # n + 1
      <4>1. k \in 0 .. n /\ h[k] = g[k]
        BY <3>2
      <4>2. k # 0 => k - 1 \in 0 .. n + 1 /\ k - 1 # n + 1
        BY <4>1
      <4>3. k # 0 => h[k - 1] = g[k - 1]
        BY <4>2
      <4> HIDE DEF h
      <4> QED
        BY <2>2, <4>1, <4>3
    <3> QED
      BY <3>1, <3>2
  <2>4. h = [k \in 0 .. n + 1 |-> h[k]]
    OBVIOUS
  <2> HIDE DEF h
  <2>5. IsMerged(h, n + 1, layers)
    BY <2>3, <2>4 DEF IsMerged
  <2> QED
    BY <2>5
<1> HIDE DEF S
<1>3. \A n \in Nat : n \in S
  BY <1>1, <1>2, StepsReach
<1> QED
  BY <1>3 DEF S

LEMMA MergedSteps ==
  ASSUME NEW layers, Len(layers) \in Nat
  PROVE  \E g : /\ Merged(layers) = g[Len(layers)] /\ g[0] = Defaults
                /\ \A k \in 1 .. Len(layers) : g[k] = MergeConfig(g[k - 1], layers[k])
<1> DEFINE n == Len(layers)
           g == CHOOSE h : IsMerged(h, n, layers)
<1>1. Merged(layers) = g[n]
  BY DEF Merged, IsMerged
<1>2. \E h : IsMerged(h, n, layers)
  BY MergedExists
<1>3. IsMerged(g, n, layers)
  BY <1>2
<1> HIDE DEF g
<1>4. \A k \in 0 .. n : g[k] = IF k = 0 THEN Defaults ELSE MergeConfig(g[k - 1], layers[k])
  BY <1>3 DEF IsMerged
<1>5. 0 \in 0 .. n /\ \A k \in 1 .. n : k \in 0 .. n /\ k # 0
  OBVIOUS
<1>6. g[0] = Defaults /\ \A k \in 1 .. n : g[k] = MergeConfig(g[k - 1], layers[k])
  BY <1>4, <1>5
<1> QED
  BY <1>1, <1>6 DEF n

\* v is what the last of the first k layers says of f.
SaysLast(v, f, layers, k, silent) ==
  \/ v = Default /\ \A j \in 1 .. k : layers[j][f] \in silent
  \/ \E i \in 1 .. k : /\ v = layers[i][f] /\ v \notin silent
                       /\ \A j \in (i + 1) .. k : layers[j][f] \in silent

LEMMA OneLayerMore ==
  ASSUME NEW v, NEW w, NEW f, NEW layers, NEW k \in Nat, NEW silent,
         SaysLast(v, f, layers, k, silent),
         w = IF layers[k + 1][f] \notin silent THEN layers[k + 1][f] ELSE v
  PROVE  SaysLast(w, f, layers, k + 1, silent)
<1>1. CASE layers[k + 1][f] \notin silent
  <2>1. k + 1 \in 1 .. k + 1 /\ \A j \in (k + 1) + 1 .. k + 1 : layers[j][f] \in silent
    OBVIOUS
  <2> QED
    BY <1>1, <2>1 DEF SaysLast
<1>2. CASE layers[k + 1][f] \in silent
  <2>1. w = v
    BY <1>2
  <2>2. CASE v = Default /\ \A j \in 1 .. k : layers[j][f] \in silent
    <3>1. \A j \in 1 .. k + 1 : j \in 1 .. k \/ j = k + 1
      OBVIOUS
    <3> QED
      BY <1>2, <2>1, <2>2, <3>1 DEF SaysLast
  <2>3. CASE \E i \in 1 .. k : /\ v = layers[i][f] /\ v \notin silent
                               /\ \A j \in (i + 1) .. k : layers[j][f] \in silent
    <3>1. PICK i \in 1 .. k : /\ v = layers[i][f] /\ v \notin silent
                              /\ \A j \in (i + 1) .. k : layers[j][f] \in silent
      BY <2>3
    <3>2. i \in 1 .. k + 1 /\ \A j \in (i + 1) .. k + 1 : j \in (i + 1) .. k \/ j = k + 1
      OBVIOUS
    <3> QED
      BY <1>2, <2>1, <3>1, <3>2 DEF SaysLast
  <2> QED
    BY <2>2, <2>3 DEF SaysLast
<1> QED
  BY <1>1, <1>2

LEMMA SaysLastIs ==
  ASSUME NEW T, NEW layers \in Seq(T), NEW v, NEW f, NEW silent,
         SaysLast(v, f, layers, Len(layers), silent)
  PROVE  v = LastSaying(f, layers, silent)
<1> DEFINE having == {k \in DOMAIN layers : layers[k][f] \notin silent}
           last   == CHOOSE k \in having : \A j \in having : j <= k
<1>1. Len(layers) \in Nat /\ DOMAIN layers = 1 .. Len(layers)
  BY LenProperties
<1>2. LastSaying(f, layers, silent) = IF having = {} THEN Default ELSE layers[last][f]
  BY DEF LastSaying
<1>3. CASE v = Default /\ \A j \in 1 .. Len(layers) : layers[j][f] \in silent
  <2>1. having = {}
    BY <1>1, <1>3
  <2> QED
    BY <1>2, <1>3, <2>1
<1>4. CASE \E i \in 1 .. Len(layers) : /\ v = layers[i][f] /\ v \notin silent
                                       /\ \A j \in (i + 1) .. Len(layers) : layers[j][f] \in silent
  <2>1. PICK i \in 1 .. Len(layers) : /\ v = layers[i][f] /\ v \notin silent
                                      /\ \A j \in (i + 1) .. Len(layers) : layers[j][f] \in silent
    BY <1>4
  <2>2. i \in having
    BY <1>1, <2>1
  <2>3. \A j \in having : j <= i
    BY <1>1, <2>1
  <2>4. last \in having /\ \A j \in having : j <= last
    BY <2>2, <2>3
  <2>5. last = i
    <3>1. last <= i /\ i <= last
      BY <2>2, <2>3, <2>4
    <3>2. last \in Int /\ i \in Int
      BY <1>1, <2>4
    <3> HIDE DEF last
    <3> QED
      BY <3>1, <3>2
  <2> HIDE DEF last, having
  <2> QED
    BY <1>2, <2>1, <2>2, <2>5
<1> QED
  BY <1>3, <1>4 DEF SaysLast

\* Merged layers say of a field what the last of them says that sets it.
LEMMA MergedIsLast ==
  ASSUME NEW T, NEW layers \in Seq(T), NEW f \in ConfigFields
  PROVE  Merged(layers)[f] = LastSaying(f, layers, {Unset, Empty})
<1> DEFINE n == Len(layers)
           silent == {Unset, Empty}
<1>1. n \in Nat
  BY LenProperties
<1>2. PICK g : /\ Merged(layers) = g[n] /\ g[0] = Defaults
               /\ \A k \in 1 .. n : g[k] = MergeConfig(g[k - 1], layers[k])
  BY <1>1, MergedSteps
<1> DEFINE S == {k \in Nat : k <= n => SaysLast(g[k][f], f, layers, k, silent)}
<1>3. 0 \in S
  <2>1. g[0][f] = Default /\ \A j \in 1 .. 0 : layers[j][f] \in silent
    BY <1>2 DEF Defaults
  <2> QED
    BY <2>1 DEF SaysLast
<1>4. ASSUME NEW k \in Nat, k \in S PROVE k + 1 \in S
  <2> SUFFICES ASSUME k + 1 <= n PROVE SaysLast(g[k + 1][f], f, layers, k + 1, silent)
    OBVIOUS
  <2>1. k + 1 \in 1 .. n /\ (k + 1) - 1 = k /\ k <= n
    BY <1>1
  <2>2. g[k + 1] = MergeConfig(g[k], layers[k + 1])
    BY <1>2, <2>1
  <2>3. g[k + 1][f] = IF layers[k + 1][f] \notin silent THEN layers[k + 1][f] ELSE g[k][f]
    BY <2>2 DEF MergeConfig, Explicit
  <2>4. SaysLast(g[k][f], f, layers, k, silent)
    BY <1>4, <2>1
  <2> QED
    BY <2>3, <2>4, OneLayerMore
<1> HIDE DEF S
<1>5. n \in S
  BY <1>1, <1>3, <1>4, StepsReach
<1>6. SaysLast(g[n][f], f, layers, n, silent)
  BY <1>1, <1>5 DEF S
<1> QED
  BY <1>2, <1>6, SaysLastIs

\* The same of ConfigV2: a function that merges the first layers, any number of them.
IsMergedV2(g, n, layers) ==
  g = [k \in 0 .. n |-> IF k = 0 THEN Defaults ELSE MergeV2(g[k - 1], layers[k])]

LEMMA MergedV2Exists ==
  ASSUME NEW layers
  PROVE  \A n \in Nat : \E g : IsMergedV2(g, n, layers)
<1> DEFINE S == {n \in Nat : \E g : IsMergedV2(g, n, layers)}
<1>1. 0 \in S
  <2> DEFINE g == [k \in 0 .. 0 |-> Defaults]
  <2>1. \A k \in 0 .. 0 : k = 0
    OBVIOUS
  <2>2. g = [k \in 0 .. 0 |-> IF k = 0 THEN Defaults ELSE MergeV2(g[k - 1], layers[k])]
    BY <2>1
  <2>3. IsMergedV2(g, 0, layers)
    BY <2>2 DEF IsMergedV2
  <2> HIDE DEF g
  <2> QED
    BY <2>3
<1>2. ASSUME NEW n \in Nat, n \in S PROVE n + 1 \in S
  <2>1. PICK g : IsMergedV2(g, n, layers)
    BY <1>2
  <2> DEFINE h == [k \in 0 .. n + 1 |-> IF k = n + 1 THEN MergeV2(g[n], layers[n + 1]) ELSE g[k]]
  <2>2. \A k \in 0 .. n : g[k] = IF k = 0 THEN Defaults ELSE MergeV2(g[k - 1], layers[k])
    BY <2>1 DEF IsMergedV2
  <2>3. ASSUME NEW k \in 0 .. n + 1
        PROVE  h[k] = IF k = 0 THEN Defaults ELSE MergeV2(h[k - 1], layers[k])
    <3>1. CASE k = n + 1
      <4>1. k # 0 /\ k - 1 = n /\ n \in 0 .. n + 1 /\ n # n + 1
        BY <3>1
      <4>2. h[k] = MergeV2(g[n], layers[n + 1]) /\ h[n] = g[n]
        BY <3>1, <4>1
      <4> HIDE DEF h
      <4> QED
        BY <3>1, <4>1, <4>2
    <3>2. CASE k # n + 1
      <4>1. k \in 0 .. n /\ h[k] = g[k]
        BY <3>2
      <4>2. k # 0 => k - 1 \in 0 .. n + 1 /\ k - 1 # n + 1
        BY <4>1
      <4>3. k # 0 => h[k - 1] = g[k - 1]
        BY <4>2
      <4> HIDE DEF h
      <4> QED
        BY <2>2, <4>1, <4>3
    <3> QED
      BY <3>1, <3>2
  <2>4. h = [k \in 0 .. n + 1 |-> h[k]]
    OBVIOUS
  <2> HIDE DEF h
  <2>5. IsMergedV2(h, n + 1, layers)
    BY <2>3, <2>4 DEF IsMergedV2
  <2> QED
    BY <2>5
<1> HIDE DEF S
<1>3. \A n \in Nat : n \in S
  BY <1>1, <1>2, StepsReach
<1> QED
  BY <1>3 DEF S

LEMMA MergedV2Steps ==
  ASSUME NEW layers, Len(layers) \in Nat
  PROVE  \E g : /\ MergedV2(layers) = g[Len(layers)] /\ g[0] = Defaults
                /\ \A k \in 1 .. Len(layers) : g[k] = MergeV2(g[k - 1], layers[k])
<1> DEFINE n == Len(layers)
           g == CHOOSE h : IsMergedV2(h, n, layers)
<1>1. MergedV2(layers) = g[n]
  BY DEF MergedV2, IsMergedV2
<1>2. \E h : IsMergedV2(h, n, layers)
  BY MergedV2Exists
<1>3. IsMergedV2(g, n, layers)
  BY <1>2
<1> HIDE DEF g
<1>4. \A k \in 0 .. n : g[k] = IF k = 0 THEN Defaults ELSE MergeV2(g[k - 1], layers[k])
  BY <1>3 DEF IsMergedV2
<1>5. 0 \in 0 .. n /\ \A k \in 1 .. n : k \in 0 .. n /\ k # 0
  OBVIOUS
<1>6. g[0] = Defaults /\ \A k \in 1 .. n : g[k] = MergeV2(g[k - 1], layers[k])
  BY <1>4, <1>5
<1> QED
  BY <1>1, <1>6 DEF n

\* Those of ConfigV2 do the same of the fields outside the model section:
\* it is what the last of them says that is not silent.
LEMMA MergedV2IsLast ==
  ASSUME NEW T, NEW layers \in Seq(T), NEW f \in ConfigFields, f \notin ModelFields
  PROVE  MergedV2(layers)[f] = LastSaying(f, layers, Silent(f))
<1> DEFINE n == Len(layers)
           silent == Silent(f)
<1>1. n \in Nat
  BY LenProperties
<1>2. PICK g : /\ MergedV2(layers) = g[n] /\ g[0] = Defaults
               /\ \A k \in 1 .. n : g[k] = MergeV2(g[k - 1], layers[k])
  BY <1>1, MergedV2Steps
<1> DEFINE S == {k \in Nat : k <= n => SaysLast(g[k][f], f, layers, k, silent)}
<1>3. 0 \in S
  <2>1. g[0][f] = Default /\ \A j \in 1 .. 0 : layers[j][f] \in silent
    BY <1>2 DEF Defaults
  <2> QED
    BY <2>1 DEF SaysLast
<1>4. ASSUME NEW k \in Nat, k \in S PROVE k + 1 \in S
  <2> SUFFICES ASSUME k + 1 <= n PROVE SaysLast(g[k + 1][f], f, layers, k + 1, silent)
    OBVIOUS
  <2>1. k + 1 \in 1 .. n /\ (k + 1) - 1 = k /\ k <= n
    BY <1>1
  <2>2. g[k + 1] = MergeV2(g[k], layers[k + 1])
    BY <1>2, <2>1
  <2>3. Unset \in silent
    BY DEF Silent
  <2>5. g[k + 1][f] = IF layers[k + 1][f] \notin silent THEN layers[k + 1][f] ELSE g[k][f]
    BY <2>2, <2>3 DEF MergeV2, FromDict
  <2>4. SaysLast(g[k][f], f, layers, k, silent)
    BY <1>4, <2>1
  <2> QED
    BY <2>4, <2>5, OneLayerMore
<1> HIDE DEF S
<1>5. n \in S
  BY <1>1, <1>3, <1>4, StepsReach
<1>6. SaysLast(g[n][f], f, layers, n, silent)
  BY <1>1, <1>5 DEF S
<1> QED
  BY <1>2, <1>6, SaysLastIs

\* The model section is that of the last layer, or the default one.
LEMMA MergedV2Model ==
  ASSUME NEW T, NEW layers \in Seq(T), NEW f \in ModelFields
  PROVE  MergedV2(layers)[f] = IF layers = <<>> \/ Last(layers)[f] = Unset THEN Default ELSE Last(layers)[f]
<1> DEFINE n == Len(layers)
<1>1. n \in Nat /\ (layers = <<>> <=> n = 0)
  BY LenProperties, EmptySeq
<1>2. PICK g : /\ MergedV2(layers) = g[n] /\ g[0] = Defaults
               /\ \A k \in 1 .. n : g[k] = MergeV2(g[k - 1], layers[k])
  BY <1>1, MergedV2Steps
<1>3. f \in ConfigFields
  BY ConfigAssumption
<1>4. CASE n = 0
  BY <1>1, <1>2, <1>3, <1>4 DEF Defaults
<1>5. CASE n # 0
  <2>1. n \in 1 .. n
    BY <1>1, <1>5
  <2>2. g[n] = MergeV2(g[n - 1], layers[n])
    BY <1>2, <2>1
  <2>3. g[n][f] = FromDict(layers[n])[f]
    BY <1>3, <2>2 DEF MergeV2
  <2>4. Last(layers) = layers[n]
    BY DEF Last
  <2> QED
    BY <1>1, <1>2, <1>3, <1>5, <2>3, <2>4 DEF FromDict
<1> QED
  BY <1>4, <1>5

\* What a layer says counts if it says something.
LEMMA LastOfOneMore ==
  ASSUME NEW T, NEW layers \in Seq(T), NEW x \in T, NEW f, NEW silent
  PROVE  LastSaying(f, layers \o <<x>>, silent)
           = IF x[f] \notin silent THEN x[f] ELSE LastSaying(f, layers, silent)
<1> DEFINE n == Len(layers)
           v == LastSaying(f, layers, silent)
           w == IF x[f] \notin silent THEN x[f] ELSE v
           more == layers \o <<x>>
           having == {k \in 1 .. n : layers[k][f] \notin silent}
           last   == CHOOSE k \in having : \A j \in having : j <= k
<1>1. n \in Nat /\ DOMAIN layers = 1 .. n
  BY LenProperties
<1>2. more \in Seq(T) /\ Len(more) = n + 1 /\ more[n + 1] = x /\ \A k \in 1 .. n : more[k] = layers[k]
  BY <1>1, ConcatProperties
<1>3. v = IF having = {} THEN Default ELSE layers[last][f]
  BY <1>1 DEF LastSaying
<1> HIDE DEF more, v, n
<1>4. SaysLast(v, f, layers, n, silent)
  <2>1. CASE having = {}
    <3>1. \A j \in 1 .. n : layers[j][f] \in silent
      BY <2>1
    <3> QED
      BY <1>3, <2>1, <3>1 DEF SaysLast
  <2>2. CASE having # {}
    <3>1. \E k \in having : \A j \in having : j <= k
      <4>1. having \in SUBSET (1 .. n)
        OBVIOUS
      <4> HIDE DEF having
      <4> QED
        BY <1>1, <2>2, <4>1, EndsOfPlaces
    <3>2. last \in having /\ \A j \in having : j <= last
      BY <3>1
    <3> HIDE DEF last
    <3>3. last \in 1 .. n /\ layers[last][f] \notin silent /\ v = layers[last][f]
      BY <1>3, <2>2, <3>2
    <3>4. \A j \in (last + 1) .. n : layers[j][f] \in silent
      <4> SUFFICES ASSUME NEW j \in (last + 1) .. n, layers[j][f] \notin silent PROVE FALSE
        OBVIOUS
      <4>1. j \in having
        BY <1>1, <3>3
      <4>2. j <= last
        BY <3>2, <4>1
      <4> HIDE DEF having
      <4> QED
        BY <1>1, <3>3, <4>2
    <3> QED
      BY <3>3, <3>4 DEF SaysLast
  <2> QED
    BY <2>1, <2>2
<1>5. SaysLast(v, f, more, n, silent)
  <2>1. \A i \in 1 .. n : \A j \in (i + 1) .. n : j \in 1 .. n
    BY <1>1
  <2> QED
    BY <1>2, <1>4, <2>1 DEF SaysLast
<1>6. SaysLast(w, f, more, n + 1, silent)
  <2>1. w = IF more[n + 1][f] \notin silent THEN more[n + 1][f] ELSE v
    BY <1>2
  <2> HIDE DEF w
  <2> QED
    BY <1>1, <1>5, <2>1, OneLayerMore
<1>7. w = LastSaying(f, more, silent)
  <2> HIDE DEF w
  <2> QED
    BY <1>2, <1>6, SaysLastIs
<1> QED
  BY <1>7 DEF w, v, more

\* The files are a sequence of layers, and do not change.
FilesAreLayers == files \in [DOMAIN FileLayers -> UNION {Layers(n) : n \in Range(FileLayers)}]

LEMMA FilesAreListed ==
  ASSUME FilesAreLayers
  PROVE  files \in Seq(UNION {Layers(n) : n \in Range(FileLayers)})
<1> DEFINE T == UNION {Layers(n) : n \in Range(FileLayers)}
           R == Range(FileLayers)
<1>1. files \in [DOMAIN FileLayers -> T]
  BY DEF FilesAreLayers
<1>2. FileLayers \in Seq(R)
  BY ConfigAssumption
<1> HIDE DEF T, R
<1>3. Len(FileLayers) \in Nat /\ DOMAIN FileLayers = 1 .. Len(FileLayers)
  BY <1>2, LenProperties
<1>4. files \in Seq(T)
  BY <1>1, <1>3, SeqDef
<1> QED
  BY <1>4 DEF T

LEMMA LayersSayTheirLast ==
  ASSUME FilesAreLayers
  PROVE  HighestLayerWins
<1> DEFINE X == UNION {Layers(n) : n \in Range(FileLayers)}
           E2 == OfEnviron
           T == X \cup {configRow, environ, E2}
           row  == RowLayer(configRow)
           row2 == RowLayerV2(configRow)
           two  == LayersV2(configRow)
<1>1. files \in Seq(T)
  <2>1. files \in Seq(X)
    BY FilesAreListed
  <2>2. X \subseteq T
    OBVIOUS
  <2> HIDE DEF X, T
  <2> QED
    BY <2>1, <2>2
<1>2. configRow \in T /\ environ \in T /\ E2 \in T
  OBVIOUS
<1>3. row = <<>> \/ row = <<configRow>>
  BY DEF RowLayer
<1>4. /\ (EnvironLayer = <<>> /\ environ = Nothing) \/ EnvironLayer = <<E2>>
      /\ (row2 = <<>> /\ configRow = Nothing /\ row = <<configRow>>) \/ row2 = row
  BY DEF EnvironLayer, RowLayerV2, RowLayer, Nothing, NoRow
<1>5. two = files \o EnvironLayer \o row2
  BY DEF LayersV2
<1> HIDE DEF T, X, row, row2, two, E2
<1>6. /\ row \in Seq(T) /\ row2 \in Seq(T) /\ <<environ>> \in Seq(T) /\ EnvironLayer \in Seq(T)
      /\ <<>> \in Seq(T)
  <2>1. \A x \in T : <<x>> \in Seq(T)
    OBVIOUS
  <2>2. <<>> \in Seq(T)
    OBVIOUS
  <2> QED
    BY <1>2, <1>3, <1>4, <2>1, <2>2
<1>7. /\ files \o row \in Seq(T) /\ files \o row \o <<environ>> \in Seq(T)
      /\ files \o <<environ>> \in Seq(T) /\ files \o <<environ>> \o row \in Seq(T)
      /\ files \o EnvironLayer \in Seq(T) /\ two \in Seq(T)
  BY <1>1, <1>5, <1>6, ConcatProperties
<1>8. ASSUME NEW f \in ConfigFields
      PROVE  /\ LoadConfig(configRow)[f] = LastSaying(f, files \o row \o <<environ>>, {Unset, Empty})
             /\ LoadFromLayers(configRow)[f] = LastSaying(f, files \o <<environ>> \o row, {Unset, Empty})
  BY <1>7, MergedIsLast DEF LoadConfig, LoadFromLayers, row
<1>9. ASSUME NEW f \in ConfigFields, NEW below \in Seq(T), NEW v,
             v = LastSaying(f, files \o EnvironLayer, Silent(f)),
             v = LastSaying(f, below, Silent(f)), f \notin ModelFields
      PROVE  LoadV2(configRow)[f] = LastSaying(f, below \o row, Silent(f))
  <2>1. LoadV2(configRow)[f] = LastSaying(f, two, Silent(f))
    BY <1>7, <1>9, MergedV2IsLast DEF LoadV2, two
  <2>2. CASE row = <<>>
    <3>1. row2 = <<>>
      BY <1>4, <2>2
    <3>2. two = files \o EnvironLayer /\ below \o row = below
      BY <1>5, <1>7, <1>9, <2>2, <3>1, ConcatProperties
    <3> QED
      BY <1>9, <2>1, <3>2
  <2>3. CASE row = <<configRow>>
    <3>1. LastSaying(f, below \o <<configRow>>, Silent(f))
            = IF configRow[f] \notin Silent(f) THEN configRow[f] ELSE v
      BY <1>2, <1>9, LastOfOneMore
    <3>2. CASE row2 = row
      <4> DEFINE base == files \o EnvironLayer
      <4>0. base \in Seq(T) /\ v = LastSaying(f, base, Silent(f))
        BY <1>7, <1>9
      <4>2. two = base \o <<configRow>>
        BY <1>5, <2>3, <3>2
      <4> HIDE DEF base
      <4>1. LastSaying(f, base \o <<configRow>>, Silent(f))
              = IF configRow[f] \notin Silent(f) THEN configRow[f] ELSE v
        BY <1>2, <4>0, LastOfOneMore
      <4>3. LoadV2(configRow)[f] = LastSaying(f, below \o <<configRow>>, Silent(f))
        BY <2>1, <3>1, <4>1, <4>2
      <4> QED
        BY <2>3, <4>3
    <3>3. CASE row2 = <<>> /\ configRow = Nothing
      <4>1. configRow[f] \in Silent(f)
        BY <3>3 DEF Nothing, Silent
      <4>2. two = files \o EnvironLayer
        BY <1>5, <1>7, <3>3, ConcatProperties
      <4> QED
        BY <1>9, <2>1, <2>3, <3>1, <4>1, <4>2
    <3> QED
      BY <1>4, <3>2, <3>3
  <2> QED
    BY <1>3, <2>2, <2>3
<1>10. ASSUME NEW f \in ConfigFields, f \notin ModelFields \cup PromptFields
       PROVE  LoadV2(configRow)[f] = LastSaying(f, files \o row, Silent(f))
  <2>1. LastSaying(f, files \o EnvironLayer, Silent(f)) = LastSaying(f, files, Silent(f))
    <3>1. CASE EnvironLayer = <<>>
      <4>1. files \o EnvironLayer = files
        BY <1>1, <3>1, ConcatProperties
      <4> QED
        BY <4>1
    <3>2. CASE EnvironLayer = <<E2>>
      <4>1. E2[f] \in Silent(f)
        BY <1>10 DEF E2, OfEnviron, Silent
      <4> QED
        BY <1>1, <1>2, <3>2, <4>1, LastOfOneMore
    <3> QED
      BY <1>4, <3>1, <3>2
  <2> QED
    BY <1>1, <1>9, <1>10, <2>1
<1>11. ASSUME NEW f \in ConfigFields, f \in PromptFields
       PROVE  LoadV2(configRow)[f] = LastSaying(f, files \o <<environ>> \o row, Silent(f))
  <2>1. LastSaying(f, files \o <<environ>>, Silent(f))
          = IF environ[f] \notin Silent(f) THEN environ[f] ELSE LastSaying(f, files, Silent(f))
    BY <1>1, <1>2, LastOfOneMore
  <2>2. LastSaying(f, files \o EnvironLayer, Silent(f)) = LastSaying(f, files \o <<environ>>, Silent(f))
    <3>1. CASE EnvironLayer = <<>> /\ environ = Nothing
      <4>1. files \o EnvironLayer = files
        BY <1>1, <3>1, ConcatProperties
      <4>2. environ[f] \in Silent(f)
        BY <3>1 DEF Nothing, Silent
      <4> QED
        BY <2>1, <4>1, <4>2
    <3>2. CASE EnvironLayer = <<E2>>
      <4>1. E2[f] = environ[f]
        BY <1>11 DEF E2, OfEnviron
      <4>2. LastSaying(f, files \o <<E2>>, Silent(f))
              = IF E2[f] \notin Silent(f) THEN E2[f] ELSE LastSaying(f, files, Silent(f))
        BY <1>1, <1>2, LastOfOneMore
      <4> QED
        BY <2>1, <3>2, <4>1, <4>2
    <3> QED
      BY <1>4, <3>1, <3>2
  <2>3. f \notin ModelFields
    BY <1>11, ConfigAssumption
  <2> QED
    BY <1>7, <1>9, <2>2, <2>3
<1>12. ASSUME NEW f \in ConfigFields, f \in ModelFields
       PROVE  LoadV2(configRow)[f] = IF two = <<>> \/ Last(two)[f] = Unset THEN Default ELSE Last(two)[f]
  BY <1>7, <1>12, MergedV2Model DEF LoadV2, two
<1>13. ASSUME NEW f \in ConfigFields
       PROVE  /\ f \in ListFields => Silent(f) = {Unset, Empty} /\ f \notin ModelFields \cup PromptFields
              /\ f \notin ListFields => Silent(f) = {Unset}
              /\ f \in PromptFields => f \notin ListFields
  BY ConfigAssumption DEF Silent
<1> QED
  BY <1>8, <1>10, <1>11, <1>12, <1>13 DEF HighestLayerWins, row, two

(***************************************************************************)
(* Whatever is saved, a field has the value of the highest layer that sets *)
(* it, in both loaders and in both formats, for any fields and any number  *)
(* of files.                                                               *)
(***************************************************************************)
THEOREM LayersHold == ConfigSpec => []HighestLayerWins
<1>1. ConfigInit => FilesAreLayers
  BY DEF ConfigInit, FilesAreLayers
<1>2. FilesAreLayers /\ [ConfigNext]_configVars => FilesAreLayers'
  <2> SUFFICES ASSUME FilesAreLayers, [ConfigNext]_configVars PROVE FilesAreLayers'
    OBVIOUS
  <2>1. files' = files
    BY DEF ConfigNext, configVars, SaveConfig, UpdateConfig, WriteUpdate
  <2> QED
    BY <2>1 DEF FilesAreLayers
<1>3. FilesAreLayers => HighestLayerWins
  BY LayersSayTheirLast
<1> QED
  BY <1>1, <1>2, <1>3, PTL DEF ConfigSpec

-----------------------------------------------------------------------------
(***************************************************************************)
(* Tools and agents: the rules about calls, and the two registries.        *)
(***************************************************************************)

\* An agent's tools are those that its rules permit of the tools there were.
CrewOK(g) ==
  /\ crew[g].rules \in Seq(SavedRule)
  /\ crew[g].at = "built" =>
       /\ crew[g].mentioned \subseteq ListTools
       /\ crew[g].tools = Permitted(crew[g].rules, crew[g].mentioned)
       /\ crew[g].denied = crew[g].mentioned \ crew[g].tools

CrewRecords == [at : {"none", "loaded", "built"}, rules : Seq(SavedRule), tools : SUBSET ToolNames,
                denied : SUBSET ToolNames, mentioned : SUBSET ToolNames]

ToolInv ==
  /\ toolbox \in [ToolNames -> {"none", "application", "location"}]
  /\ savedRules \in Seq(SavedRule)
  /\ crew \in [ToolAgents -> CrewRecords]
  /\ \A g \in ToolAgents : CrewOK(g)

LEMMA ToolStart == ToolInit => ToolInv
<1> SUFFICES ASSUME ToolInit PROVE ToolInv
  OBVIOUS
<1>1. Unbuilt \in CrewRecords /\ Unbuilt.at = "none" /\ Unbuilt.rules \in Seq(SavedRule)
  BY DEF Unbuilt, CrewRecords
<1> QED
  BY <1>1 DEF ToolInit, ToolInv, CrewOK

LEMMA PermittedAre ==
  ASSUME NEW rules, NEW names PROVE Permitted(rules, names) \subseteq names
  BY DEF Permitted

LEMMA ToolStep == ToolInv /\ [ToolNext \/ MentionNext]_toolVars => ToolInv'
<1> SUFFICES ASSUME ToolInv, [ToolNext \/ MentionNext]_toolVars PROVE ToolInv'
  OBVIOUS
<1>1. CASE UNCHANGED <<toolbox, savedRules, crew>>
  BY <1>1 DEF ToolInv, CrewOK, ListTools
<1>2. CASE SaveRule
  <2>1. savedRules' \in Seq(SavedRule) /\ UNCHANGED <<toolbox, crew>>
    BY <1>2 DEF SaveRule, ToolInv
  <2> QED
    BY <2>1 DEF ToolInv, CrewOK, ListTools
<1>3. CASE ClearSaved
  <2>1. savedRules' \in Seq(SavedRule) /\ UNCHANGED <<toolbox, crew>>
    BY <1>3 DEF ClearSaved
  <2> QED
    BY <2>1 DEF ToolInv, CrewOK, ListTools
<1>4. ASSUME NEW t \in ToolNames, NEW scope \in {"application", "location"}, RegisterTool(t, scope) PROVE ToolInv'
  <2>1. /\ toolbox' \in [ToolNames -> {"none", "application", "location"}]
        /\ UNCHANGED <<savedRules, crew>>
        /\ \A u \in ToolNames : toolbox[u] # "none" => toolbox'[u] # "none"
    BY <1>4 DEF RegisterTool, ToolInv
  <2>2. ListTools \subseteq ListTools'
    BY <2>1 DEF ListTools
  <2>3. \A g \in ToolAgents : CrewOK(g)'
    BY <2>1, <2>2 DEF ToolInv, CrewOK
  <2> QED
    BY <2>1, <2>3 DEF ToolInv
<1>5. ASSUME NEW g \in ToolAgents, LoadRules(g) PROVE ToolInv'
  <2>1. PICK rules \in {savedRules, <<>>} :
          crew' = [crew EXCEPT ![g].at = "loaded", ![g].rules = rules]
    BY <1>5 DEF LoadRules
  <2>2. rules \in Seq(SavedRule) /\ UNCHANGED <<toolbox, savedRules>>
    <3>1. savedRules \in Seq(SavedRule) /\ <<>> \in Seq(SavedRule)
      BY DEF ToolInv
    <3>2. rules = savedRules \/ rules = <<>>
      OBVIOUS
    <3> QED
      BY <1>5, <3>1, <3>2, Zenon DEF LoadRules
  <2>3. /\ crew' \in [ToolAgents -> CrewRecords] /\ crew'[g].at = "loaded" /\ crew'[g].rules = rules
        /\ \A h \in ToolAgents : h # g => crew'[h] = crew[h]
    <3> DEFINE r == [crew[g] EXCEPT !.at = "loaded", !.rules = rules]
    <3>1. crew[g] \in CrewRecords
      BY DEF ToolInv
    <3>2. r \in CrewRecords /\ r.at = "loaded" /\ r.rules = rules
      BY <2>2, <3>1 DEF CrewRecords
    <3>3. crew' = [crew EXCEPT ![g] = r]
      BY <2>1 DEF ToolInv
    <3> HIDE DEF r
    <3> QED
      BY <3>2, <3>3 DEF ToolInv
  <2>4. \A h \in ToolAgents : CrewOK(h)'
    BY <2>2, <2>3 DEF ToolInv, CrewOK, ListTools
  <2> QED
    BY <2>2, <2>3, <2>4 DEF ToolInv
<1>6. ASSUME NEW g \in ToolAgents, Materialize(g) PROVE ToolInv'
  <2> DEFINE tools == Permitted(crew[g].rules, ListTools)
  <2>1. /\ crew' = [crew EXCEPT ![g].at = "built", ![g].tools = tools,
                                ![g].denied = ListTools \ tools, ![g].mentioned = ListTools]
        /\ UNCHANGED <<toolbox, savedRules>>
    BY <1>6 DEF Materialize
  <2>2. tools \in SUBSET ToolNames /\ ListTools \in SUBSET ToolNames
    BY PermittedAre DEF ListTools
  <2>3. /\ crew' \in [ToolAgents -> CrewRecords] /\ crew'[g].rules = crew[g].rules
        /\ crew'[g].tools = tools /\ crew'[g].denied = ListTools \ tools /\ crew'[g].mentioned = ListTools
        /\ \A h \in ToolAgents : h # g => crew'[h] = crew[h]
    <3> HIDE DEF tools
    <3> DEFINE r == [crew[g] EXCEPT !.at = "built", !.tools = tools,
                                    !.denied = ListTools \ tools, !.mentioned = ListTools]
    <3>1. crew[g] \in CrewRecords
      BY DEF ToolInv
    <3>2. /\ r \in CrewRecords /\ r.rules = crew[g].rules
          /\ r.tools = tools /\ r.denied = ListTools \ tools /\ r.mentioned = ListTools
      BY <2>2, <3>1 DEF CrewRecords
    <3>3. crew' = [crew EXCEPT ![g] = r]
      BY <2>1 DEF ToolInv
    <3> HIDE DEF r
    <3> QED
      BY <3>2, <3>3 DEF ToolInv
  <2>4. ListTools' = ListTools
    BY <2>1 DEF ListTools
  <2>5. \A h \in ToolAgents : CrewOK(h)'
    BY <2>3, <2>4 DEF ToolInv, CrewOK
  <2> QED
    BY <2>1, <2>3, <2>5 DEF ToolInv
<1> QED
  BY <1>1, <1>2, <1>3, <1>4, <1>5, <1>6 DEF ToolNext, MentionNext, Write, toolVars

\* A set of places that is not empty has a last one.
LEMMA LastPlace ==
  ASSUME NEW rules \in Seq(SavedRule), NEW S \in SUBSET DOMAIN rules, S # {}
  PROVE  Max(S) \in S /\ \A k \in S : k <= Max(S)
<1>1. Len(rules) \in Nat /\ S \in SUBSET (1 .. Len(rules))
  BY LenProperties
<1>2. PICK m \in S : \A k \in S : k <= m
  BY <1>1, EndsOfPlaces
<1>3. \A k \in S : m >= k
  BY <1>1, <1>2
<1>4. Max(S) \in S /\ \A k \in S : Max(S) >= k
  BY <1>3 DEF Max
<1> QED
  BY <1>1, <1>4

\* To permit a tool is to have no rules, or to allow it in the last one about it.
LEMMA PermittedIs ==
  ASSUME NEW rules \in Seq(SavedRule), NEW names \in SUBSET ToolNames, NEW t \in names
  PROVE  LET about   == {k \in DOMAIN rules : rules[k].about \in {t, "*"}}
             allowed == rules = <<>> \/ \E k \in about : /\ rules[k].effect = "allow"
                                                        /\ \A j \in about : j <= k IN
         t \in Permitted(rules, names) <=> allowed
<1> DEFINE about == {k \in DOMAIN rules : rules[k].about \in {t, "*"}}
<1>1. IsAllowed(rules, t) <=> about # {} /\ rules[Max(about)].effect = "allow"
  BY DEF IsAllowed
<1>2. about \in SUBSET DOMAIN rules /\ \A k \in about : k \in Int
  OBVIOUS
<1> HIDE DEF about
<1>3. about # {} => Max(about) \in about /\ \A k \in about : k <= Max(about)
  BY <1>2, LastPlace
<1>4. \A k, l \in about : (\A j \in about : j <= k) /\ (\A j \in about : j <= l) => k = l
  BY <1>2
<1>5. IsAllowed(rules, t) <=> \E k \in about : rules[k].effect = "allow" /\ \A j \in about : j <= k
  BY <1>1, <1>3, <1>4
<1> QED
  BY <1>5 DEF Permitted, about

LEMMA CallsObey == ToolInv => CallsObeyRules
<1> SUFFICES ASSUME ToolInv, NEW g \in ToolAgents, crew[g].at = "built", NEW t \in ToolNames
             PROVE  LET rules   == crew[g].rules
                        about   == {k \in DOMAIN rules : rules[k].about \in {t, "*"}}
                        allowed == rules = <<>> \/ \E k \in about : /\ rules[k].effect = "allow"
                                                                   /\ \A j \in about : j <= k IN
                    /\ \A args \in Arguments :
                         /\ Settle(g, t, args) \in {"succeeds", "fails", "error", "invalid"} =>
                              t \in crew[g].tools /\ allowed /\ t \in ListTools
                         /\ Settle(g, t, args) = "denied" => ~allowed /\ t \in ListTools
                         /\ allowed => SettleMention(g, t, args) = Settle(g, t, args)
                    /\ crew[g].tools \cap crew[g].denied = {}
  BY DEF CallsObeyRules
<1> DEFINE rules   == crew[g].rules
           about   == {k \in DOMAIN rules : rules[k].about \in {t, "*"}}
           allowed == rules = <<>> \/ \E k \in about : rules[k].effect = "allow" /\ \A j \in about : j <= k
           listed  == crew[g].mentioned
<1>1. /\ rules \in Seq(SavedRule) /\ listed \subseteq ListTools /\ listed \in SUBSET ToolNames
      /\ crew[g].tools = Permitted(rules, listed)
      /\ crew[g].denied = listed \ crew[g].tools
  BY DEF ToolInv, CrewOK, ListTools
<1>2. t \in listed => (t \in crew[g].tools <=> allowed)
  BY <1>1, PermittedIs
<1>3. crew[g].tools \subseteq listed
  BY <1>1, PermittedAre
<1> HIDE DEF allowed, listed
<1>4. ASSUME NEW args \in Arguments
      PROVE  /\ Settle(g, t, args) \in {"succeeds", "fails", "error", "invalid"} =>
                  t \in crew[g].tools /\ allowed /\ t \in ListTools
             /\ Settle(g, t, args) = "denied" => ~allowed /\ t \in ListTools
             /\ allowed => SettleMention(g, t, args) = Settle(g, t, args)
  <2>1. Executed(args) \in {"invalid", "error", "fails", "succeeds"}
    BY <1>4 DEF Arguments, Executed
  <2>2. /\ t \in crew[g].denied => Settle(g, t, args) = "denied"
        /\ t \notin crew[g].denied /\ t \notin crew[g].tools => Settle(g, t, args) = "unknown"
        /\ t \notin crew[g].denied /\ t \in crew[g].tools => Settle(g, t, args) = Executed(args)
    BY DEF Settle, SettleIn
  <2>3. /\ t \notin listed => SettleMention(g, t, args) = "unknown"
        /\ t \in listed => SettleMention(g, t, args) = Executed(args)
    BY DEF SettleMention, SettleIn, listed
  <2> QED
    BY <1>1, <1>2, <1>3, <2>1, <2>2, <2>3
<1> QED
  BY <1>1, <1>4 DEF allowed

LEMMA Agree == ToolInv => RegistriesAgree
<1> SUFFICES ASSUME ToolInv PROVE RegistriesAgree
  OBVIOUS
<1>1. ASSUME NEW g \in ToolAgents, crew[g].at = "built", crew[g].rules = <<>>,
             NEW t \in crew[g].tools, NEW args \in Arguments
      PROVE  LET answer == Settle(g, t, args) IN
             /\ SettleSubset(crew[g].tools, t, args) = answer
             /\ SettleOne(t, args) = IF answer = "invalid" THEN "error" ELSE answer
             /\ Dispatch(t, args) \in {"succeeds", "error"}
             /\ answer = "succeeds" => Dispatch(t, args) = "succeeds"
  <2>1. t \in ListTools /\ t \notin crew[g].denied
    BY <1>1, PermittedAre DEF ToolInv, CrewOK
  <2>2. Settle(g, t, args) = Executed(args)
    BY <2>1 DEF Settle, SettleIn
  <2> QED
    BY <1>1, <2>1, <2>2 DEF SettleSubset, SettleOne, Dispatch, Executed, Arguments
<1>2. ASSUME NEW raw \in RawCalls,
             raw.function = "object", ParseToolCall(raw).error = "none"
      PROVE  ToolCallFromResult(raw) = [name |-> ParseToolCall(raw).name, args |-> ParseToolCall(raw).args]
  <2>1. raw.arguments \in Written
    BY DEF RawCalls
  <2>2. raw.name # "none" /\ raw.arguments \in {"missing", "blank", "object", "json"}
    BY <1>2 DEF ParseToolCall, ParsedCall
  <2>3. CASE raw.arguments \in {"missing", "blank"}
    BY <1>2, <2>2, <2>3 DEF ParseToolCall, ParsedCall, ToolCallFromResult
  <2>4. CASE raw.arguments \in {"object", "json"}
    BY <1>2, <2>2, <2>4 DEF ParseToolCall, ParsedCall, ToolCallFromResult
  <2> QED
    BY <2>2, <2>3, <2>4
<1> QED
  BY <1>1, <1>2 DEF RegistriesAgree

(***************************************************************************)
(* A call gets through exactly when the agent's rules let it, along each   *)
(* of the ways in, and the registries agree, for any tools, rules and      *)
(* agents.                                                                 *)
(***************************************************************************)
THEOREM ToolsHold == ToolSpec => [](CallsObeyRules /\ RegistriesAgree)
<1>1. ToolSpec => []ToolInv
  BY ToolStart, ToolStep, PTL DEF ToolSpec
<1> QED
  BY <1>1, CallsObey, Agree, PTL

(***************************************************************************)
(* Mentions in a text.                                                     *)
(***************************************************************************)

\* A function with what there is when the last j items have been looked at.
IsReplaced(g, n) ==
  g = [j \in 0 .. n |-> IF j = 0 THEN [text |-> TextBefore(Len(draft) + 1), offset |-> 0]
                        ELSE ReplaceMention(Len(draft) + 1 - j, g[j - 1])]

LEMMA ReplacedExists == \A n \in Nat : \E g : IsReplaced(g, n)
<1> DEFINE S == {n \in Nat : \E g : IsReplaced(g, n)}
           z == [text |-> TextBefore(Len(draft) + 1), offset |-> 0]
           R(j, d) == ReplaceMention(Len(draft) + 1 - j, d)
<1>0. \A g, n : IsReplaced(g, n) <=> g = [j \in 0 .. n |-> IF j = 0 THEN z ELSE R(j, g[j - 1])]
  BY DEF IsReplaced
<1> HIDE DEF z, R
<1>1. 0 \in S
  <2> DEFINE g == [j \in 0 .. 0 |-> z]
  <2>1. \A j \in 0 .. 0 : j = 0
    OBVIOUS
  <2>2. g = [j \in 0 .. 0 |-> IF j = 0 THEN z ELSE R(j, g[j - 1])]
    BY <2>1
  <2> HIDE DEF g
  <2>3. IsReplaced(g, 0)
    BY <1>0, <2>2
  <2> QED
    BY <2>3
<1>2. ASSUME NEW n \in Nat, n \in S PROVE n + 1 \in S
  <2>1. PICK g : IsReplaced(g, n)
    BY <1>2
  <2> DEFINE h == [j \in 0 .. n + 1 |-> IF j = n + 1 THEN R(n + 1, g[n]) ELSE g[j]]
  <2>2. \A j \in 0 .. n : g[j] = IF j = 0 THEN z ELSE R(j, g[j - 1])
    BY <1>0, <2>1
  <2>3. ASSUME NEW j \in 0 .. n + 1
        PROVE  h[j] = IF j = 0 THEN z ELSE R(j, h[j - 1])
    <3>1. CASE j = n + 1
      <4>1. j # 0 /\ j - 1 = n /\ n \in 0 .. n + 1 /\ n # n + 1
        BY <3>1
      <4>2. h[j] = R(n + 1, g[n]) /\ h[n] = g[n]
        BY <3>1, <4>1
      <4> HIDE DEF h
      <4> QED
        BY <3>1, <4>1, <4>2
    <3>2. CASE j # n + 1
      <4>1. j \in 0 .. n /\ h[j] = g[j]
        BY <3>2
      <4>2. j # 0 => j - 1 \in 0 .. n + 1 /\ j - 1 # n + 1
        BY <4>1
      <4>3. j # 0 => h[j - 1] = g[j - 1]
        BY <4>2
      <4> HIDE DEF h
      <4> QED
        BY <2>2, <4>1, <4>3
    <3> QED
      BY <3>1, <3>2
  <2>4. h = [j \in 0 .. n + 1 |-> h[j]]
    OBVIOUS
  <2> HIDE DEF h
  <2>5. h = [j \in 0 .. n + 1 |-> IF j = 0 THEN z ELSE R(j, h[j - 1])]
    BY <2>3, <2>4
  <2>6. IsReplaced(h, n + 1)
    BY <1>0, <2>5
  <2> QED
    BY <2>6
<1> HIDE DEF S
<1>3. \A n \in Nat : n \in S
  BY <1>1, <1>2, StepsReach
<1> QED
  BY <1>3 DEF S

LEMMA ReplacedSteps ==
  ASSUME Len(draft) \in Nat
  PROVE  /\ Replaced[0] = [text |-> TextBefore(Len(draft) + 1), offset |-> 0]
         /\ \A j \in 1 .. Len(draft) : Replaced[j] = ReplaceMention(Len(draft) + 1 - j, Replaced[j - 1])
<1> DEFINE n == Len(draft)
           g == Replaced
<1>1. g = CHOOSE h : IsReplaced(h, n)
  BY DEF Replaced, IsReplaced
<1>2. \E h : IsReplaced(h, n)
  BY ReplacedExists
<1> HIDE DEF g
<1>3. IsReplaced(g, n)
  BY <1>1, <1>2
<1>4. \A j \in 0 .. n : g[j] = IF j = 0 THEN [text |-> TextBefore(Len(draft) + 1), offset |-> 0]
                                ELSE ReplaceMention(Len(draft) + 1 - j, g[j - 1])
  BY <1>3 DEF IsReplaced
<1>5. 0 \in 0 .. n /\ \A j \in 1 .. n : j \in 0 .. n /\ j # 0
  OBVIOUS
<1> QED
  BY <1>4, <1>5 DEF g, n

\* The places of texts.
Words == [item : Nat, what : {"mention", "word", "result"}]

\* A list in the middle of others.
Amid(x, a, b) == (a \o x) \o b

LEMMA JoinedAround ==
  \A a, b, m \in Seq(Seq(Words)) : \A x \in Seq(Words) :
    /\ Len(m) = Len(a) + 1 + Len(b) /\ m[Len(a) + 1] = x
    /\ (\A i \in 1 .. Len(a) : m[i] = a[i]) /\ \A i \in 1 .. Len(b) : m[Len(a) + 1 + i] = b[i]
    => Joined(m) = Amid(x, Joined(a), Joined(b))
<1> SUFFICES ASSUME NEW a \in Seq(Seq(Words)), NEW b \in Seq(Seq(Words)), NEW m \in Seq(Seq(Words)),
                    NEW x \in Seq(Words),
                    Len(m) = Len(a) + 1 + Len(b), m[Len(a) + 1] = x,
                    \A i \in 1 .. Len(a) : m[i] = a[i], \A i \in 1 .. Len(b) : m[Len(a) + 1 + i] = b[i]
             PROVE  Joined(m) = Amid(x, Joined(a), Joined(b))
  OBVIOUS
<1> DEFINE c == Append(a, x)
<1>1. Len(a) \in Nat /\ Len(b) \in Nat
  BY LenProperties
<1>2. c \in Seq(Seq(Words)) /\ Len(c) = Len(a) + 1 /\ c[Len(a) + 1] = x /\ \A i \in 1 .. Len(a) : c[i] = a[i]
  BY AppendProperties
<1> HIDE DEF c
<1>3. Joined(c) = Joined(a) \o x
  BY <1>2, JoinedMore
<1>4. \A i \in 1 .. Len(c) : m[i] = c[i]
  <2> SUFFICES ASSUME NEW i \in 1 .. Len(c) PROVE m[i] = c[i]
    OBVIOUS
  <2>1. i \in 1 .. Len(a) \/ i = Len(a) + 1
    BY <1>1, <1>2
  <2> QED
    BY <1>2, <2>1
<1>5. Len(m) = Len(c) + Len(b) /\ \A i \in 1 .. Len(b) : m[Len(c) + i] = b[i]
  BY <1>2
<1>6. Joined(m) = Joined(c) \o Joined(b)
  BY <1>2, <1>4, <1>5, JoinedTwo
<1> QED
  BY <1>3, <1>6 DEF Amid

\* What stands for an item in the text and in the text that is wanted.
LEMMA ItemTyped ==
  ASSUME draft \in Seq(0 .. 3), NEW k \in 1 .. Len(draft)
  PROVE  /\ draft[k] \in 0 .. 3
         /\ PlacesOf(k) \in Seq(Words) /\ ResultOf(k) \in Seq(Words)
         /\ IsMention(k) => Len(PlacesOf(k)) = 2
         /\ Len(ResultOf(k)) = draft[k]
<1>1. draft[k] \in 0 .. 3 /\ k \in Nat
  BY ElementOfSeq, LenProperties
<1>2. \A w \in {"mention", "word", "result"} : Place(k, w) \in Words
  BY <1>1 DEF Place, Words
<1>3. PlacesOf(k) \in Seq(Words) /\ (IsMention(k) => Len(PlacesOf(k)) = 2)
  BY <1>2 DEF PlacesOf
<1>4. ResultOf(k) \in Seq(Words) /\ Len(ResultOf(k)) = draft[k]
  <2> DEFINE n == draft[k]
             r == ResultOf(k)
  <2>1. r = [i \in 1 .. n |-> Place(k, "result")] /\ n \in Nat
    BY <1>1 DEF ResultOf
  <2> HIDE DEF n, r
  <2>2. r \in [1 .. n -> Words]
    BY <1>2, <2>1
  <2>3. r \in Seq(Words) /\ DOMAIN r = 1 .. n
    BY <2>1, <2>2, SeqDef
  <2>4. Len(r) = n
    BY <2>1, <2>3, LenProperties
  <2> QED
    BY <2>3, <2>4 DEF n, r
<1> QED
  BY <1>1, <1>3, <1>4

\* A mention is cut out of the text between what is before it and after it.
LEMMA SpliceReplaces ==
  ASSUME NEW T, NEW a \in Seq(T), NEW x \in Seq(T), NEW b \in Seq(T), NEW y \in Seq(T), Len(x) = 2
  PROVE  Spliced(Amid(x, a, b), Len(a), Len(a) + 2, y) = Amid(y, a, b)
<1> DEFINE t == (a \o x) \o b
           s == Len(a)
           l == Len(b)
           u == SubSeq(t, 1, s)
           v == SubSeq(t, s + 2 + 1, Len(t))
<1>1. s \in Nat /\ l \in Nat
  BY LenProperties
<1>2. a \o x \in Seq(T) /\ Len(a \o x) = s + 2 /\ \A i \in 1 .. s : (a \o x)[i] = a[i]
  <2>1. /\ a \o x \in Seq(T) /\ Len(a \o x) = Len(a) + Len(x)
        /\ \A i \in 1 .. Len(a) + Len(x) : (a \o x)[i] = IF i <= Len(a) THEN a[i] ELSE x[i - Len(a)]
    BY ConcatProperties
  <2>2. \A i \in 1 .. s : i \in 1 .. s + 2 /\ i <= s
    BY <1>1
  <2> QED
    BY <2>1, <2>2
<1>3. /\ t \in Seq(T) /\ Len(t) = s + 2 + l
      /\ (\A i \in 1 .. s : t[i] = a[i]) /\ \A i \in 1 .. l : t[s + 2 + i] = b[i]
  <2> DEFINE d == a \o x
  <2> HIDE DEF d
  <2>1. /\ d \o b \in Seq(T) /\ Len(d \o b) = Len(d) + Len(b)
        /\ \A i \in 1 .. Len(d) + Len(b) : (d \o b)[i] = IF i <= Len(d) THEN d[i] ELSE b[i - Len(d)]
    <3>1. d \in Seq(T)
      BY <1>2 DEF d
    <3> QED
      BY <3>1, ConcatProperties
  <2>2. Len(d) = s + 2 /\ t = d \o b /\ \A i \in 1 .. s : d[i] = a[i]
    BY <1>2 DEF d
  <2> HIDE DEF t, s, l
  <2>3. t \in Seq(T) /\ Len(t) = s + 2 + l
    BY <2>1, <2>2 DEF l
  <2>4. \A i \in 1 .. s + 2 + l : t[i] = IF i <= s + 2 THEN d[i] ELSE b[i - (s + 2)]
    BY <2>1, <2>2 DEF l
  <2>5. \A i \in 1 .. s : t[i] = a[i]
    <3>1. \A i \in 1 .. s : i \in 1 .. s + 2 + l /\ i <= s + 2
      BY <1>1
    <3> QED
      BY <2>2, <2>4, <3>1
  <2>6. \A i \in 1 .. l : t[s + 2 + i] = b[i]
    <3> SUFFICES ASSUME NEW i \in 1 .. l PROVE t[s + 2 + i] = b[i]
      OBVIOUS
    <3> DEFINE j == s + 2 + i
    <3>1. j \in 1 .. s + 2 + l /\ ~(j <= s + 2) /\ j - (s + 2) = i
      BY <1>1
    <3> HIDE DEF j
    <3>2. t[j] = b[i]
      BY <2>4, <3>1
    <3> QED
      BY <3>2 DEF j
  <2> QED
    BY <2>3, <2>5, <2>6
<1>4. SliceIndex(t, s) = s /\ SliceIndex(t, s + 2) = s + 2
  <2> DEFINE L == Len(t)
  <2>1. L = s + 2 + l
    BY <1>3
  <2>2. SliceIndex(t, s) = (IF s < 0 THEN Max({0, L + s}) ELSE Min({s, L}))
    BY DEF SliceIndex
  <2>3. SliceIndex(t, s + 2) = (IF s + 2 < 0 THEN Max({0, L + (s + 2)}) ELSE Min({s + 2, L}))
    BY DEF SliceIndex
  <2> HIDE DEF L, t, s, l
  <2>4. ASSUME NEW c \in Nat, NEW d \in Nat, c <= d PROVE Min({c, d}) = c
    BY <2>4 DEF Min
  <2>5. Min({s, L}) = s /\ Min({s + 2, L}) = s + 2
    <3>1. s \in Nat /\ s + 2 \in Nat /\ L \in Nat /\ s <= L /\ s + 2 <= L
      BY <1>1, <2>1
    <3> QED
      BY <2>4, <3>1
  <2>6. ~(s < 0) /\ ~(s + 2 < 0)
    BY <1>1
  <2> QED
    BY <2>2, <2>3, <2>5, <2>6
<1>5. Spliced(t, s, s + 2, y) = u \o y \o v
  BY <1>4 DEF Spliced
<1> HIDE DEF t, s, l
<1>6. u = a
  <2>1. \A i \in 1 .. s : t[i] \in T
    <3>1. \A i \in 1 .. s : a[i] \in T
      BY ElementOfSeq DEF s
    <3> QED
      BY <1>3, <3>1
  <2>2. /\ u \in Seq(T) /\ Len(u) = (IF 1 <= s THEN s - 1 + 1 ELSE 0)
        /\ \A i \in 1 .. s - 1 + 1 : u[i] = t[1 + i - 1]
    BY <1>1, <2>1, SubSeqProperties
  <2> HIDE DEF u
  <2>3. s - 1 + 1 = s /\ (IF 1 <= s THEN s - 1 + 1 ELSE 0) = s /\ \A i \in 1 .. s : 1 + i - 1 = i
    BY <1>1
  <2>4. Len(u) = s /\ \A i \in 1 .. s : u[i] = a[i]
    BY <1>3, <2>2, <2>3
  <2> QED
    BY <2>2, <2>4, SeqEqual DEF s
<1>7. v = b
  <2> DEFINE c == s + 2 + 1
             L == Len(t)
  <2>1. c \in Int /\ L \in Int /\ L = s + 2 + l
    BY <1>1, <1>3
  <2>2. \A i \in 1 .. l : b[i] \in T
    BY ElementOfSeq DEF l
  <2>3. \A i \in c .. L : t[i] \in T
    <3> SUFFICES ASSUME NEW i \in c .. L PROVE t[i] \in T
      OBVIOUS
    <3>1. i - (s + 2) \in 1 .. l /\ s + 2 + (i - (s + 2)) = i
      BY <1>1, <2>1
    <3>2. t[s + 2 + (i - (s + 2))] \in T
      BY <1>3, <2>2, <3>1
    <3> QED
      BY <3>1, <3>2
  <2> HIDE DEF c, L
  <2>4. /\ v \in Seq(T) /\ Len(v) = (IF c <= L THEN L - c + 1 ELSE 0)
        /\ \A i \in 1 .. L - c + 1 : v[i] = t[c + i - 1]
    <3>1. v = SubSeq(t, c, L)
      BY DEF c, L
    <3> HIDE DEF v
    <3> QED
      BY <2>1, <2>3, <3>1, SubSeqProperties
  <2> HIDE DEF v
  <2>5. L - c + 1 = l /\ (IF c <= L THEN L - c + 1 ELSE 0) = l /\ \A i \in 1 .. l : c + i - 1 = s + 2 + i
    BY <1>1, <2>1 DEF c
  <2>6. Len(v) = l /\ \A i \in 1 .. l : v[i] = b[i]
    BY <1>3, <2>4, <2>5
  <2> QED
    BY <2>4, <2>6, SeqEqual DEF l
<1> HIDE DEF u, v
<1> QED
  BY <1>5, <1>6, <1>7 DEF t, s, Amid

\* The text when the last j items have been looked at, if all goes well.
Wanted(k)     == IF IsMention(k) THEN ResultOf(k) ELSE PlacesOf(k)
Half(j)       == [i \in 1 .. Len(draft) |-> IF i <= Len(draft) - j THEN PlacesOf(i) ELSE Wanted(i)]
NoMention(j)  == \A i \in 1 .. Len(draft) - j : ~IsMention(i)
OneOrSame     == \/ \A k, l \in 1 .. Len(draft) : IsMention(k) /\ IsMention(l) => k = l
                 \/ \A k \in 1 .. Len(draft) : IsMention(k) => draft[k] = 2

LEMMA HalfTyped ==
  ASSUME draft \in Seq(0 .. 3)
  PROVE  /\ \A k \in 1 .. Len(draft) : PlacesOf(k) \in Seq(Words) /\ Wanted(k) \in Seq(Words)
         /\ \A f \in [1 .. Len(draft) -> Seq(Words)] : f \in Seq(Seq(Words)) /\ Len(f) = Len(draft)
         /\ \A j \in Nat : /\ Half(j) \in Seq(Seq(Words)) /\ Len(Half(j)) = Len(draft)
                          /\ \A i \in 1 .. Len(draft) :
                               Half(j)[i] = IF i <= Len(draft) - j THEN PlacesOf(i) ELSE Wanted(i)
<1> DEFINE n == Len(draft)
<1>1. n \in Nat
  BY LenProperties
<1>2. \A k \in 1 .. n : PlacesOf(k) \in Seq(Words) /\ Wanted(k) \in Seq(Words)
  BY ItemTyped DEF Wanted
<1> HIDE DEF n
<1>3. \A f \in [1 .. n -> Seq(Words)] : f \in Seq(Seq(Words)) /\ Len(f) = n
  <2> SUFFICES ASSUME NEW f \in [1 .. n -> Seq(Words)] PROVE f \in Seq(Seq(Words)) /\ Len(f) = n
    OBVIOUS
  <2>1. f \in Seq(Seq(Words)) /\ DOMAIN f = 1 .. n
    BY <1>1, SeqDef
  <2> QED
    BY <1>1, <2>1, LenProperties
<1>4. ASSUME NEW j \in Nat
      PROVE  /\ Half(j) \in [1 .. n -> Seq(Words)]
             /\ \A i \in 1 .. n : Half(j)[i] = IF i <= n - j THEN PlacesOf(i) ELSE Wanted(i)
  BY <1>2 DEF Half, n
<1> QED
  BY <1>2, <1>3, <1>4 DEF n

\* One item more is looked at.
LEMMA OneReplaced ==
  ASSUME draft \in Seq(0 .. 3), OneOrSame, NEW j \in Nat, j < Len(draft), NEW done,
         done.text = Joined(Half(j)), done.offset = 0 \/ NoMention(j)
  PROVE  LET next == ReplaceMention(Len(draft) - j, done) IN
         /\ next.text = Joined(Half(j + 1))
         /\ next.offset = 0 \/ NoMention(j + 1)
<1> DEFINE n == Len(draft)
           k == n - j
           a == [i \in 1 .. k - 1 |-> PlacesOf(i)]
           b == [i \in 1 .. j |-> Wanted(k + i)]
           next == ReplaceMention(n - j, done)
<1>1. n \in Nat /\ j < n
  BY LenProperties
<1>2. (\A i \in 1 .. n : PlacesOf(i) \in Seq(Words) /\ Wanted(i) \in Seq(Words)) /\ j + 1 \in Nat
  BY HalfTyped
<1>3. /\ Half(j) \in Seq(Seq(Words)) /\ Len(Half(j)) = n
      /\ \A i \in 1 .. n : Half(j)[i] = IF i <= n - j THEN PlacesOf(i) ELSE Wanted(i)
  BY HalfTyped
<1>4. /\ Half(j + 1) \in Seq(Seq(Words)) /\ Len(Half(j + 1)) = n
      /\ \A i \in 1 .. n : Half(j + 1)[i] = IF i <= n - (j + 1) THEN PlacesOf(i) ELSE Wanted(i)
  BY <1>2, HalfTyped
<1>5. Joined(a) = TextBefore(k)
  BY DEF TextBefore
<1>6. next = ReplaceMention(k, done)
  OBVIOUS
<1> HIDE DEF n, next
<1>7. k \in 1 .. n /\ k \in Nat /\ k - 1 \in Nat /\ n = (k - 1) + 1 + j /\ n - (j + 1) = k - 1 /\ n - j = k
  BY <1>1
<1> HIDE DEF k
<1>8. a \in Seq(Seq(Words)) /\ Len(a) = k - 1 /\ \A i \in 1 .. k - 1 : a[i] = PlacesOf(i)
  <2>1. \A i \in 1 .. k - 1 : i \in 1 .. n
    BY <1>1, <1>7
  <2>2. a \in [1 .. k - 1 -> Seq(Words)]
    BY <1>2, <2>1
  <2>3. a \in Seq(Seq(Words)) /\ DOMAIN a = 1 .. k - 1
    BY <1>7, <2>2, SeqDef
  <2>4. \A i \in 1 .. k - 1 : a[i] = PlacesOf(i)
    OBVIOUS
  <2> HIDE DEF a
  <2>5. Len(a) = k - 1
    BY <1>7, <2>3, LenProperties
  <2> QED
    BY <2>3, <2>4, <2>5
<1>9. b \in Seq(Seq(Words)) /\ Len(b) = j /\ \A i \in 1 .. j : b[i] = Wanted(k + i)
  <2>1. \A i \in 1 .. j : k + i \in 1 .. n
    BY <1>1, <1>7
  <2>2. b \in [1 .. j -> Seq(Words)]
    BY <1>2, <2>1
  <2>3. b \in Seq(Seq(Words)) /\ DOMAIN b = 1 .. j
    BY <2>2, SeqDef
  <2>4. \A i \in 1 .. j : b[i] = Wanted(k + i)
    OBVIOUS
  <2> HIDE DEF b
  <2>5. Len(b) = j
    BY <2>3, LenProperties
  <2> QED
    BY <2>3, <2>4, <2>5
<1> HIDE DEF a, b
<1>10. /\ \A i \in 1 .. k - 1 : i \in 1 .. n /\ i <= k - 1 /\ i <= k
       /\ \A i \in 1 .. j : /\ (k - 1) + 1 + i \in 1 .. n /\ ~((k - 1) + 1 + i <= k)
                            /\ ~((k - 1) + 1 + i <= k - 1) /\ (k - 1) + 1 + i = k + i
       /\ (k - 1) + 1 = k /\ k <= k /\ ~(k <= k - 1)
  BY <1>1, <1>7
<1>11. PlacesOf(k) \in Seq(Words) /\ Wanted(k) \in Seq(Words)
  BY <1>2, <1>7
<1>12. Joined(Half(j)) = Amid(PlacesOf(k), TextBefore(k), Joined(b))
  <2> DEFINE m == Half(j)
  <2>1. \A i \in 1 .. n : m[i] = IF i <= k THEN PlacesOf(i) ELSE Wanted(i)
    BY <1>3, <1>7
  <2>2. m \in Seq(Seq(Words)) /\ Len(m) = Len(a) + 1 + Len(b)
    BY <1>3, <1>7, <1>8, <1>9
  <2> HIDE DEF m
  <2>3. m[Len(a) + 1] = PlacesOf(k)
    BY <1>7, <1>8, <1>10, <2>1
  <2>4. \A i \in 1 .. Len(a) : m[i] = a[i]
    BY <1>8, <1>10, <2>1
  <2>5. \A i \in 1 .. Len(b) : m[Len(a) + 1 + i] = b[i]
    BY <1>8, <1>9, <1>10, <2>1
  <2>6. Joined(m) = Amid(PlacesOf(k), Joined(a), Joined(b))
    BY <1>8, <1>9, <1>11, <2>2, <2>3, <2>4, <2>5, JoinedAround
  <2> QED
    BY <1>5, <2>6 DEF m
<1>13. Joined(Half(j + 1)) = Amid(Wanted(k), TextBefore(k), Joined(b))
  <2> DEFINE m == Half(j + 1)
  <2>1. \A i \in 1 .. n : m[i] = IF i <= k - 1 THEN PlacesOf(i) ELSE Wanted(i)
    BY <1>4, <1>7
  <2>2. m \in Seq(Seq(Words)) /\ Len(m) = Len(a) + 1 + Len(b)
    BY <1>4, <1>7, <1>8, <1>9
  <2> HIDE DEF m
  <2>3. m[Len(a) + 1] = Wanted(k)
    BY <1>7, <1>8, <1>10, <2>1
  <2>4. \A i \in 1 .. Len(a) : m[i] = a[i]
    BY <1>8, <1>10, <2>1
  <2>5. \A i \in 1 .. Len(b) : m[Len(a) + 1 + i] = b[i]
    BY <1>8, <1>9, <1>10, <2>1
  <2>6. Joined(m) = Amid(Wanted(k), Joined(a), Joined(b))
    BY <1>8, <1>9, <1>11, <2>2, <2>3, <2>4, <2>5, JoinedAround
  <2> QED
    BY <1>5, <2>6 DEF m
<1>14. CASE ~IsMention(k)
  <2>1. next = done /\ Wanted(k) = PlacesOf(k)
    BY <1>6, <1>14 DEF ReplaceMention, Wanted
  <2>2. NoMention(j) => NoMention(j + 1)
    BY <1>7, <1>10 DEF NoMention, n
  <2> QED
    BY <1>12, <1>13, <2>1, <2>2 DEF next, n
<1>15. CASE IsMention(k)
  <2>1. done.offset = 0
    <3>1. k \in 1 .. n - j
      BY <1>7
    <3> QED
      BY <1>15, <3>1 DEF NoMention, n
  <2> DEFINE start == Len(TextBefore(k)) + done.offset
  <2>2. next = [text |-> Spliced(done.text, start, start + 2, ResultOf(k)),
                offset |-> done.offset + draft[k] - 2]
    BY <1>6, <1>15 DEF ReplaceMention
  <2>3. TextBefore(k) \in Seq(Words) /\ Joined(b) \in Seq(Words)
    BY <1>5, <1>8, <1>9, JoinsTyped
  <2>4. start = Len(TextBefore(k))
    <3>1. Len(TextBefore(k)) \in Nat
      BY <2>3, LenProperties
    <3> QED
      BY <2>1, <3>1
  <2>5. draft[k] \in 0 .. 3 /\ ResultOf(k) \in Seq(Words) /\ Len(PlacesOf(k)) = 2
    BY <1>7, <1>15, ItemTyped DEF n
  <2> HIDE DEF start
  <2>6. next.text = Amid(ResultOf(k), TextBefore(k), Joined(b))
    <3>1. next.text = Spliced(Amid(PlacesOf(k), TextBefore(k), Joined(b)), Len(TextBefore(k)),
                              Len(TextBefore(k)) + 2, ResultOf(k))
      BY <1>12, <2>2, <2>4
    <3> QED
      BY <1>11, <2>3, <2>5, <3>1, SpliceReplaces
  <2>7. next.text = Joined(Half(j + 1))
    BY <1>13, <1>15, <2>6 DEF Wanted
  <2>8. next.offset = draft[k] - 2
    BY <2>1, <2>2, <2>5
  <2>9. next.offset = 0 \/ NoMention(j + 1)
    <3>1. CASE draft[k] = 2
      BY <2>8, <3>1
    <3>2. CASE draft[k] # 2
      <4>1. \A i, l \in 1 .. n : IsMention(i) /\ IsMention(l) => i = l
        BY <1>7, <1>15, <3>2 DEF OneOrSame, n
      <4>2. \A i \in 1 .. k - 1 : i \in 1 .. n /\ i # k
        BY <1>7, <1>10
      <4>3. \A i \in 1 .. k - 1 : ~IsMention(i)
        BY <1>7, <1>15, <4>1, <4>2
      <4> QED
        BY <1>7, <4>3 DEF NoMention, n
    <3> QED
      BY <3>1, <3>2
  <2> QED
    BY <2>7, <2>9 DEF next, n
<1> QED
  BY <1>14, <1>15

\* All items are looked at.
LEMMA AllReplaced ==
  ASSUME draft \in Seq(0 .. 3), OneOrSame
  PROVE  ProcessMentions = Joined([k \in 1 .. Len(draft) |-> Wanted(k)])
<1> DEFINE n == Len(draft)
           g == Replaced
           G(j) == g[j].text = Joined(Half(j)) /\ (g[j].offset = 0 \/ NoMention(j))
           S == {j \in Nat : j <= n => G(j)}
<1>1. n \in Nat
  BY LenProperties
<1>2. /\ g[0] = [text |-> TextBefore(n + 1), offset |-> 0]
      /\ \A j \in 1 .. n : g[j] = ReplaceMention(n + 1 - j, g[j - 1])
  BY <1>1, ReplacedSteps
<1>3. TextBefore(n + 1) = Joined(Half(0)) /\ Half(n) = [k \in 1 .. n |-> Wanted(k)]
  <2>1. (n + 1) - 1 = n /\ \A i \in 1 .. n : i <= n - 0 /\ ~(i <= n - n)
    BY <1>1
  <2>2. Half(0) = [i \in 1 .. n |-> IF i <= n - 0 THEN PlacesOf(i) ELSE Wanted(i)]
    BY DEF Half
  <2>3. Half(n) = [i \in 1 .. n |-> IF i <= n - n THEN PlacesOf(i) ELSE Wanted(i)]
    BY DEF Half
  <2>4. TextBefore(n + 1) = Joined([i \in 1 .. (n + 1) - 1 |-> PlacesOf(i)])
    BY DEF TextBefore
  <2> HIDE DEF n
  <2>5. Half(0) = [i \in 1 .. n |-> PlacesOf(i)]
    BY <2>1, <2>2
  <2>6. Half(n) = [i \in 1 .. n |-> Wanted(i)]
    BY <2>1, <2>3
  <2> QED
    BY <2>1, <2>4, <2>5, <2>6
<1>4. ProcessMentions = g[n].text
  BY DEF ProcessMentions
<1>5. ASSUME NEW j \in Nat, j < n, G(j)
      PROVE  LET next == ReplaceMention(n - j, g[j]) IN
             next.text = Joined(Half(j + 1)) /\ (next.offset = 0 \/ NoMention(j + 1))
  <2> HIDE DEF g
  <2> QED
    BY <1>5, OneReplaced
<1> HIDE DEF g, n
<1>6. 0 \in S
  <2>1. G(0)
    BY <1>2, <1>3
  <2> QED
    BY <2>1
<1>7. ASSUME NEW j \in Nat, j \in S PROVE j + 1 \in S
  <2>0. j + 1 \in Nat
    OBVIOUS
  <2> SUFFICES ASSUME j + 1 <= n PROVE G(j + 1)
    BY <2>0
  <2>1. j + 1 \in 1 .. n /\ (j + 1) - 1 = j /\ j <= n /\ j < n /\ n + 1 - (j + 1) = n - j
    BY <1>1
  <2>2. G(j)
    BY <1>7, <2>1
  <2>3. g[j + 1] = ReplaceMention(n - j, g[j])
    <3>1. g[j + 1] = ReplaceMention(n + 1 - (j + 1), g[(j + 1) - 1])
      BY <1>2, <2>1
    <3> QED
      BY <2>1, <3>1
  <2> HIDE DEF S
  <2> QED
    BY <1>5, <2>1, <2>2, <2>3
<1> HIDE DEF S
<1>8. n \in S
  BY <1>1, <1>6, <1>7, StepsReach
<1>9. G(n)
  BY <1>1, <1>8 DEF S
<1> QED
  BY <1>3, <1>4, <1>9 DEF n

LEMMA MentionsStay == draft \in Seq(0 .. 3) => MentionsInPlace
<1> SUFFICES ASSUME draft \in Seq(0 .. 3) PROVE MentionsInPlace
  OBVIOUS
<1> DEFINE mentions == {k \in DOMAIN draft : IsMention(k)}
           n == Len(draft)
<1>1. draft \in Seq(0 .. 3) /\ n \in Nat /\ DOMAIN draft = 1 .. n
  BY LenProperties
<1>2. ASSUME Cardinality(mentions) <= 1 \/ (\A k \in mentions : draft[k] = 2)
      PROVE  OneOrSame
  <2>1. CASE \A k \in mentions : draft[k] = 2
    BY <1>1, <2>1 DEF OneOrSame
  <2>2. CASE Cardinality(mentions) <= 1
    <3> SUFFICES ASSUME NEW k \in 1 .. n, NEW l \in 1 .. n, IsMention(k), IsMention(l), k # l
                 PROVE  FALSE
      BY DEF OneOrSame
    <3>1. k \in mentions /\ l \in mentions /\ mentions \in SUBSET (1 .. n)
      BY <1>1
    <3> HIDE DEF mentions, n
    <3>2. IsFiniteSet(mentions) /\ Cardinality(mentions) \in Nat
      BY <1>1, <3>1, RanksNumber
    <3>3. /\ IsFiniteSet(mentions \ {k}) /\ Cardinality(mentions \ {k}) \in Nat
          /\ Cardinality(mentions \ {k}) = Cardinality(mentions) - 1
      BY <3>1, <3>2, FS_RemoveElement, FS_CardinalityType
    <3>4. mentions \ {k} = {}
      <4>1. Cardinality(mentions \ {k}) = 0
        <5> DEFINE c == Cardinality(mentions)
                   e == Cardinality(mentions \ {k})
        <5>1. c \in Nat /\ e \in Nat /\ e = c - 1 /\ c <= 1
          BY <2>2, <3>2, <3>3
        <5> HIDE DEF c, e
        <5>2. e = 0
          BY <5>1
        <5> QED
          BY <5>2 DEF e
      <4> QED
        BY <3>3, <4>1, FS_EmptySet
    <3> QED
      BY <3>1, <3>4
  <2> QED
    BY <1>2, <2>1, <2>2
<1>3. [k \in DOMAIN draft |-> IF IsMention(k) THEN ResultOf(k) ELSE PlacesOf(k)] = [k \in 1 .. n |-> Wanted(k)]
  BY <1>1 DEF Wanted
<1> QED
  BY <1>1, <1>2, <1>3, AllReplaced DEF MentionsInPlace

(***************************************************************************)
(* A mention is replaced where it stands if it is the only one or every    *)
(* result is as long as its mention, in a text of any length.              *)
(***************************************************************************)
THEOREM MentionsHold == ToolSpec => []MentionsInPlace
<1>1. ToolInit => draft \in Seq(0 .. 3)
  BY EmptySeq DEF ToolInit
<1>2. draft \in Seq(0 .. 3) /\ [ToolNext \/ MentionNext]_toolVars => (draft \in Seq(0 .. 3))'
  <2> SUFFICES ASSUME draft \in Seq(0 .. 3), [ToolNext \/ MentionNext]_toolVars
               PROVE  draft' \in Seq(0 .. 3)
    OBVIOUS
  <2>1. CASE UNCHANGED draft
    BY <2>1
  <2>2. ASSUME NEW item \in 0 .. 3, Write(item) PROVE draft' \in Seq(0 .. 3)
    BY <2>2, AppendProperties DEF Write
  <2>3. CASE ToolNext
    BY <2>1, <2>3 DEF ToolNext, SaveRule, ClearSaved, RegisterTool, LoadRules, Materialize
  <2> QED
    BY <2>1, <2>2, <2>3 DEF MentionNext, toolVars
<1> QED
  BY <1>1, <1>2, MentionsStay, PTL DEF ToolSpec

-----------------------------------------------------------------------------
(***************************************************************************)
(* Plugins: the active one is the one that is served.                      *)
(***************************************************************************)

OnPlugin(call, p) == call # NoCall /\ call.plugin = p

\* As long as no two calls for a plugin meet, one that awaits its hooks is
\* alone, and finds what it has stored.
PluginInv ==
  /\ pluginState \in [Plugins -> {"unregistered", "discovered", "loaded", "active", "inactive"}]
  /\ hostCall \in [PluginCallers -> Calls \cup {NoCall}]
  /\ \A p \in Plugins \ overlapped :
       /\ pluginState[p] = "active" => p \in modules /\ p \in apis
       /\ \A c, d \in PluginCallers : OnPlugin(hostCall[c], p) /\ OnPlugin(hostCall[d], p) => c = d
       /\ \A c \in PluginCallers : OnPlugin(hostCall[c], p) /\ hostCall[c].op = "activate" =>
            pluginState[p] = "loaded" /\ p \in modules /\ p \in apis

LEMMA NoCallIs == NoCall.op = "none" /\ \A call \in Calls : call # NoCall /\ call.plugin \in Plugins
  BY DEF NoCall, Calls

LEMMA PluginStart == PluginInit => PluginInv
  BY DEF PluginInit, PluginInv, OnPlugin

\* The state of p changes, and that of no other.
LEMMA StateSet ==
  ASSUME PluginInv, NEW p \in Plugins,
         NEW s \in {"unregistered", "discovered", "loaded", "active", "inactive"}, SetState(p, s)
  PROVE  /\ pluginState' \in [Plugins -> {"unregistered", "discovered", "loaded", "active", "inactive"}]
         /\ pluginState'[p] = s /\ \A q \in Plugins : q # p => pluginState'[q] = pluginState[q]
  BY DEF PluginInv, SetState

\* A call for p that begins has met no other, or p counts no more.
LEMMA BeginsAlone ==
  ASSUME PluginInv, NEW p \in Plugins, Begin(p)
  PROVE  /\ p \notin overlapped' => \A c \in PluginCallers : ~OnPlugin(hostCall[c], p)
         /\ \A q \in Plugins : q \notin overlapped' => q \notin overlapped
  BY DEF Begin, InCall, OnPlugin

LEMMA PluginStep == PluginInv /\ [PluginNext]_pluginVars => PluginInv'
<1> SUFFICES ASSUME PluginInv, [PluginNext]_pluginVars PROVE PluginInv'
  OBVIOUS
<1>1. CASE UNCHANGED pluginVars
  BY <1>1 DEF pluginVars, PluginInv
<1>2. ASSUME NEW p \in Plugins, Discover(p) PROVE PluginInv'
  BY <1>2, StateSet DEF Discover, Registered, PluginInv
<1>3. ASSUME NEW p \in Plugins, Load(p) PROVE PluginInv'
  BY <1>3, StateSet DEF Load, Loaded, AtLeastLoaded, PluginInv
<1>4. ASSUME NEW p \in Plugins, Activate(p) PROVE PluginInv'
  <2>1. CASE Loaded(p) /\ apis' = apis \cup {p} /\ SetState(p, "active")
    BY <1>4, <2>1, StateSet, BeginsAlone DEF Activate, Loaded, PluginInv
  <2>2. CASE apis' = apis \ {p} /\ modules' = modules \ {p} /\ SetState(p, "inactive")
    BY <1>4, <2>2, StateSet, BeginsAlone DEF Activate, PluginInv
  <2> QED
    BY <1>4, <2>1, <2>2 DEF Activate
<1>5. ASSUME NEW p \in Plugins, Uninstall(p) PROVE PluginInv'
  BY <1>5, StateSet, BeginsAlone DEF Uninstall, PluginInv
<1>6. ASSUME NEW p \in Plugins, NEW c \in PluginCallers, ActivateSdk(c, p) PROVE PluginInv'
  <2>1. /\ pluginState' \in [Plugins -> {"unregistered", "discovered", "loaded", "active", "inactive"}]
        /\ pluginState'[p] = "loaded" /\ \A q \in Plugins : q # p => pluginState'[q] = pluginState[q]
        /\ p \in modules' /\ p \in apis'
        /\ \A q \in Plugins : (q \in modules => q \in modules') /\ (q \in apis => q \in apis')
        /\ p \notin overlapped' => \A d \in PluginCallers : ~OnPlugin(hostCall[d], p)
        /\ \A q \in Plugins : q \notin overlapped' => q \notin overlapped
        /\ hostCall[c] = NoCall
    BY <1>6, StateSet, BeginsAlone DEF ActivateSdk, Loaded
  <2> DEFINE call == [op |-> "activate", plugin |-> p]
  <2>2. call \in Calls /\ call.plugin = p
    BY DEF Calls
  <2> HIDE DEF call
  <2>3. /\ hostCall' \in [PluginCallers -> Calls \cup {NoCall}]
        /\ \A d \in PluginCallers : d # c => hostCall'[d] = hostCall[d]
        /\ hostCall'[c] = call \/ hostCall'[c] = NoCall
    BY <1>6, <2>2 DEF ActivateSdk, PluginInv, call
  <2>4. \A q \in Plugins, d \in PluginCallers :
          OnPlugin(hostCall'[d], q) => (OnPlugin(hostCall[d], q) /\ hostCall'[d] = hostCall[d]) \/ (q = p /\ d = c)
    BY <2>2, <2>3 DEF OnPlugin
  <2> QED
    BY <2>1, <2>3, <2>4 DEF PluginInv
<1>7. ASSUME NEW c \in PluginCallers, ActivateEnds(c) PROVE PluginInv'
  <2> DEFINE p == hostCall[c].plugin
  <2>1. hostCall[c].op = "activate" /\ hostCall[c] \in Calls /\ p \in Plugins /\ OnPlugin(hostCall[c], p)
    BY <1>7, NoCallIs DEF ActivateEnds, PluginInv, OnPlugin
  <2>2. /\ hostCall' \in [PluginCallers -> Calls \cup {NoCall}] /\ hostCall'[c] = NoCall
        /\ \A d \in PluginCallers : d # c => hostCall'[d] = hostCall[d]
        /\ UNCHANGED <<modules, apis, overlapped>>
    BY <1>7 DEF ActivateEnds, PluginInv
  <2>3. \A q, d : d \in PluginCallers /\ OnPlugin(hostCall'[d], q) => d # c /\ hostCall'[d] = hostCall[d]
    BY <2>2 DEF OnPlugin
  <2>4. CASE Registered(p)
    <3>1. /\ pluginState' \in [Plugins -> {"unregistered", "discovered", "loaded", "active", "inactive"}]
          /\ pluginState'[p] = "active" /\ \A q \in Plugins : q # p => pluginState'[q] = pluginState[q]
      BY <1>7, <2>1, <2>4, StateSet DEF ActivateEnds
    <3> QED
      BY <2>1, <2>2, <2>3, <3>1 DEF PluginInv
  <2>5. CASE ~Registered(p)
    <3>1. UNCHANGED pluginState
      BY <1>7, <2>5 DEF ActivateEnds
    <3> QED
      BY <2>1, <2>2, <2>3, <3>1 DEF PluginInv
  <2> QED
    BY <2>4, <2>5
<1>8. ASSUME NEW p \in Plugins, NEW c \in PluginCallers, NEW op \in {"deactivate", "uninstall"}, Deactivate(c, p, op)
      PROVE  PluginInv'
  <2>1. /\ hostCall[c] = NoCall
        /\ p \notin overlapped' => \A d \in PluginCallers : ~OnPlugin(hostCall[d], p)
        /\ \A q \in Plugins : q \notin overlapped' => q \notin overlapped
        /\ UNCHANGED <<pluginState, modules, apis>>
    BY <1>8, BeginsAlone DEF Deactivate
  <2> DEFINE call == [op |-> op, plugin |-> p]
  <2>2. call \in Calls /\ call.plugin = p /\ call.op # "activate"
    BY DEF Calls
  <2> HIDE DEF call
  <2>3. /\ hostCall' \in [PluginCallers -> Calls \cup {NoCall}]
        /\ \A d \in PluginCallers : d # c => hostCall'[d] = hostCall[d]
        /\ hostCall'[c] = call
    BY <1>8, <2>2 DEF Deactivate, PluginInv, call
  <2>4. \A q \in Plugins, d \in PluginCallers :
          OnPlugin(hostCall'[d], q) =>
            (OnPlugin(hostCall[d], q) /\ hostCall'[d] = hostCall[d]) \/ (q = p /\ d = c /\ hostCall'[d].op # "activate")
    BY <2>2, <2>3 DEF OnPlugin
  <2> QED
    BY <2>1, <2>3, <2>4 DEF PluginInv
<1>9. ASSUME NEW c \in PluginCallers, DeactivateEnds(c) PROVE PluginInv'
  <2> DEFINE p == hostCall[c].plugin
             s == IF ~Registered(p) \/ hostCall[c].op = "uninstall" THEN "unregistered" ELSE "inactive"
  <2>1. hostCall[c].op # "activate" /\ hostCall[c] \in Calls /\ p \in Plugins /\ OnPlugin(hostCall[c], p)
    BY <1>9, NoCallIs DEF DeactivateEnds, PluginInv, OnPlugin
  <2>2. /\ hostCall' \in [PluginCallers -> Calls \cup {NoCall}] /\ hostCall'[c] = NoCall
        /\ \A d \in PluginCallers : d # c => hostCall'[d] = hostCall[d]
        /\ apis' = apis \ {p} /\ modules' = modules \ {p} /\ UNCHANGED overlapped
    BY <1>9 DEF DeactivateEnds, PluginInv
  <2>3. \A q, d : d \in PluginCallers /\ OnPlugin(hostCall'[d], q) => d # c /\ hostCall'[d] = hostCall[d]
    BY <2>2 DEF OnPlugin
  <2>4. SetState(p, s) /\ s \in {"unregistered", "inactive"}
    BY <1>9 DEF DeactivateEnds, SetState
  <2> HIDE DEF s
  <2>5. /\ pluginState' \in [Plugins -> {"unregistered", "discovered", "loaded", "active", "inactive"}]
        /\ pluginState'[p] = s /\ \A q \in Plugins : q # p => pluginState'[q] = pluginState[q]
    BY <2>1, <2>4, StateSet
  <2> HIDE DEF p
  <2> QED
    BY <2>1, <2>2, <2>3, <2>4, <2>5 DEF PluginInv
<1> QED
  BY <1>1, <1>2, <1>3, <1>4, <1>5, <1>6, <1>7, <1>8, <1>9 DEF PluginNext

(***************************************************************************)
(* A plugin that shows as active has its module and its API in the host,   *)
(* unless one call for it began while another awaited a hook, for any      *)
(* number of plugins and callers.                                          *)
(***************************************************************************)
THEOREM PluginsHold == PluginSpec => []ActiveIsServed
<1>1. PluginInv => ActiveIsServed
  BY DEF PluginInv, ActiveIsServed
<1> QED
  BY <1>1, PluginStart, PluginStep, PTL DEF PluginSpec

-----------------------------------------------------------------------------
(***************************************************************************)
(* Context epochs: turns compare with the latest one, and compactions      *)
(* have one each.                                                          *)
(***************************************************************************)

EpochRows  == [seq : Nat, snapshot : [Sources -> Stored]]
EpochStage == {"new", "comparing", "loading", "numbering", "inserting", "appending", "done", "failed"}
CallsOfEpochs ==
  [op : {"none", "initialize", "prepare", "compact"}, at : EpochStage, next : 1..(SourceCount + 1),
   seen : [Sources -> SourceValues \cup {Unavailable}], base : Nat, seq : Nat, number : Nat,
   told : 0..SourceCount]

\* The types, without the bounds of the model.
EpochShape ==
  /\ offered \in [Sources -> SourceValues \cup {Unavailable}]
  /\ epochs \in Seq(EpochRows) /\ history \in Seq(Int)
  /\ epochCall \in [EpochCalls -> CallsOfEpochs]
  /\ crossed \in BOOLEAN

\* What a call that compares has passed is in the epoch it has read.
Compares(call, c) ==
  call.at = "comparing" =>
    /\ call.base \in 1..Len(epochs) /\ call.told = 0
    /\ c \notin changing => \A s \in 1..(call.next - 1) : offered[s] = epochs[call.base].snapshot[s]

\* A call covers events that are there, and appends its event after its epoch.
Covers(call) ==
  /\ call.seq <= Len(history) /\ call.seq <= EpochReadLimit
  /\ call.at = "appending" => \E e \in 1..Len(epochs) : epochs[e].seq = call.seq

CallInv(call, c) ==
  /\ call.at = "new" => call = NewEpochCall
  /\ Compares(call, c)
  /\ Covers(call)

InMaking(call) == call.at \in {"loading", "numbering", "inserting"}

\* Unless two have met, who makes an epoch does so alone, and covers what every
\* epoch covers.
AloneInMaking ==
  ~crossed => \A c \in EpochCalls : InMaking(epochCall[c]) =>
    /\ \A d \in EpochCalls : InMaking(epochCall[d]) => d = c
    /\ \A e \in 1..Len(epochs) : epochs[e].seq <= epochCall[c].seq

EpochsCover ==
  /\ \A k \in 1..Len(history) : history[k] >= 0 => \E e \in 1..Len(epochs) : epochs[e].seq = history[k]
  /\ \A e \in 1..Len(epochs) : epochs[e].seq <= Len(history) /\ epochs[e].seq <= EpochReadLimit
  /\ ~crossed => \A e \in 1..(Len(epochs) - 1) : epochs[e].seq <= epochs[e + 1].seq

EpochInv ==
  /\ EpochShape
  /\ \A c \in EpochCalls : CallInv(epochCall[c], c)
  /\ AloneInMaking
  /\ EpochsCover

LEMMA EpochNumbers == SourceCount \in Nat /\ SourceCount > 0 /\ EpochReadLimit \in Nat /\ EpochReadLimit > 0
  BY ContextEpochsAssumption

LEMMA NewEpochCallIs ==
  /\ NewEpochCall \in CallsOfEpochs
  /\ NewEpochCall.at = "new" /\ NewEpochCall.seq = 0
  BY EpochNumbers, SMT DEF NewEpochCall, CallsOfEpochs, EpochStage, Blank

LEMMA EpochStart == EpochInit => EpochInv
<1> SUFFICES ASSUME EpochInit PROVE EpochInv
  OBVIOUS
<1>1. /\ epochs = <<>> /\ history = <<>> /\ changing = {} /\ crossed = FALSE
      /\ \A c \in EpochCalls : epochCall[c] = NewEpochCall
      /\ epochCall \in [EpochCalls -> CallsOfEpochs]
      /\ offered \in [Sources -> SourceValues \cup {Unavailable}]
  BY NewEpochCallIs DEF EpochInit
<1>2. Len(epochs) = 0 /\ Len(history) = 0 /\ epochs \in Seq(EpochRows) /\ history \in Seq(Int)
  BY <1>1
<1>3. EpochShape
  BY <1>1, <1>2 DEF EpochShape
<1>4. \A c \in EpochCalls : CallInv(epochCall[c], c)
  BY <1>1, <1>2, NewEpochCallIs, EpochNumbers DEF CallInv, Compares, Covers
<1>5. AloneInMaking
  BY <1>1, NewEpochCallIs DEF AloneInMaking, InMaking
<1>6. EpochsCover
  BY <1>2 DEF EpochsCover
<1> QED
  BY <1>3, <1>4, <1>5, <1>6 DEF EpochInv

\* A call goes on to r, which makes no epoch unless it has been doing so.
LEMMA CallGoesOn ==
  ASSUME EpochInv, NEW c \in EpochCalls, NEW r \in CallsOfEpochs,
         epochCall' = [epochCall EXCEPT ![c] = r],
         CallInv(r, c),
         InMaking(r) => InMaking(epochCall[c]) /\ r.seq = epochCall[c].seq,
         UNCHANGED <<offered, epochs, history, changing, crossed>>
  PROVE  EpochInv'
<1>1. /\ epochCall'[c] = r
      /\ \A d \in EpochCalls : d # c => epochCall'[d] = epochCall[d]
      /\ epochCall' \in [EpochCalls -> CallsOfEpochs]
  BY DEF EpochInv, EpochShape
<1>2. EpochShape'
  BY <1>1 DEF EpochInv, EpochShape
<1>3. \A d \in EpochCalls : CallInv(epochCall[d], d)'
  <2> TAKE d \in EpochCalls
  <2>1. CallInv(epochCall'[d], d)
    BY <1>1 DEF EpochInv
  <2> QED
    BY <2>1 DEF CallInv, Compares, Covers
<1>4. AloneInMaking'
  <2>1. \A d \in EpochCalls : InMaking(epochCall'[d]) =>
          InMaking(epochCall[d]) /\ epochCall'[d].seq = epochCall[d].seq
    BY <1>1
  <2> QED
    BY <2>1 DEF EpochInv, AloneInMaking
<1>5. EpochsCover'
  BY DEF EpochInv, EpochsCover
<1> QED
  BY <1>2, <1>3, <1>4, <1>5 DEF EpochInv

\* A call that comes makes an epoch when none covers more.
LEMMA CallBegins ==
  ASSUME EpochInv, NEW c \in EpochCalls, NEW r \in CallsOfEpochs,
         epochCall' = [epochCall EXCEPT ![c] = r],
         CallInv(r, c), Cross(c),
         \A e \in 1..Len(epochs) : epochs[e].seq <= r.seq,
         UNCHANGED <<offered, epochs, history, changing>>
  PROVE  EpochInv'
<1>1. /\ epochCall'[c] = r
      /\ \A d \in EpochCalls : d # c => epochCall'[d] = epochCall[d]
      /\ epochCall' \in [EpochCalls -> CallsOfEpochs]
  BY DEF EpochInv, EpochShape
<1>2. /\ crossed' \in BOOLEAN
      /\ ~crossed' => ~crossed /\ \A d \in EpochCalls : d # c => ~InMaking(epochCall[d])
  BY DEF EpochInv, EpochShape, Cross, Making, InMaking
<1>3. EpochShape'
  BY <1>1, <1>2 DEF EpochInv, EpochShape
<1>4. \A d \in EpochCalls : CallInv(epochCall[d], d)'
  <2> TAKE d \in EpochCalls
  <2>1. CallInv(epochCall'[d], d)
    BY <1>1 DEF EpochInv
  <2> QED
    BY <2>1 DEF CallInv, Compares, Covers
<1>5. AloneInMaking'
  <2> SUFFICES ASSUME ~crossed', NEW d \in EpochCalls, InMaking(epochCall'[d])
               PROVE  /\ \A f \in EpochCalls : InMaking(epochCall'[f]) => f = d
                      /\ \A e \in 1..Len(epochs) : epochs[e].seq <= epochCall'[d].seq
    BY DEF AloneInMaking
  <2>1. \A f \in EpochCalls : InMaking(epochCall'[f]) => f = c
    BY <1>1, <1>2
  <2> QED
    BY <1>1, <2>1
<1>6. EpochsCover'
  BY <1>2 DEF EpochInv, EpochsCover
<1> QED
  BY <1>3, <1>4, <1>5, <1>6 DEF EpochInv

\* What a call becomes that ends, or goes on as before.
LEMMA CallEnds ==
  ASSUME EpochInv, NEW c \in EpochCalls, NEW at \in {"done", "failed"}, EndsCall(c, at),
         UNCHANGED <<offered, epochs, history, changing, crossed>>
  PROVE  EpochInv'
<1> DEFINE r == [NewEpochCall EXCEPT !.at = at]
<1>1. r \in CallsOfEpochs /\ r.at = at /\ r.seq = 0
  BY NewEpochCallIs DEF NewEpochCall, CallsOfEpochs, EpochStage
<1>2. epochCall' = [epochCall EXCEPT ![c] = r]
  BY DEF EndsCall
<1> HIDE DEF r
<1>3. Len(history) \in Nat
  BY DEF EpochInv, EpochShape
<1>4. CallInv(r, c) /\ ~InMaking(r)
  BY <1>1, <1>3, EpochNumbers DEF CallInv, Compares, Covers, InMaking
<1> QED
  BY <1>1, <1>2, <1>4, CallGoesOn

LEMMA SourceChangesHolds ==
  ASSUME EpochInv, NEW s \in Sources, SourceChanges(s)
  PROVE  EpochInv'
<1>1. /\ offered' \in [Sources -> SourceValues \cup {Unavailable}]
      /\ UNCHANGED <<epochs, history, epochCall, crossed>>
  BY DEF EpochInv, EpochShape, SourceChanges
<1>2. changing' = changing \cup {c \in Under : epochCall[c].at = "comparing"}
  BY DEF SourceChanges
<1>3. ASSUME NEW c \in EpochCalls PROVE CallInv(epochCall[c], c)'
  <2>1. CallInv(epochCall[c], c)
    BY DEF EpochInv
  <2>2. epochCall[c].at = "comparing" => c \in changing'
    BY <1>2 DEF Under
  <2> QED
    BY <1>1, <2>1, <2>2 DEF CallInv, Compares, Covers
<1> QED
  BY <1>1, <1>3 DEF EpochInv, EpochShape, AloneInMaking, EpochsCover

\* An event comes: a compaction of c with its epoch, or another one.
LEMMA HistoryGrows ==
  ASSUME EpochInv, NEW event \in Int, history' = Append(history, event),
         event >= 0 => \E e \in 1..Len(epochs) : epochs[e].seq = event,
         UNCHANGED <<offered, epochs, changing, crossed>>
  PROVE  /\ history' \in Seq(Int)
         /\ \A c \in EpochCalls : CallInv(epochCall[c], c) => CallInv(epochCall[c], c)'
                                   \/ epochCall'[c] # epochCall[c]
         /\ EpochsCover'
<1>1. /\ history \in Seq(Int) /\ Len(history) \in Nat /\ epochs \in Seq(EpochRows) /\ Len(epochs) \in Nat
      /\ \A e \in 1..Len(epochs) : epochs[e].seq \in Nat
      /\ \A c \in EpochCalls : epochCall[c].seq \in Nat
  <2>1. epochs \in Seq(EpochRows) /\ history \in Seq(Int) /\ epochCall \in [EpochCalls -> CallsOfEpochs]
    BY DEF EpochInv, EpochShape
  <2>2. \A e \in 1..Len(epochs) : epochs[e] \in EpochRows
    BY <2>1
  <2> QED
    BY <2>1, <2>2 DEF EpochRows, CallsOfEpochs
<1>2. /\ history' \in Seq(Int) /\ Len(history') = Len(history) + 1
      /\ \A k \in 1..Len(history) : history'[k] = history[k]
      /\ history'[Len(history) + 1] = event
  BY <1>1
<1>3. \A n \in Nat : n <= Len(history) => n <= Len(history')
  BY <1>1, <1>2
<1>4. ASSUME NEW c \in EpochCalls, CallInv(epochCall[c], c), epochCall'[c] = epochCall[c]
      PROVE  CallInv(epochCall[c], c)'
  BY <1>1, <1>3, <1>4 DEF CallInv, Compares, Covers
<1>5. EpochsCover'
  <2>1. ASSUME NEW k \in 1..Len(history'), history'[k] >= 0
        PROVE  \E e \in 1..Len(epochs) : epochs[e].seq = history'[k]
    <3>1. CASE k = Len(history) + 1
      BY <1>2, <2>1, <3>1
    <3>2. CASE k # Len(history) + 1
      <4>1. k \in 1..Len(history)
        BY <1>1, <1>2, <3>2
      <4> QED
        BY <1>2, <2>1, <4>1 DEF EpochInv, EpochsCover
    <3> QED
      BY <3>1, <3>2
  <2>2. \A e \in 1..Len(epochs) : epochs[e].seq <= Len(history') /\ epochs[e].seq <= EpochReadLimit
    BY <1>1, <1>3 DEF EpochInv, EpochsCover
  <2> QED
    BY <2>1, <2>2 DEF EpochInv, EpochsCover
<1> QED
  BY <1>2, <1>4, <1>5

LEMMA EventComesHolds == EpochInv /\ EventComes => EpochInv'
<1> SUFFICES ASSUME EpochInv, EventComes PROVE EpochInv'
  OBVIOUS
<1>1. /\ history' = Append(history, -1) /\ -1 \in Int
      /\ UNCHANGED <<offered, epochs, epochCall, changing, crossed>>
  BY DEF EventComes
<1>2. /\ history' \in Seq(Int)
      /\ \A c \in EpochCalls : CallInv(epochCall[c], c)'
      /\ EpochsCover'
  BY <1>1, HistoryGrows DEF EpochInv
<1> QED
  BY <1>1, <1>2 DEF EpochInv, EpochShape, AloneInMaking

LEMMA AppendEventHolds ==
  ASSUME EpochInv, NEW c \in EpochCalls, AppendEventOf(c)
  PROVE  EpochInv'
<1> DEFINE event == epochCall[c].seq
           r     == [NewEpochCall EXCEPT !.at = "done"]
<1>1. /\ epochCall[c].at = "appending" /\ history' = Append(history, event)
      /\ epochCall' = [epochCall EXCEPT ![c] = r]
      /\ UNCHANGED <<offered, epochs, changing, crossed>>
  BY DEF AppendEventOf, EndsCall
<1>2. event \in Int /\ \E e \in 1..Len(epochs) : epochs[e].seq = event
  <2>1. Covers(epochCall[c])
    BY DEF EpochInv, CallInv
  <2> QED
    BY <1>1, <2>1 DEF EpochInv, EpochShape, CallsOfEpochs, Covers
<1>3. r \in CallsOfEpochs /\ r.at = "done" /\ r.seq = 0
  BY NewEpochCallIs DEF NewEpochCall, CallsOfEpochs, EpochStage
<1> HIDE DEF r, event
<1>4. /\ epochCall'[c] = r
      /\ \A d \in EpochCalls : d # c => epochCall'[d] = epochCall[d]
      /\ epochCall' \in [EpochCalls -> CallsOfEpochs]
  BY <1>1, <1>3 DEF EpochInv, EpochShape
<1>5. /\ history' \in Seq(Int)
      /\ \A d \in EpochCalls : CallInv(epochCall[d], d) => CallInv(epochCall[d], d)'
                                \/ epochCall'[d] # epochCall[d]
      /\ EpochsCover'
  BY <1>1, <1>2, HistoryGrows
<1>6. ASSUME NEW d \in EpochCalls PROVE CallInv(epochCall[d], d)'
  <2>1. CASE d # c
    BY <1>4, <1>5, <2>1 DEF EpochInv
  <2>2. CASE d = c
    <3>1. Len(history') \in Nat
      BY <1>5
    <3> QED
      BY <1>3, <1>4, <2>2, <3>1, EpochNumbers DEF CallInv, Compares, Covers
  <2> QED
    BY <2>1, <2>2
<1>7. AloneInMaking'
  <2>1. \A d \in EpochCalls : InMaking(epochCall'[d]) => InMaking(epochCall[d]) /\ epochCall'[d] = epochCall[d]
    BY <1>3, <1>4 DEF InMaking
  <2> QED
    BY <1>1, <2>1 DEF EpochInv, AloneInMaking
<1>8. EpochShape'
  BY <1>1, <1>4, <1>5 DEF EpochInv, EpochShape
<1> QED
  BY <1>5, <1>6, <1>7, <1>8 DEF EpochInv

\* What is known of a call that is under way.
LEMMA CallIs ==
  ASSUME EpochInv, NEW c \in EpochCalls
  PROVE  /\ epochCall[c] \in CallsOfEpochs /\ CallInv(epochCall[c], c)
         /\ epochs \in Seq(EpochRows) /\ Len(epochs) \in Nat /\ Len(history) \in Nat
         /\ \A e \in 1..Len(epochs) : epochs[e] \in EpochRows /\ epochs[e].seq \in Nat
<1>1. /\ epochCall[c] \in CallsOfEpochs /\ CallInv(epochCall[c], c)
      /\ epochs \in Seq(EpochRows) /\ history \in Seq(Int)
  BY DEF EpochInv, EpochShape
<1>2. Len(epochs) \in Nat /\ Len(history) \in Nat /\ \A e \in 1..Len(epochs) : epochs[e] \in EpochRows
  BY <1>1
<1>3. \A row \in EpochRows : row.seq \in Nat
  BY DEF EpochRows
<1> QED
  BY <1>1, <1>2, <1>3

LEMMA PrepareHolds ==
  ASSUME EpochInv, NEW c \in EpochCalls, Prepare(c)
  PROVE  EpochInv'
<1>1. /\ epochCall[c] = NewEpochCall
      /\ epochs \in Seq(EpochRows) /\ Len(epochs) \in Nat /\ Len(history) \in Nat
  BY CallIs DEF CallInv, Prepare
<1>2. CASE epochs = <<>>
  <2> DEFINE r == [epochCall[c] EXCEPT !.op = "initialize", !.at = "loading"]
  <2>1. r \in CallsOfEpochs /\ r.at = "loading" /\ r.seq = 0
    BY <1>1, NewEpochCallIs DEF NewEpochCall, CallsOfEpochs, EpochStage
  <2>2. /\ epochCall' = [epochCall EXCEPT ![c] = r] /\ Cross(c)
        /\ UNCHANGED <<offered, epochs, history, changing>>
    BY <1>2 DEF Prepare, EpochInv, EpochShape
  <2>3. \A e \in 1..Len(epochs) : FALSE
    BY <1>2
  <2> HIDE DEF r
  <2>4. CallInv(r, c)
    BY <1>1, <2>1, EpochNumbers DEF CallInv, Compares, Covers
  <2> QED
    BY <2>1, <2>2, <2>3, <2>4, CallBegins
<1>3. CASE epochs # <<>>
  <2> DEFINE r == [epochCall[c] EXCEPT !.op = "prepare", !.at = "comparing", !.base = Len(epochs)]
  <2>1. /\ r \in CallsOfEpochs /\ r.at = "comparing" /\ r.seq = 0
        /\ r.base = Len(epochs) /\ r.next = 1 /\ r.told = 0
    <3>1. /\ NewEpochCall \in CallsOfEpochs /\ NewEpochCall.next = 1
          /\ NewEpochCall.seq = 0 /\ NewEpochCall.told = 0
      BY NewEpochCallIs DEF NewEpochCall
    <3>2. \A call \in CallsOfEpochs :
            LET s == [call EXCEPT !.op = "prepare", !.at = "comparing", !.base = Len(epochs)] IN
            /\ s \in CallsOfEpochs /\ s.at = "comparing" /\ s.base = Len(epochs)
            /\ s.seq = call.seq /\ s.next = call.next /\ s.told = call.told
      BY <1>1 DEF CallsOfEpochs, EpochStage
    <3> QED
      BY <1>1, <3>1, <3>2
  <2>2. /\ epochCall' = [epochCall EXCEPT ![c] = r]
        /\ UNCHANGED <<offered, epochs, history, changing, crossed>>
    BY <1>3 DEF Prepare, EpochInv, EpochShape
  <2>3. Len(epochs) \in 1..Len(epochs)
    BY <1>1, <1>3, EmptySeq
  <2> HIDE DEF r
  <2>4. CallInv(r, c) /\ ~InMaking(r)
    BY <1>1, <2>1, <2>3, EpochNumbers DEF CallInv, Compares, Covers, InMaking
  <2> QED
    BY <2>1, <2>2, <2>4, CallGoesOn
<1> QED
  BY <1>2, <1>3

LEMMA CompactHolds ==
  ASSUME EpochInv, NEW c \in EpochCalls, Compact(c)
  PROVE  EpochInv'
<1> DEFINE read == IF Len(history) < EpochReadLimit THEN Len(history) ELSE EpochReadLimit
           r    == [epochCall[c] EXCEPT !.op = "compact", !.seq = read,
                                        !.at = IF read = 0 THEN "done" ELSE "loading"]
<1>1. /\ epochCall[c] = NewEpochCall
      /\ epochs \in Seq(EpochRows) /\ Len(epochs) \in Nat /\ Len(history) \in Nat
      /\ \A e \in 1..Len(epochs) : epochs[e].seq \in Nat
  BY CallIs DEF CallInv, Compact
<1>2. /\ epochCall' = [epochCall EXCEPT ![c] = r] /\ Cross(c)
      /\ UNCHANGED <<offered, epochs, history, changing>>
  BY DEF Compact, EpochInv, EpochShape
<1>3. /\ read \in Nat /\ read <= Len(history) /\ read <= EpochReadLimit
      /\ \A n \in Nat : n <= Len(history) /\ n <= EpochReadLimit => n <= read
  BY <1>1, EpochNumbers
<1> HIDE DEF read
<1>4. r \in CallsOfEpochs /\ r.at \in {"done", "loading"} /\ r.seq = read
  BY <1>1, <1>3, NewEpochCallIs DEF NewEpochCall, CallsOfEpochs, EpochStage
<1> HIDE DEF r
<1>5. CallInv(r, c)
  BY <1>3, <1>4 DEF CallInv, Compares, Covers
<1>6. \A e \in 1..Len(epochs) : epochs[e].seq <= r.seq
  BY <1>1, <1>3, <1>4 DEF EpochInv, EpochsCover
<1> QED
  BY <1>2, <1>4, <1>5, <1>6, CallBegins

LEMMA CompareHolds ==
  ASSUME EpochInv, NEW c \in EpochCalls, Compare(c)
  PROVE  EpochInv'
<1> DEFINE call == epochCall[c]
<1>1. /\ call \in CallsOfEpochs /\ CallInv(call, c) /\ call.at = "comparing"
      /\ UNCHANGED <<offered, epochs, history, changing, crossed>>
  BY CallIs DEF Compare
<1>2. CASE call.next > SourceCount \/ offered[call.next] = Unavailable
  <2> DEFINE r == [call EXCEPT !.at = "done"]
  <2>1. r \in CallsOfEpochs /\ r.at = "done" /\ r.seq = call.seq
    BY <1>1 DEF CallsOfEpochs, EpochStage
  <2>2. epochCall' = [epochCall EXCEPT ![c] = r]
    BY <1>2 DEF Compare, EpochInv, EpochShape
  <2> HIDE DEF r
  <2>3. CallInv(r, c) /\ ~InMaking(r)
    BY <1>1, <2>1 DEF CallInv, Compares, Covers, InMaking
  <2> QED
    BY <1>1, <2>1, <2>2, <2>3, CallGoesOn
<1>3. CASE ~(call.next > SourceCount \/ offered[call.next] = Unavailable)
  <2>0. /\ call.next \in 1..SourceCount /\ call.next + 1 \in 1..(SourceCount + 1)
        /\ call.next \in 0..SourceCount
    BY <1>1, <1>3, EpochNumbers DEF CallsOfEpochs
  <2>1. CASE offered[call.next] # epochs[call.base].snapshot[call.next]
    <3>0. PICK told \in Tells(call.next, epochs[call.base].snapshot[call.next]) :
            epochCall' = [epochCall EXCEPT ![c].at = "done", ![c].told = told]
      BY <1>3, <2>1 DEF Compare
    <3>4. told \in 0..SourceCount
      BY <2>0, EpochNumbers DEF Tells
    <3> DEFINE r == [call EXCEPT !.at = "done", !.told = told]
    <3>1. r \in CallsOfEpochs /\ r.at = "done" /\ r.seq = call.seq
      BY <1>1, <2>0, <3>4 DEF CallsOfEpochs, EpochStage
    <3>2. epochCall' = [epochCall EXCEPT ![c] = r]
      BY <3>0 DEF EpochInv, EpochShape
    <3> HIDE DEF r
    <3>3. CallInv(r, c) /\ ~InMaking(r)
      BY <1>1, <3>1 DEF CallInv, Compares, Covers, InMaking
    <3> QED
      BY <1>1, <3>1, <3>2, <3>3, CallGoesOn
  <2>2. CASE offered[call.next] = epochs[call.base].snapshot[call.next]
    <3> DEFINE r == [call EXCEPT !.next = call.next + 1]
    <3>1. /\ r \in CallsOfEpochs /\ r.at = "comparing" /\ r.seq = call.seq
          /\ r.base = call.base /\ r.told = call.told /\ r.next = call.next + 1
      BY <1>1, <2>0 DEF CallsOfEpochs
    <3>2. epochCall' = [epochCall EXCEPT ![c] = r]
      BY <1>3, <2>2 DEF Compare, EpochInv, EpochShape
    <3> HIDE DEF r
    <3>3. \A s \in 1..(r.next - 1) : s \in 1..(call.next - 1) \/ s = call.next
      BY <2>0, <3>1
    <3>4. Compares(r, c)
      BY <1>1, <2>2, <3>1, <3>3 DEF CallInv, Compares
    <3>5. CallInv(r, c) /\ ~InMaking(r)
      BY <1>1, <3>1, <3>4 DEF CallInv, Covers, InMaking
    <3> QED
      BY <1>1, <3>1, <3>2, <3>5, CallGoesOn
  <2> QED
    BY <2>1, <2>2
<1> QED
  BY <1>2, <1>3

LEMMA LoadSourceHolds ==
  ASSUME EpochInv, NEW c \in EpochCalls, LoadSource(c)
  PROVE  EpochInv'
<1> DEFINE call == epochCall[c]
<1>1. /\ call \in CallsOfEpochs /\ CallInv(call, c) /\ call.at = "loading"
      /\ UNCHANGED <<offered, epochs, history, changing, crossed>>
  BY CallIs DEF LoadSource
<1>2. CASE call.next <= SourceCount
  <2> DEFINE r == [call EXCEPT !.seen[call.next] = offered[call.next], !.next = @ + 1]
  <2>1. call.next \in Sources /\ call.next + 1 \in 1..(SourceCount + 1)
    BY <1>1, <1>2, EpochNumbers DEF CallsOfEpochs, Sources
  <2>2. [call.seen EXCEPT ![call.next] = offered[call.next]]
          \in [Sources -> SourceValues \cup {Unavailable}]
    BY <1>1, <2>1 DEF EpochInv, EpochShape, CallsOfEpochs
  <2>3. r = [call EXCEPT !.seen = [call.seen EXCEPT ![call.next] = offered[call.next]],
                         !.next = call.next + 1]
    BY <1>1 DEF CallsOfEpochs
  <2>4. epochCall' = [epochCall EXCEPT ![c] = r]
    BY <1>2 DEF LoadSource, EpochInv, EpochShape
  <2> HIDE DEF r
  <2>5. r \in CallsOfEpochs /\ r.at = "loading" /\ r.seq = call.seq
    BY <1>1, <2>1, <2>2, <2>3 DEF CallsOfEpochs
  <2>6. CallInv(r, c) /\ InMaking(call)
    BY <1>1, <2>5 DEF CallInv, Compares, Covers, InMaking
  <2> QED
    BY <1>1, <2>4, <2>5, <2>6, CallGoesOn
<1>3. CASE ~(call.next <= SourceCount)
  <2> DEFINE r == [call EXCEPT !.at = IF call.seen = Blank THEN "done" ELSE "numbering"]
  <2>1. r \in CallsOfEpochs /\ r.at \in {"done", "numbering"} /\ r.seq = call.seq
    BY <1>1 DEF CallsOfEpochs, EpochStage
  <2>2. epochCall' = [epochCall EXCEPT ![c] = r]
    BY <1>3 DEF LoadSource, EpochInv, EpochShape
  <2> HIDE DEF r
  <2>3. CallInv(r, c) /\ InMaking(call)
    BY <1>1, <2>1 DEF CallInv, Compares, Covers, InMaking
  <2> QED
    BY <1>1, <2>1, <2>2, <2>3, CallGoesOn
<1> QED
  BY <1>2, <1>3

LEMMA NumberHolds ==
  ASSUME EpochInv, NEW c \in EpochCalls, NumberOfEpoch(c)
  PROVE  EpochInv'
<1> DEFINE call == epochCall[c]
           r == [call EXCEPT !.at = "inserting", !.number = Len(epochs)]
<1>1. /\ call \in CallsOfEpochs /\ CallInv(call, c) /\ call.at = "numbering" /\ Len(epochs) \in Nat
      /\ UNCHANGED <<offered, epochs, history, changing, crossed>>
  BY CallIs DEF NumberOfEpoch
<1>2. r \in CallsOfEpochs /\ r.at = "inserting" /\ r.seq = call.seq
  BY <1>1 DEF CallsOfEpochs, EpochStage
<1>3. epochCall' = [epochCall EXCEPT ![c] = r]
  BY DEF NumberOfEpoch, EpochInv, EpochShape
<1> HIDE DEF r
<1>4. CallInv(r, c) /\ InMaking(call)
  BY <1>1, <1>2 DEF CallInv, Compares, Covers, InMaking
<1> QED
  BY <1>1, <1>2, <1>3, <1>4, CallGoesOn

\* The row is inserted, and covers what the others do; a call that finds its
\* number taken ends.
LEMMA InsertRowHolds ==
  ASSUME EpochInv, NEW c \in EpochCalls, InsertRowOf(c)
  PROVE  EpochInv'
<1> DEFINE call == epochCall[c]
           row  == [seq |-> call.seq, snapshot |-> [s \in Sources |-> Kept(call.seen[s])]]
           n    == Len(epochs)
<1>1. /\ call \in CallsOfEpochs /\ CallInv(call, c) /\ call.at = "inserting"
      /\ epochs \in Seq(EpochRows) /\ n \in Nat /\ Len(history) \in Nat
      /\ \A e \in 1..n : epochs[e] \in EpochRows /\ epochs[e].seq \in Nat
      /\ UNCHANGED <<offered, history, changing, crossed>>
  BY CallIs DEF InsertRowOf
<1>2. CASE EndsCall(c, "failed") /\ UNCHANGED epochs
  BY <1>1, <1>2, CallEnds
<1>3. CASE /\ epochs' = Append(epochs, row)
           /\ IF call.op = "compact" THEN epochCall' = [epochCall EXCEPT ![c].at = "appending"]
              ELSE EndsCall(c, "done")
  <2> DEFINE r == IF call.op = "compact" THEN [call EXCEPT !.at = "appending"]
                  ELSE [NewEpochCall EXCEPT !.at = "done"]
  <2>1. /\ epochCall' = [epochCall EXCEPT ![c] = r]
        /\ epochs' = Append(epochs, row)
    BY <1>3 DEF EndsCall, EpochInv, EpochShape
  <2>2. r \in CallsOfEpochs /\ r.at \in {"appending", "done"} /\ r.seq \in {call.seq, 0}
        /\ (r.at = "appending" => r.seq = call.seq)
    <3>1. [call EXCEPT !.at = "appending"] \in CallsOfEpochs
      BY <1>1 DEF CallsOfEpochs, EpochStage
    <3>2. [NewEpochCall EXCEPT !.at = "done"] \in CallsOfEpochs /\ [NewEpochCall EXCEPT !.at = "done"].seq = 0
          /\ [NewEpochCall EXCEPT !.at = "done"].at = "done"
      BY NewEpochCallIs DEF NewEpochCall, CallsOfEpochs, EpochStage
    <3>3. [call EXCEPT !.at = "appending"].at = "appending" /\ [call EXCEPT !.at = "appending"].seq = call.seq
      BY <1>1 DEF CallsOfEpochs
    <3> QED
      BY <3>1, <3>2, <3>3
  <2>3. row \in EpochRows /\ row.seq = call.seq /\ call.seq \in Nat
    <3>1. \A s \in Sources : Kept(call.seen[s]) \in Stored
      BY <1>1 DEF CallsOfEpochs, Kept, Stored
    <3> QED
      BY <1>1, <3>1 DEF CallsOfEpochs, EpochRows
  <2> HIDE DEF r, row
  <2>4. /\ epochs' \in Seq(EpochRows) /\ Len(epochs') = n + 1
        /\ \A e \in 1..n : e \in 1..Len(epochs') /\ epochs'[e] = epochs[e]
        /\ n + 1 \in 1..Len(epochs') /\ epochs'[n + 1] = row
        /\ \A e \in 1..Len(epochs') : e \in 1..n \/ e = n + 1
    BY <1>1, <2>1, <2>3
  <2>5. /\ epochCall'[c] = r
        /\ \A d \in EpochCalls : d # c => epochCall'[d] = epochCall[d]
        /\ epochCall' \in [EpochCalls -> CallsOfEpochs]
    BY <2>1, <2>2 DEF EpochInv, EpochShape
  <2>6. EpochShape'
    BY <1>1, <2>4, <2>5 DEF EpochInv, EpochShape
  <2>7. call.seq <= Len(history) /\ call.seq <= EpochReadLimit
    BY <1>1 DEF CallInv, Covers
  <2>8. ASSUME NEW d \in EpochCalls PROVE CallInv(epochCall[d], d)'
    <3>1. CASE d = c
      <4>1. r.seq <= Len(history) /\ r.seq <= EpochReadLimit
        BY <1>1, <2>2, <2>7, EpochNumbers
      <4>2. r.at = "appending" => epochs'[n + 1].seq = r.seq
        BY <2>2, <2>3, <2>4
      <4> QED
        BY <1>1, <2>2, <2>4, <2>5, <3>1, <4>1, <4>2 DEF CallInv, Compares, Covers
    <3>2. CASE d # c
      <4>1. CallInv(epochCall[d], d) /\ epochCall'[d] = epochCall[d]
        BY <2>5, <3>2 DEF EpochInv
      <4>2. Compares(epochCall[d], d)'
        BY <1>1, <2>4, <4>1 DEF CallInv, Compares
      <4>3. Covers(epochCall[d])'
        BY <1>1, <2>4, <4>1 DEF CallInv, Covers
      <4> QED
        BY <4>1, <4>2, <4>3 DEF CallInv
    <3> QED
      BY <3>1, <3>2
  <2>9. ~crossed => \A d \in EpochCalls : ~InMaking(epochCall'[d])
    <3>1. ~InMaking(r) /\ InMaking(call)
      BY <1>1, <2>2 DEF InMaking
    <3> QED
      BY <2>5, <3>1 DEF EpochInv, AloneInMaking
  <2>10. AloneInMaking'
    BY <1>1, <2>9 DEF AloneInMaking
  <2>11. EpochsCover'
    <3>1. \A k \in 1..Len(history) : history[k] >= 0 => \E e \in 1..Len(epochs') : epochs'[e].seq = history[k]
      BY <2>4 DEF EpochInv, EpochsCover
    <3>2. \A e \in 1..Len(epochs') : epochs'[e].seq <= Len(history) /\ epochs'[e].seq <= EpochReadLimit
      BY <2>3, <2>4, <2>7 DEF EpochInv, EpochsCover
    <3>3. ASSUME ~crossed, NEW e \in 1..(Len(epochs') - 1) PROVE epochs'[e].seq <= epochs'[e + 1].seq
      <4>1. e \in 1..n /\ e \in Int
        BY <1>1, <2>4
      <4>2. CASE e = n
        <5>1. epochs[e].seq <= call.seq
          BY <1>1, <3>3, <4>1 DEF EpochInv, AloneInMaking, InMaking
        <5> QED
          BY <2>3, <2>4, <4>1, <4>2, <5>1
      <4>3. CASE e # n
        <5>1. e \in 1..(n - 1) /\ e + 1 \in 1..n
          BY <1>1, <4>1, <4>3
        <5>2. epochs[e].seq <= epochs[e + 1].seq
          BY <3>3, <5>1 DEF EpochInv, EpochsCover
        <5> QED
          BY <2>4, <4>1, <5>1, <5>2
      <4> QED
        BY <4>2, <4>3
    <3> QED
      BY <1>1, <3>1, <3>2, <3>3 DEF EpochsCover
  <2> QED
    BY <2>6, <2>8, <2>10, <2>11 DEF EpochInv
<1> QED
  BY <1>2, <1>3 DEF InsertRowOf

LEMMA EpochStep == EpochInv /\ [EpochNext]_epochVars => EpochInv'
<1> SUFFICES ASSUME EpochInv, [EpochNext]_epochVars PROVE EpochInv'
  OBVIOUS
<1>1. CASE UNCHANGED epochVars
  BY <1>1 DEF epochVars, EpochInv, EpochShape, CallInv, Compares, Covers, AloneInMaking, EpochsCover
<1>2. CASE EventComes
  BY <1>2, EventComesHolds
<1>3. ASSUME NEW s \in Sources, SourceChanges(s) PROVE EpochInv'
  BY <1>3, SourceChangesHolds
<1>4. ASSUME NEW c \in EpochCalls, Prepare(c) PROVE EpochInv'
  BY <1>4, PrepareHolds
<1>5. ASSUME NEW c \in EpochCalls, Compact(c) PROVE EpochInv'
  BY <1>5, CompactHolds
<1>6. ASSUME NEW c \in EpochCalls, Compare(c) PROVE EpochInv'
  BY <1>6, CompareHolds
<1>7. ASSUME NEW c \in EpochCalls, LoadSource(c) PROVE EpochInv'
  BY <1>7, LoadSourceHolds
<1>8. ASSUME NEW c \in EpochCalls, NumberOfEpoch(c) PROVE EpochInv'
  BY <1>8, NumberHolds
<1>9. ASSUME NEW c \in EpochCalls, InsertRowOf(c) PROVE EpochInv'
  BY <1>9, InsertRowHolds
<1>10. ASSUME NEW c \in EpochCalls, AppendEventOf(c) PROVE EpochInv'
  BY <1>10, AppendEventHolds
<1>11. ASSUME NEW c \in EpochCalls, EpochCallFails(c) PROVE EpochInv'
  BY <1>11, CallEnds DEF EpochCallFails
<1> QED
  BY <1>1, <1>2, <1>3, <1>4, <1>5, <1>6, <1>7, <1>8, <1>9, <1>10, <1>11 DEF EpochNext

LEMMA EpochsHoldTrue == EpochInv => CompactionsHaveEpochs
<1> SUFFICES ASSUME EpochInv PROVE CompactionsHaveEpochs
  OBVIOUS
<1>1. DOMAIN epochs = 1..Len(epochs) /\ DOMAIN history = 1..Len(history)
  BY DEF EpochInv, EpochShape
<1> QED
  BY <1>1 DEF EpochInv, EpochsCover, CompactionsHaveEpochs

\* Of the steps only Compare ends a comparison, and it knows what it has passed.
LEMMA ComparisonsEnd ==
  ASSUME EpochInv, [EpochNext]_epochVars, NEW c \in EpochCalls \ changing,
         epochCall[c].at = "comparing", epochCall'[c].at = "done"
  PROVE  LET call == epochCall'[c]
             stored     == epochs[call.base].snapshot
             differs(s) == offered[s] # stored[s]
             first      == IF call.told # 0 THEN call.told ELSE call.next IN
         /\ \A s \in 1..(first - 1) : ~differs(s)
         /\ call.told # 0 => differs(call.told)
         /\ call.told = 0 =>
              \/ first > SourceCount \/ offered[first] = Unavailable
              \/ /\ differs(first)
                 /\ \/ first \in QuietSources
                    \/ first \in StructuredSources /\ stored[first] = AsText
<1> DEFINE call == epochCall[c]
           r    == epochCall'[c]
<1>1. /\ call \in CallsOfEpochs /\ call.told = 0 /\ call.next \in Nat /\ call.next # 0
      /\ \A s \in 1..(call.next - 1) : offered[s] = epochs[call.base].snapshot[s]
  <2>1. epochCall[c] \in CallsOfEpochs /\ CallInv(epochCall[c], c)
    BY CallIs
  <2>2. Compares(epochCall[c], c)
    BY <2>1 DEF CallInv
  <2>3. call.told = 0 /\ \A s \in 1..(call.next - 1) : offered[s] = epochs[call.base].snapshot[s]
    BY <2>2 DEF Compares
  <2>4. call.next \in 1..(SourceCount + 1)
    BY <2>1 DEF CallsOfEpochs
  <2>5. call.next \in Nat /\ call.next # 0
    BY <2>4, EpochNumbers
  <2> QED
    BY <2>1, <2>3, <2>5
<1>2. Compare(c)
  <2>1. epochCall'[c] # epochCall[c]
    OBVIOUS
  <2>2. ~UNCHANGED epochCall
    BY <2>1
  <2>4. PICK d \in EpochCalls : \/ Prepare(d) \/ Compact(d) \/ Compare(d) \/ LoadSource(d)
                                \/ NumberOfEpoch(d) \/ InsertRowOf(d) \/ AppendEventOf(d)
                                \/ EpochCallFails(d)
    BY <2>2 DEF EpochNext, epochVars, EventComes, SourceChanges
  <2>5. \A e \in EpochCalls : e # d => epochCall'[e] = epochCall[e]
    BY <2>4 DEF Prepare, Compact, Compare, LoadSource, NumberOfEpoch, InsertRowOf, AppendEventOf,
                EpochCallFails, EndsCall, EpochInv, EpochShape
  <2>6. d = c
    BY <2>1, <2>5
  <2>7. ~Prepare(c) /\ ~Compact(c) /\ ~LoadSource(c) /\ ~NumberOfEpoch(c) /\ ~InsertRowOf(c) /\ ~AppendEventOf(c)
    BY DEF Prepare, Compact, LoadSource, NumberOfEpoch, InsertRowOf, AppendEventOf
  <2>8. ~EpochCallFails(c)
    <3>1. NewEpochCall.at = "new" /\ [NewEpochCall EXCEPT !.at = "failed"].at = "failed"
      BY DEF NewEpochCall
    <3>2. EpochCallFails(c) => epochCall'[c] = [NewEpochCall EXCEPT !.at = "failed"]
      BY DEF EpochCallFails, EndsCall, EpochInv, EpochShape
    <3> QED
      BY <3>1, <3>2
  <2> QED
    BY <2>4, <2>6, <2>7, <2>8
<1>3. CASE call.next > SourceCount \/ offered[call.next] = Unavailable
  <2>1. r = [call EXCEPT !.at = "done"]
    BY <1>2, <1>3 DEF Compare, EpochInv, EpochShape
  <2>2. r.told = 0 /\ r.next = call.next /\ r.base = call.base
    BY <1>1, <2>1 DEF CallsOfEpochs
  <2> QED
    BY <1>1, <1>3, <2>2
<1>4. CASE ~(call.next > SourceCount \/ offered[call.next] = Unavailable)
  <2>1. CASE offered[call.next] # epochs[call.base].snapshot[call.next]
    <3> DEFINE stored == epochs[call.base].snapshot
    <3>0. PICK told \in Tells(call.next, stored[call.next]) :
            epochCall' = [epochCall EXCEPT ![c].at = "done", ![c].told = told]
      BY <1>2, <1>4, <2>1 DEF Compare
    <3>1. r = [call EXCEPT !.at = "done", !.told = told]
      BY <3>0 DEF EpochInv, EpochShape
    <3>2. r.told = told /\ r.next = call.next /\ r.base = call.base
      BY <1>1, <3>1 DEF CallsOfEpochs
    <3>3. \/ told = call.next
          \/ /\ told = 0
             /\ \/ call.next \in QuietSources
                \/ call.next \in StructuredSources /\ stored[call.next] = AsText
      BY <3>0 DEF Tells
    <3> QED
      BY <1>1, <2>1, <3>2, <3>3
  <2>2. CASE offered[call.next] = epochs[call.base].snapshot[call.next]
    <3>1. r = [call EXCEPT !.next = call.next + 1]
      BY <1>2, <1>4, <2>2 DEF Compare, EpochInv, EpochShape
    <3>2. r.at = "comparing"
      BY <1>1, <3>1 DEF CallsOfEpochs
    <3> QED
      BY <3>2
  <2> QED
    BY <2>1, <2>2
<1> QED
  BY <1>3, <1>4

(***************************************************************************)
(* A compaction event stands for an epoch that covers the same events, and *)
(* epochs cover no event that is not there, for any number of sources,     *)
(* calls and events, wherever calls are cut off.                           *)
(***************************************************************************)
THEOREM EpochsHold == EpochSpec => [](CompactionsHaveEpochs)
<1>1. EpochSpec => []EpochInv
  BY EpochStart, EpochStep, PTL DEF EpochSpec
<1> QED
  BY <1>1, EpochsHoldTrue, PTL

(***************************************************************************)
(* A turn is told of the first change of its sources, and gets the         *)
(* baseline only when nothing differs before a source that is not          *)
(* available, or the change has no text, for any number of sources, calls  *)
(* and any choice of the sources whose update() raises or says nothing.    *)
(***************************************************************************)
THEOREM TurnsHear == EpochSpec => TurnsSeeChanges
<1>1. EpochSpec => []EpochInv
  BY EpochStart, EpochStep, PTL DEF EpochSpec
<1>2. EpochInv /\ [EpochNext]_epochVars =>
        [\A c \in EpochCalls \ changing :
           LET call == epochCall'[c] IN
           epochCall[c].at = "comparing" /\ call.at = "done" =>
             LET stored     == epochs[call.base].snapshot
                 differs(s) == offered[s] # stored[s]
                 first      == IF call.told # 0 THEN call.told ELSE call.next IN
             /\ \A s \in 1..(first - 1) : ~differs(s)
             /\ call.told # 0 => differs(call.told)
             /\ call.told = 0 =>
                  \/ first > SourceCount \/ offered[first] = Unavailable
                  \/ /\ differs(first)
                     /\ \/ first \in QuietSources
                        \/ first \in StructuredSources /\ stored[first] = AsText]_epochVars
  BY ComparisonsEnd
<1> QED
  BY <1>1, <1>2, PTL DEF EpochSpec, TurnsSeeChanges

-----------------------------------------------------------------------------
(***************************************************************************)
(* What a turn is built of: the files that fit, and the messages that are  *)
(* kept when the rest of a talk is cut.                                    *)
(***************************************************************************)

\* A function that takes the first files, any number of them.
IsTaken(g, n) ==
  g = [k \in 0 .. n |-> IF k = 0 THEN NoFiles ELSE TakeFile(g[k - 1], attached[k])]

LEMMA TakenExists == \A n \in Nat : \E g : IsTaken(g, n)
<1> DEFINE S == {n \in Nat : \E g : IsTaken(g, n)}
<1>1. 0 \in S
  <2> DEFINE g == [k \in 0 .. 0 |-> NoFiles]
  <2>1. \A k \in 0 .. 0 : k = 0
    OBVIOUS
  <2>2. g = [k \in 0 .. 0 |-> IF k = 0 THEN NoFiles ELSE TakeFile(g[k - 1], attached[k])]
    BY <2>1
  <2>3. IsTaken(g, 0)
    BY <2>2 DEF IsTaken
  <2> HIDE DEF g
  <2> QED
    BY <2>3
<1>2. ASSUME NEW n \in Nat, n \in S PROVE n + 1 \in S
  <2>1. PICK g : IsTaken(g, n)
    BY <1>2
  <2> DEFINE h == [k \in 0 .. n + 1 |-> IF k = n + 1 THEN TakeFile(g[n], attached[n + 1]) ELSE g[k]]
  <2>2. \A k \in 0 .. n : g[k] = IF k = 0 THEN NoFiles ELSE TakeFile(g[k - 1], attached[k])
    BY <2>1 DEF IsTaken
  <2>3. ASSUME NEW k \in 0 .. n + 1
        PROVE  h[k] = IF k = 0 THEN NoFiles ELSE TakeFile(h[k - 1], attached[k])
    <3>1. CASE k = n + 1
      <4>1. k # 0 /\ k - 1 = n /\ n \in 0 .. n + 1 /\ n # n + 1
        BY <3>1
      <4>2. h[k] = TakeFile(g[n], attached[n + 1]) /\ h[n] = g[n]
        BY <3>1, <4>1
      <4> HIDE DEF h
      <4> QED
        BY <3>1, <4>1, <4>2
    <3>2. CASE k # n + 1
      <4>1. k \in 0 .. n /\ h[k] = g[k]
        BY <3>2
      <4>2. k # 0 => k - 1 \in 0 .. n + 1 /\ k - 1 # n + 1
        BY <4>1
      <4>3. k # 0 => h[k - 1] = g[k - 1]
        BY <4>2
      <4> HIDE DEF h
      <4> QED
        BY <2>2, <4>1, <4>3
    <3> QED
      BY <3>1, <3>2
  <2>4. h = [k \in 0 .. n + 1 |-> h[k]]
    OBVIOUS
  <2> HIDE DEF h
  <2>5. IsTaken(h, n + 1)
    BY <2>3, <2>4 DEF IsTaken
  <2> QED
    BY <2>5
<1> HIDE DEF S
<1>3. \A n \in Nat : n \in S
  BY <1>1, <1>2, StepsReach
<1> QED
  BY <1>3 DEF S

LEMMA TakenSteps ==
  ASSUME Len(attached) \in Nat
  PROVE  \E g : /\ TakenFiles = g[Len(attached)] /\ g[0] = NoFiles
                /\ \A k \in 1 .. Len(attached) : g[k] = TakeFile(g[k - 1], attached[k])
<1> DEFINE n == Len(attached)
           g == CHOOSE h : IsTaken(h, n)
<1>1. TakenFiles = g[n]
  BY DEF TakenFiles, IsTaken
<1>2. \E h : IsTaken(h, n)
  BY TakenExists
<1>3. IsTaken(g, n)
  BY <1>2
<1> HIDE DEF g
<1>4. \A k \in 0 .. n : g[k] = IF k = 0 THEN NoFiles ELSE TakeFile(g[k - 1], attached[k])
  BY <1>3 DEF IsTaken
<1>5. 0 \in 0 .. n /\ \A k \in 1 .. n : k \in 0 .. n /\ k # 0
  OBVIOUS
<1>6. g[0] = NoFiles /\ \A k \in 1 .. n : g[k] = TakeFile(g[k - 1], attached[k])
  BY <1>4, <1>5
<1> QED
  BY <1>1, <1>6 DEF n

LEMMA TurnTyped == FileLimit \in Nat /\ KeepTokens \in Nat /\ BufferTokens \in Nat
  BY TurnAssumption

\* The first k files, as far as the limit allows: who is cut fills the limit,
\* and nothing is taken of those behind.
FilledUp(t, k) ==
  /\ t.parts \in Seq(Nat) /\ Len(t.parts) = k /\ t.total = SumOf(t.parts)
  /\ t.total \in Nat /\ t.total <= FileLimit
  /\ \A i \in 1 .. k : t.parts[i] < attached[i] =>
       t.total = FileLimit /\ \A j \in (i + 1) .. k : t.parts[j] = 0

LEMMA OneFileMore ==
  ASSUME NEW k \in Nat, NEW t, FilledUp(t, k), NEW size \in Nat, size = attached[k + 1]
  PROVE  FilledUp(TakeFile(t, size), k + 1)
<1> DEFINE left == FileLimit - t.total
           part == IF left <= 0 THEN 0 ELSE IF size > left THEN left ELSE size
           u    == TakeFile(t, size)
<1>1. u.parts = Append(t.parts, part) /\ u.total = t.total + part
  BY DEF TakeFile
<1>2. t.parts \in Seq(Nat) /\ Len(t.parts) = k /\ t.total \in Nat /\ t.total <= FileLimit /\ t.total = SumOf(t.parts)
  BY DEF FilledUp
<1>3. /\ part \in Nat /\ t.total + part <= FileLimit
      /\ t.total = FileLimit => part = 0
      /\ part < size => t.total + part = FileLimit
  BY <1>2, TurnTyped
<1> HIDE DEF u, part
<1>4. /\ u.parts \in Seq(Nat) /\ Len(u.parts) = k + 1 /\ u.parts[k + 1] = part
      /\ \A i \in 1 .. k : u.parts[i] = t.parts[i]
  BY <1>1, <1>2, <1>3, AppendProperties
<1>5. u.total = SumOf(u.parts) /\ u.total \in Nat /\ u.total <= FileLimit
  <2>1. part \in Nat /\ t.parts \in Seq(Nat)
    BY <1>2, <1>3
  <2>2. SumOf(Append(t.parts, part)) = SumOf(t.parts) + part
    BY <2>1, SumGrows
  <2>3. SumOf(u.parts) = t.total + part
    BY <1>1, <1>2, <2>2
  <2>4. t.total + part \in Nat /\ t.total + part <= FileLimit
    BY <1>2, <1>3
  <2> QED
    BY <1>1, <2>3, <2>4
<1>6. ASSUME NEW i \in 1 .. k + 1, u.parts[i] < attached[i]
      PROVE  u.total = FileLimit /\ \A j \in (i + 1) .. k + 1 : u.parts[j] = 0
  <2>1. CASE i = k + 1
    <3>1. part < size
      BY <1>4, <1>6, <2>1
    <3>2. u.total = FileLimit
      BY <1>1, <1>3, <3>1
    <3>3. \A j \in (i + 1) .. k + 1 : FALSE
      BY <2>1
    <3> QED
      BY <3>2, <3>3
  <2>2. CASE i # k + 1
    <3>1. i \in 1 .. k
      BY <2>2
    <3>2. t.parts[i] < attached[i]
      BY <1>4, <1>6, <3>1
    <3>3. t.total = FileLimit /\ \A j \in (i + 1) .. k : t.parts[j] = 0
      BY <3>1, <3>2 DEF FilledUp
    <3>4. part = 0 /\ u.total = FileLimit
      BY <1>1, <1>2, <1>3, <3>3
    <3>5. \A j \in (i + 1) .. k + 1 : j = k + 1 \/ (j \in (i + 1) .. k /\ j \in 1 .. k)
      BY <3>1
    <3> QED
      BY <1>4, <3>3, <3>4, <3>5
  <2> QED
    BY <2>1, <2>2
<1> QED
  BY <1>4, <1>5, <1>6 DEF FilledUp, u

LEMMA FilesAreFilledUp ==
  ASSUME attached \in Seq(Nat)
  PROVE  FilledUp(TakenFiles, Len(attached))
<1> DEFINE n == Len(attached)
<1>1. n \in Nat /\ \A k \in 1 .. n : attached[k] \in Nat
  BY LenProperties, ElementOfSeq
<1>2. PICK g : /\ TakenFiles = g[n] /\ g[0] = NoFiles
               /\ \A k \in 1 .. n : g[k] = TakeFile(g[k - 1], attached[k])
  BY <1>1, TakenSteps
<1> HIDE DEF n
<1> DEFINE S == {k \in Nat : k <= n => FilledUp(g[k], k)}
<1>3. 0 \in S
  <2>1. g[0].parts = <<>> /\ g[0].total = 0
    BY <1>2 DEF NoFiles
  <2>2. <<>> \in Seq(Nat) /\ Len(<<>>) = 0
    OBVIOUS
  <2>3. SumOf(<<>>) = 0
    BY <2>2, SumsStep DEF SumOf
  <2>4. FilledUp(g[0], 0)
    BY <2>1, <2>2, <2>3, TurnTyped DEF FilledUp
  <2> QED
    BY <2>4
<1>4. ASSUME NEW k \in Nat, k \in S PROVE k + 1 \in S
  <2> SUFFICES ASSUME k + 1 <= n PROVE FilledUp(g[k + 1], k + 1)
    OBVIOUS
  <2>1. k + 1 \in 1 .. n /\ (k + 1) - 1 = k /\ k <= n
    BY <1>1
  <2>2. g[k + 1] = TakeFile(g[k], attached[k + 1]) /\ attached[k + 1] \in Nat
    BY <1>1, <1>2, <2>1
  <2>3. FilledUp(g[k], k)
    BY <1>4, <2>1
  <2> QED
    BY <2>2, <2>3, OneFileMore
<1> HIDE DEF S
<1>5. n \in S
  BY <1>1, <1>3, <1>4, StepsReach
<1>6. FilledUp(g[n], n)
  BY <1>1, <1>5 DEF S
<1> QED
  BY <1>2, <1>6 DEF n

LEMMA FilesStayWithin ==
  ASSUME attached \in Seq(Nat)
  PROVE  FilesFit /\ SumOf(FilesTaken) \in Nat
<1>1. FilledUp(TakenFiles, Len(attached)) /\ DOMAIN attached = 1 .. Len(attached)
  BY FilesAreFilledUp, LenProperties
<1> QED
  BY <1>1 DEF FilledUp, FilesTaken, FilesFit

\* A function that scans messages from the last on.
IsScan(g, n, ms, last) ==
  g = [k \in 0 .. n |-> IF k = 0 THEN NoneRecent ELSE TakeRecent(g[k - 1], ms[last - k + 1])]

LEMMA ScanExists ==
  ASSUME NEW ms, NEW last
  PROVE  \A n \in Nat : \E g : IsScan(g, n, ms, last)
<1> DEFINE S == {n \in Nat : \E g : IsScan(g, n, ms, last)}
<1>1. 0 \in S
  <2> DEFINE g == [k \in 0 .. 0 |-> NoneRecent]
  <2>1. \A k \in 0 .. 0 : k = 0
    OBVIOUS
  <2>2. g = [k \in 0 .. 0 |-> IF k = 0 THEN NoneRecent ELSE TakeRecent(g[k - 1], ms[last - k + 1])]
    BY <2>1
  <2>3. IsScan(g, 0, ms, last)
    BY <2>2 DEF IsScan
  <2> HIDE DEF g
  <2> QED
    BY <2>3
<1>2. ASSUME NEW n \in Nat, n \in S PROVE n + 1 \in S
  <2>1. PICK g : IsScan(g, n, ms, last)
    BY <1>2
  <2> DEFINE h == [k \in 0 .. n + 1 |-> IF k = n + 1 THEN TakeRecent(g[n], ms[last - (n + 1) + 1]) ELSE g[k]]
  <2>2. \A k \in 0 .. n : g[k] = IF k = 0 THEN NoneRecent ELSE TakeRecent(g[k - 1], ms[last - k + 1])
    BY <2>1 DEF IsScan
  <2>3. ASSUME NEW k \in 0 .. n + 1
        PROVE  h[k] = IF k = 0 THEN NoneRecent ELSE TakeRecent(h[k - 1], ms[last - k + 1])
    <3>1. CASE k = n + 1
      <4>1. k # 0 /\ k - 1 = n /\ n \in 0 .. n + 1 /\ n # n + 1
        BY <3>1
      <4>2. h[k] = TakeRecent(g[n], ms[last - (n + 1) + 1]) /\ h[n] = g[n]
        BY <3>1, <4>1
      <4> HIDE DEF h
      <4> QED
        BY <3>1, <4>1, <4>2
    <3>2. CASE k # n + 1
      <4>1. k \in 0 .. n /\ h[k] = g[k]
        BY <3>2
      <4>2. k # 0 => k - 1 \in 0 .. n + 1 /\ k - 1 # n + 1
        BY <4>1
      <4>3. k # 0 => h[k - 1] = g[k - 1]
        BY <4>2
      <4> HIDE DEF h
      <4> QED
        BY <2>2, <4>1, <4>3
    <3> QED
      BY <3>1, <3>2
  <2>4. h = [k \in 0 .. n + 1 |-> h[k]]
    OBVIOUS
  <2> HIDE DEF h
  <2>5. IsScan(h, n + 1, ms, last)
    BY <2>3, <2>4 DEF IsScan
  <2> QED
    BY <2>5
<1> HIDE DEF S
<1>3. \A n \in Nat : n \in S
  BY <1>1, <1>2, StepsReach
<1> QED
  BY <1>3 DEF S

LEMMA ScanSteps ==
  ASSUME NEW ms, Len(ms) \in Nat
  PROVE  \E g : /\ RecentLength(ms) = g[Len(ms)].count /\ g[0] = NoneRecent
                /\ \A k \in 1 .. Len(ms) : g[k] = TakeRecent(g[k - 1], ms[Len(ms) - k + 1])
<1> DEFINE n == Len(ms)
           g == CHOOSE h : IsScan(h, n, ms, n)
<1>1. RecentLength(ms) = g[n].count
  BY DEF RecentLength, IsScan
<1>2. \E h : IsScan(h, n, ms, n)
  BY ScanExists
<1>3. IsScan(g, n, ms, n)
  BY <1>2
<1> HIDE DEF g
<1>4. \A k \in 0 .. n : g[k] = IF k = 0 THEN NoneRecent ELSE TakeRecent(g[k - 1], ms[Len(ms) - k + 1])
  BY <1>3 DEF IsScan
<1>5. 0 \in 0 .. n /\ \A k \in 1 .. n : k \in 0 .. n /\ k # 0
  OBVIOUS
<1>6. g[0] = NoneRecent /\ \A k \in 1 .. n : g[k] = TakeRecent(g[k - 1], ms[Len(ms) - k + 1])
  BY <1>4, <1>5
<1> QED
  BY <1>1, <1>6 DEF n

\* The messages of a turn.
TurnMessages ==
  [role : Roles, size : Nat, of : {"session", "instruction", "plugins", "files", "prompt", "request"}]

SizesOf(ms) == [k \in DOMAIN ms |-> ms[k].size]

LEMMA SizesAreNat ==
  ASSUME NEW ms \in Seq(TurnMessages)
  PROVE  /\ SizesOf(ms) \in Seq(Nat) /\ Len(SizesOf(ms)) = Len(ms) /\ Len(ms) \in Nat
         /\ DOMAIN ms = 1 .. Len(ms)
         /\ \A k \in 1 .. Len(ms) : SizesOf(ms)[k] = ms[k].size
<1>1. Len(ms) \in Nat /\ DOMAIN ms = 1 .. Len(ms) /\ \A k \in 1 .. Len(ms) : ms[k] \in TurnMessages
  BY LenProperties, ElementOfSeq
<1>2. \A k \in 1 .. Len(ms) : ms[k].size \in Nat
  BY <1>1 DEF TurnMessages
<1>3. SizesOf(ms) = [k \in 1 .. Len(ms) |-> ms[k].size]
  BY <1>1 DEF SizesOf
<1>4. SizesOf(ms) \in [1 .. Len(ms) -> Nat]
  BY <1>2, <1>3
<1>5. SizesOf(ms) \in Seq(Nat) /\ Len(SizesOf(ms)) = Len(ms)
  <2> DEFINE n == Len(ms)
             z == SizesOf(ms)
  <2>1. n \in Nat /\ z \in [1 .. n -> Nat]
    BY <1>1, <1>4
  <2> HIDE DEF n, z
  <2>2. z \in Seq(Nat) /\ DOMAIN z = 1 .. n
    BY <2>1, SeqDef
  <2>3. Len(z) = n
    BY <2>1, <2>2, LenProperties
  <2> QED
    BY <2>2, <2>3 DEF z, n
<1> QED
  BY <1>1, <1>3, <1>5

\* What the last k messages take.
LEMMA SuffixTokens ==
  ASSUME NEW ms \in Seq(TurnMessages), NEW k \in 0 .. Len(ms)
  PROVE  /\ Suffix(ms, k) \in Seq(TurnMessages) /\ Len(Suffix(ms, k)) = k
         /\ \A i \in 1 .. k : Suffix(ms, k)[i] = ms[(Len(ms) - k) + i]
         /\ TotalTokens(Suffix(ms, k)) = SumsOf(SizesOf(ms))[Len(ms)] - SumsOf(SizesOf(ms))[Len(ms) - k]
<1> DEFINE n == Len(ms)
           t == Suffix(ms, k)
<1>1. n \in Nat /\ k \in 0 .. n /\ \A i \in 1 .. n : ms[i] \in TurnMessages
  BY LenProperties, ElementOfSeq
<1>2. t = SubSeq(ms, n - k + 1, n)
  BY DEF Suffix
<1>3. t \in Seq(TurnMessages) /\ Len(t) = k /\ \A i \in 1 .. k : t[i] = ms[(n - k) + i]
  <2>1. n - k + 1 \in Int /\ n \in Int /\ \A i \in (n - k + 1) .. n : i \in 1 .. n
    BY <1>1
  <2>2. \A i \in (n - k + 1) .. n : ms[i] \in TurnMessages
    BY <1>1, <2>1
  <2> DEFINE m == n - k + 1
  <2>3. m \in Int /\ n \in Int /\ \A i \in m .. n : ms[i] \in TurnMessages
    BY <2>1, <2>2
  <2>4. /\ t \in Seq(TurnMessages) /\ Len(t) = (IF m <= n THEN n - m + 1 ELSE 0)
        /\ \A i \in 1 .. n - m + 1 : t[i] = ms[m + i - 1]
    <3> HIDE DEF m, t, n
    <3>1. t = SubSeq(ms, m, n)
      BY <1>2 DEF m
    <3> QED
      BY <2>3, <3>1, SubSeqProperties
  <2> HIDE DEF t, n
  <2>5. n - m + 1 = k /\ (m <= n => k > 0) /\ (~(m <= n) => k = 0) /\ \A i \in 1 .. k : m + i - 1 = (n - k) + i
    BY <1>1
  <2> HIDE DEF m
  <2> QED
    BY <2>4, <2>5
<1>4. /\ SizesOf(ms) \in Seq(Nat) /\ Len(SizesOf(ms)) = n
      /\ \A i \in 1 .. n : SizesOf(ms)[i] = ms[i].size
  BY SizesAreNat
<1>5. /\ SizesOf(t) \in Seq(Nat) /\ Len(SizesOf(t)) = k
      /\ \A i \in 1 .. k : SizesOf(t)[i] = t[i].size
  <2> HIDE DEF t
  <2> QED
    BY <1>3, SizesAreNat
<1> HIDE DEF t, n
<1> DEFINE d == n - k
           z == SizesOf(ms)
           y == SizesOf(t)
<1>6. d \in Nat /\ d + k = n /\ \A i \in 1 .. k : d + i \in 1 .. n
  BY <1>1
<1>7. \A i \in 1 .. k : y[i] = z[d + i]
  BY <1>3, <1>4, <1>5, <1>6
<1>8. z \in Seq(Nat) /\ y \in Seq(Nat) /\ d + Len(y) <= Len(z) /\ \A i \in 1 .. Len(y) : y[i] = z[d + i]
  <2>1. z \in Seq(Nat) /\ Len(z) = n
    BY <1>4
  <2>2. y \in Seq(Nat) /\ Len(y) = k
    BY <1>5
  <2> HIDE DEF z, y, d
  <2>3. d + Len(y) <= Len(z)
    BY <1>1, <1>6, <2>1, <2>2
  <2>4. \A i \in 1 .. Len(y) : y[i] = z[d + i]
    BY <1>7, <2>2
  <2> QED
    BY <2>1, <2>2, <2>3, <2>4
<1> HIDE DEF z, y, d
<1>9. SumsOf(y)[k] = SumsOf(z)[d + k] - SumsOf(z)[d]
  <2>1. k \in 0 .. Len(y)
    BY <1>1, <1>5 DEF y
  <2> QED
    BY <1>6, <1>8, <2>1, SumsOfPart
<1>10. TotalTokens(t) = SumsOf(y)[k]
  BY <1>5 DEF TotalTokens, SumOf, y, SizesOf
<1>11. TotalTokens(t) = SumsOf(z)[n] - SumsOf(z)[d]
  BY <1>6, <1>9, <1>10
<1> QED
  BY <1>3, <1>11 DEF t, n, z, d

\* How far the scan has come after k messages, of those whose sums are p: it is
\* still open, or the next one would have gone beyond the budget.
Scanned(r, k, p, n) ==
  /\ r.count \in 0 .. k /\ r.tokens = p[n] - p[n - r.count]
  /\ k > 0 => r.count > 0
  /\ r.open \in BOOLEAN /\ (r.open => r.count = k)
  /\ r.count > 1 => r.tokens <= KeepTokens
  /\ ~r.open => r.count > 0 /\ r.count < k /\ p[n] - p[n - (r.count + 1)] > KeepTokens

LEMMA OneMessageMore ==
  ASSUME NEW n \in Nat, NEW k \in 0 .. n, k < n, NEW p, \A i \in 0 .. n : p[i] \in Nat,
         NEW m, m.size \in Nat, p[n - k] = p[n - (k + 1)] + m.size,
         NEW r, Scanned(r, k, p, n)
  PROVE  Scanned(TakeRecent(r, m), k + 1, p, n)
<1> DEFINE q == TakeRecent(r, m)
           c == r.count
           x == m.size
<1>1. /\ c \in 0 .. k /\ r.tokens = p[n] - p[n - c] /\ (k > 0 => c > 0) /\ r.open \in BOOLEAN
      /\ (r.open => c = k) /\ (c > 1 => r.tokens <= KeepTokens)
      /\ (~r.open => c > 0 /\ c < k /\ p[n] - p[n - (c + 1)] > KeepTokens)
  BY DEF Scanned
<1>2. /\ n - c \in 0 .. n /\ n \in 0 .. n /\ n - (k + 1) \in 0 .. n /\ n - k \in 0 .. n
  BY <1>1
<1>3. p[n] \in Nat /\ p[n - c] \in Nat /\ p[n - (k + 1)] \in Nat /\ p[n - k] \in Nat /\ x \in Nat
  BY <1>2
<1>4. CASE ~r.open
  <2>1. q.count = c /\ q.tokens = r.tokens /\ q.open = FALSE
    BY <1>4 DEF TakeRecent
  <2>2. c \in 0 .. k + 1 /\ c > 0 /\ c < k + 1
    BY <1>1, <1>4
  <2>3. q.tokens = p[n] - p[n - c]
    BY <1>1, <2>1
  <2> HIDE DEF q
  <2>4. Scanned(q, k + 1, p, n)
    BY <1>1, <1>4, <2>1, <2>2, <2>3 DEF Scanned
  <2> QED
    BY <2>4 DEF q
<1>5. CASE r.open /\ r.tokens + x > KeepTokens /\ c > 0
  <2>1. q.count = c /\ q.tokens = r.tokens /\ q.open = FALSE
    BY <1>5 DEF TakeRecent
  <2>2. c = k /\ c \in 0 .. k + 1 /\ c < k + 1 /\ c + 1 = k + 1
    BY <1>1, <1>5
  <2>3. p[n - c] = p[n - (c + 1)] + x /\ p[n - (c + 1)] \in Nat
    BY <1>3, <2>2
  <2>4. p[n] - p[n - (c + 1)] = r.tokens + x
    BY <1>1, <1>3, <2>3
  <2>5. p[n] - p[n - (c + 1)] > KeepTokens
    BY <1>5, <2>4
  <2>6. q.tokens = p[n] - p[n - c] /\ q.count > 0 /\ (q.count > 1 => q.tokens <= KeepTokens)
    BY <1>1, <1>5, <2>1
  <2> HIDE DEF q
  <2>7. Scanned(q, k + 1, p, n)
    BY <2>1, <2>2, <2>5, <2>6 DEF Scanned
  <2> QED
    BY <2>7 DEF q
<1>6. CASE r.open /\ ~(r.tokens + x > KeepTokens /\ c > 0)
  <2>1. q.count = c + 1 /\ q.tokens = r.tokens + x /\ q.open = TRUE
    BY <1>6 DEF TakeRecent
  <2>2. c = k /\ c + 1 \in 0 .. k + 1 /\ c + 1 > 0
    BY <1>1, <1>6
  <2>3. p[n - c] = p[n - (c + 1)] + x /\ p[n - (c + 1)] \in Nat
    BY <1>3, <2>2
  <2>4. r.tokens + x = p[n] - p[n - (c + 1)] /\ r.tokens + x \in Int
    BY <1>1, <1>3, <2>3
  <2>5. c + 1 > 1 => r.tokens + x <= KeepTokens
    BY <1>1, <1>6, <2>4, TurnTyped
  <2> HIDE DEF q
  <2>6. Scanned(q, k + 1, p, n)
    BY <2>1, <2>2, <2>4, <2>5 DEF Scanned
  <2> QED
    BY <2>6 DEF q
<1> QED
  BY <1>1, <1>4, <1>5, <1>6

\* What is kept is the longest end of the messages within the budget, or the
\* last one alone.
LEMMA RecentIsLongest ==
  ASSUME NEW ms \in Seq(TurnMessages), Len(ms) > 0
  PROVE  LET n == Len(ms)
             c == RecentLength(ms)
             p == SumsOf(SizesOf(ms)) IN
         /\ c \in 1 .. n /\ (c = 1 \/ p[n] - p[n - c] <= KeepTokens)
         /\ c < n => p[n] - p[n - (c + 1)] > KeepTokens
<1> DEFINE n == Len(ms)
           c == RecentLength(ms)
           z == SizesOf(ms)
           p == SumsOf(z)
<1>1. n \in Nat /\ z \in Seq(Nat) /\ Len(z) = n /\ \A k \in 1 .. n : z[k] = ms[k].size
  BY SizesAreNat
<1>2. PICK g : /\ c = g[n].count /\ g[0] = NoneRecent
               /\ \A k \in 1 .. n : g[k] = TakeRecent(g[k - 1], ms[n - k + 1])
  BY <1>1, ScanSteps
<1>3. n > 0
  OBVIOUS
<1> HIDE DEF n, c, z
<1>4. (\A k \in 0 .. n : p[k] \in Nat) /\ (\A k \in 1 .. n : p[k] = p[k - 1] + z[k] /\ z[k] \in Nat)
  <2>1. \A k \in 0 .. n : p[k] \in Nat
    BY <1>1, SumsAreNat
  <2>2. \A k \in 1 .. n : p[k] = p[k - 1] + z[k]
    BY <1>1, SumsStep
  <2>3. \A k \in 1 .. n : z[k] \in Nat
    BY <1>1, ElementOfSeq
  <2> QED
    BY <2>1, <2>2, <2>3
<1> HIDE DEF p
<1> DEFINE S == {k \in Nat : k <= n => Scanned(g[k], k, p, n)}
<1>5. 0 \in S
  <2>1. g[0].count = 0 /\ g[0].tokens = 0 /\ g[0].open = TRUE
    BY <1>2 DEF NoneRecent
  <2>2. p[n] - p[n - 0] = 0
    <3>1. n - 0 = n /\ n \in 0 .. n /\ p[n] \in Nat
      BY <1>1, <1>4
    <3> QED
      BY <3>1
  <2> DEFINE r == g[0]
  <2> HIDE DEF r
  <2>3. r.count = 0 /\ r.tokens = 0 /\ r.open = TRUE
    BY <2>1 DEF r
  <2>4. r.tokens = p[n] - p[n - r.count]
    BY <2>2, <2>3
  <2>5. r.count \in 0 .. 0 /\ ~(0 > 0) /\ r.count = 0 /\ ~(r.count > 1)
    BY <2>3
  <2>6. Scanned(r, 0, p, n)
    BY <2>3, <2>4, <2>5 DEF Scanned
  <2>7. Scanned(g[0], 0, p, n)
    BY <2>6 DEF r
  <2> QED
    BY <2>7
<1>6. ASSUME NEW k \in Nat, k \in S PROVE k + 1 \in S
  <2> SUFFICES ASSUME k + 1 <= n PROVE Scanned(g[k + 1], k + 1, p, n)
    OBVIOUS
  <2>1. /\ k + 1 \in 1 .. n /\ (k + 1) - 1 = k /\ k <= n /\ k \in 0 .. n /\ k < n
        /\ n - (k + 1) + 1 = n - k /\ n - k \in 1 .. n /\ (n - k) - 1 = n - (k + 1)
    BY <1>1
  <2>2. g[k + 1] = TakeRecent(g[k], ms[n - k])
    BY <1>2, <2>1
  <2>3. Scanned(g[k], k, p, n)
    BY <1>6, <2>1
  <2>4. p[n - k] = p[n - (k + 1)] + ms[n - k].size /\ ms[n - k].size \in Nat
    BY <1>1, <1>4, <2>1
  <2> DEFINE m == ms[n - k]
             r == g[k]
  <2>5. m.size \in Nat /\ p[n - k] = p[n - (k + 1)] + m.size
    BY <2>4
  <2>6. \A i \in 0 .. n : p[i] \in Nat
    BY <1>4
  <2>7. k \in 0 .. n /\ k < n /\ n \in Nat
    BY <1>1, <2>1
  <2>8. Scanned(r, k, p, n)
    BY <2>3
  <2> HIDE DEF S, m, r
  <2>9. Scanned(TakeRecent(r, m), k + 1, p, n)
    BY <2>5, <2>6, <2>7, <2>8, OneMessageMore
  <2> QED
    BY <2>2, <2>9 DEF m, r
<1> HIDE DEF S
<1>7. n \in S
  BY <1>1, <1>5, <1>6, StepsReach
<1>8. Scanned(g[n], n, p, n)
  BY <1>1, <1>7 DEF S
<1>9. /\ c \in 0 .. n /\ g[n].tokens = p[n] - p[n - c] /\ c > 0
      /\ (g[n].open => c = n) /\ (c > 1 => g[n].tokens <= KeepTokens)
      /\ (~g[n].open => p[n] - p[n - (c + 1)] > KeepTokens)
  BY <1>2, <1>3, <1>8 DEF Scanned
<1>10. c \in 1 .. n /\ (c = 1 \/ c > 1) /\ (c < n => c # n)
  BY <1>1, <1>9
<1>11. /\ c \in 1 .. n /\ (c = 1 \/ p[n] - p[n - c] <= KeepTokens)
       /\ c < n => p[n] - p[n - (c + 1)] > KeepTokens
  BY <1>9, <1>10
<1> QED
  BY <1>11 DEF n, c, p, z

\* A list with one item more at its end.
LEMMA OneMore ==
  ASSUME NEW T, NEW s \in Seq(T), NEW x \in T
  PROVE  /\ s \o <<x>> \in Seq(T) /\ Len(s) \in Nat /\ Len(s \o <<x>>) = Len(s) + 1
         /\ (s \o <<x>>)[Len(s) + 1] = x
         /\ \A i \in 1 .. Len(s) : (s \o <<x>>)[i] = s[i]
<1> DEFINE e == <<x>>
           n == Len(s)
<1>1. e \in Seq(T) /\ Len(e) = 1 /\ e[1] = x /\ n \in Nat
  BY LenProperties
<1> HIDE DEF e
<1>2. /\ s \o e \in Seq(T) /\ Len(s \o e) = n + Len(e)
      /\ \A i \in 1 .. n + Len(e) : (s \o e)[i] = IF i <= n THEN s[i] ELSE e[i - n]
  BY <1>1, ConcatProperties
<1> HIDE DEF n
<1>3. n + 1 \in 1 .. n + 1 /\ ~(n + 1 <= n) /\ (n + 1) - n = 1
  BY <1>1
<1>4. \A i \in 1 .. n : i \in 1 .. n + 1 /\ i <= n
  BY <1>1
<1>5. (s \o e)[n + 1] = x
  BY <1>1, <1>2, <1>3
<1>6. \A i \in 1 .. n : (s \o e)[i] = s[i]
  BY <1>1, <1>2, <1>4
<1>7. s \o e \in Seq(T) /\ Len(s \o e) = n + 1
  BY <1>1, <1>2
<1> QED
  BY <1>1, <1>5, <1>6, <1>7 DEF e, n

\* The messages of a turn begin with the system's and end with the user's.
OpenTurn(ms) ==
  /\ ms \in Seq(TurnMessages) /\ Len(ms) \in Nat /\ Len(ms) > 1
  /\ ms[1].role = "system" /\ ms[Len(ms)] = UserMessage

LEMMA EndsWithRequest ==
  ASSUME NEW b \in Seq(TurnMessages), b # <<>>, b[1].role = "system"
  PROVE  OpenTurn(b \o <<UserMessage>>)
<1>1. UserMessage \in TurnMessages
  BY DEF UserMessage, MessageOf, TurnMessages, Roles
<1>2. Len(b) \in Nat /\ Len(b) > 0
  BY LenProperties, EmptySeq
<1> DEFINE x == UserMessage
           t == b \o <<x>>
<1>3. /\ t \in Seq(TurnMessages) /\ Len(t) = Len(b) + 1 /\ t[Len(b) + 1] = x
      /\ \A i \in 1 .. Len(b) : t[i] = b[i]
  <2> HIDE DEF x
  <2> QED
    BY <1>1, OneMore DEF x
<1> HIDE DEF t, x
<1>4. Len(t) \in Nat /\ Len(t) > 1 /\ 1 \in 1 .. Len(b)
  BY <1>2, <1>3
<1>5. t[1].role = "system" /\ t[Len(t)] = x
  BY <1>3, <1>4
<1> QED
  BY <1>3, <1>4, <1>5 DEF OpenTurn, t, x

LEMMA TurnIsOpen ==
  ASSUME talk \in Seq(TurnMessages), attached \in Seq(Nat)
  PROVE  OpenTurn(ContextMessages)
<1> DEFINE given == MessageOf("system", SumOf(FilesTaken), "files")
           prompt == MessageOf("system", SumOf(FilesTaken), "prompt")
           built == BuildContext
<1>1. given \in TurnMessages /\ prompt \in TurnMessages /\ prompt.role = "system"
  BY FilesStayWithin DEF MessageOf, TurnMessages, Roles
<1>2. built \in Seq(TurnMessages)
  <2>1. ASSUME NEW of \in {"instruction", "plugins"}, NEW there
        PROVE  SystemOf(of, there) \in Seq(TurnMessages)
    <3> DEFINE m == MessageOf("system", 0, of)
    <3>1. m \in TurnMessages
      BY DEF MessageOf, TurnMessages, Roles
    <3> HIDE DEF m
    <3>2. <<m>> \in Seq(TurnMessages) /\ <<>> \in Seq(TurnMessages)
      BY <3>1
    <3> QED
      BY <3>2 DEF SystemOf, m
  <2> DEFINE d == SystemOf("instruction", instruction)
             e == SystemOf("plugins", pluginText)
  <2>2. d \in Seq(TurnMessages) /\ e \in Seq(TurnMessages)
    BY <2>1
  <2>3. BuildContext = (d \o e) \o talk
    BY DEF BuildContext
  <2> HIDE DEF d, e
  <2>4. d \o e \in Seq(TurnMessages)
    BY <2>2, ConcatProperties
  <2>5. (d \o e) \o talk \in Seq(TurnMessages)
    BY <2>4, ConcatProperties
  <2> QED
    BY <2>3, <2>5
<1> HIDE DEF given, prompt, built
<1>3. CASE built = <<>> \/ Head(built).role # "system"
  <2> DEFINE b == <<prompt>> \o built
  <2>1. ContextMessages = b \o <<UserMessage>>
    BY <1>3 DEF ContextMessages, prompt, built
  <2>2. <<prompt>> \in Seq(TurnMessages) /\ Len(<<prompt>>) = 1 /\ <<prompt>>[1] = prompt
    BY <1>1
  <2>3. b \in Seq(TurnMessages) /\ Len(b) = 1 + Len(built) /\ Len(built) \in Nat
    BY <1>2, <2>2, ConcatProperties, LenProperties
  <2>4. b[1] = prompt
    <3> DEFINE e == <<prompt>>
    <3>1. e \in Seq(TurnMessages) /\ Len(e) = 1 /\ e[1] = prompt
      BY <2>2
    <3> HIDE DEF e
    <3>2. \A i \in 1 .. Len(e) + Len(built) : (e \o built)[i] = IF i <= Len(e) THEN e[i] ELSE built[i - Len(e)]
      BY <1>2, <3>1, ConcatProperties
    <3>3. 1 \in 1 .. Len(e) + Len(built) /\ 1 <= Len(e)
      BY <2>3, <3>1
    <3>4. (e \o built)[1] = prompt
      BY <3>1, <3>2, <3>3
    <3> QED
      BY <3>4 DEF e
  <2> HIDE DEF b
  <2>5. Len(b) # 0
    BY <2>3
  <2>6. b # <<>> /\ b[1].role = "system"
    BY <1>1, <2>3, <2>4, <2>5, EmptySeq
  <2> QED
    BY <2>1, <2>3, <2>6, EndsWithRequest
<1>4. CASE ~(built = <<>> \/ Head(built).role # "system")
  <2> DEFINE f == IF attached = <<>> THEN <<>> ELSE <<given>>
             b == built \o f
  <2>1. ContextMessages = b \o <<UserMessage>>
    BY <1>4 DEF ContextMessages, given, built
  <2>2. f \in Seq(TurnMessages) /\ Len(f) \in Nat
    BY <1>1
  <2> HIDE DEF f
  <2>3. built # <<>> /\ built[1].role = "system" /\ Len(built) \in Nat /\ Len(built) > 0
    <3>1. Len(built) \in Nat /\ Len(built) # 0
      BY <1>2, <1>4, LenProperties, EmptySeq
    <3>2. Head(built) = built[1]
      BY <1>2, <1>4
    <3> QED
      BY <1>4, <3>1, <3>2
  <2>4. /\ b \in Seq(TurnMessages) /\ Len(b) = Len(built) + Len(f)
        /\ \A i \in 1 .. Len(built) + Len(f) : b[i] = IF i <= Len(built) THEN built[i] ELSE f[i - Len(built)]
    BY <1>2, <2>2, ConcatProperties
  <2> HIDE DEF b
  <2>5. 1 \in 1 .. Len(built) + Len(f) /\ 1 <= Len(built) /\ Len(b) # 0
    BY <2>2, <2>3, <2>4
  <2>6. b # <<>> /\ b[1].role = "system"
    BY <2>3, <2>4, <2>5, EmptySeq
  <2> QED
    BY <2>1, <2>4, <2>6, EndsWithRequest
<1> QED
  BY <1>3, <1>4

\* The first of the kept items, when the first item is kept.
LEMMA FirstIsKept ==
  ASSUME NEW T, NEW s \in Seq(T), NEW W \in SUBSET DOMAIN s, 1 \in W
  PROVE  SubSeq(ItemsAt(s, W), 1, 1) = <<s[1]>>
<1> DEFINE t == ItemsAt(s, W)
           c == Cardinality(W)
<1>1. /\ c \in Nat /\ t \in Seq(T) /\ Len(t) = c
      /\ \A i \in 1 .. c : PlaceIn(W, i) \in W /\ t[i] = s[PlaceIn(W, i)]
  BY KeptItems
<1>2. Len(s) \in Nat /\ DOMAIN s = 1 .. Len(s)
  BY LenProperties
<1>3. /\ \A k \in W : RankIn(W, k) \in 1 .. c
      /\ \A k, l \in W : k < l => RankIn(W, k) < RankIn(W, l)
      /\ \A i \in 1 .. c : \E k \in W : RankIn(W, k) = i
  BY <1>2, RanksNumber
<1>4. \A k \in W : k \in Nat /\ (k = 1 \/ 1 < k)
  BY <1>2
<1>5. c > 0
  BY <1>1, <1>3
<1>6. RankIn(W, 1) = 1
  <2>1. PICK k \in W : RankIn(W, k) = 1
    BY <1>1, <1>3, <1>5
  <2>2. RankIn(W, 1) \in 1 .. c
    BY <1>3
  <2>3. k = 1 \/ RankIn(W, 1) < 1
    BY <1>3, <1>4, <2>1
  <2> QED
    BY <2>1, <2>2, <2>3
<1>7. PlaceIn(W, 1) = 1
  <2>1. PlaceIn(W, 1) \in W /\ RankIn(W, PlaceIn(W, 1)) = 1
    BY <1>6 DEF PlaceIn, RankIn
  <2>2. PlaceIn(W, 1) = 1 \/ 1 < RankIn(W, PlaceIn(W, 1))
    BY <1>3, <1>4, <1>6, <2>1
  <2> QED
    BY <2>1, <2>2
<1>8. t[1] = s[1] /\ t[1] \in T
  <2>1. 1 \in 1 .. c
    BY <1>1, <1>5
  <2>2. s[1] \in T
    BY <1>2, ElementOfSeq
  <2> QED
    BY <1>1, <1>7, <2>1, <2>2
<1> HIDE DEF t
<1> DEFINE u == SubSeq(t, 1, 1)
<1>9. u \in Seq(T) /\ Len(u) = 1 /\ u[1] = t[1]
  <2>1. \A i \in 1 .. 1 : t[i] \in T
    BY <1>8
  <2>2. u \in Seq(T) /\ Len(u) = 1 - 1 + 1 /\ \A i \in 1 .. 1 - 1 + 1 : u[i] = t[1 + i - 1]
    BY <2>1, SubSeqProperties
  <2>3. 1 \in 1 .. 1 - 1 + 1 /\ 1 + 1 - 1 = 1 /\ 1 - 1 + 1 = 1
    OBVIOUS
  <2> HIDE DEF u
  <2> QED
    BY <2>2, <2>3
<1>10. u = <<t[1]>>
  <2>1. <<t[1]>> \in Seq(T) /\ Len(<<t[1]>>) = 1 /\ <<t[1]>>[1] = t[1]
    BY <1>8
  <2>2. Len(u) = Len(<<t[1]>>) /\ \A i \in 1 .. Len(u) : u[i] = <<t[1]>>[i]
    BY <1>9, <2>1
  <2> HIDE DEF u
  <2> QED
    BY <1>9, <2>1, <2>2, SeqEqual
<1> QED
  BY <1>8, <1>10 DEF t, u

\* With a note among them.
SentMessages ==
  [role : Roles, size : Nat,
   of : {"session", "instruction", "plugins", "files", "prompt", "request", "note"}]

TurnNote == MessageOf("system", 0, "note")

LEMMA SentTyped == TurnMessages \subseteq SentMessages /\ TurnNote \in SentMessages
BY DEF TurnMessages, SentMessages, TurnNote, MessageOf, Roles

\* A list with two messages before it ends as the list does.
LEMMA TwoBefore ==
  ASSUME NEW a \in SentMessages, NEW b \in SentMessages, NEW t \in Seq(SentMessages)
  PROVE  LET s == <<a>> \o <<b>> \o t IN
         /\ s \in Seq(SentMessages) /\ Len(t) \in Nat /\ Len(s) = Len(t) + 2
         /\ s[1] = a /\ s[2] = b
         /\ \A i \in 1 .. Len(t) : s[2 + i] = t[i]
         /\ Suffix(s, Len(t)) = t
<1> DEFINE e == <<a>> \o <<b>>
           s == e \o t
           n == Len(t)
<1>1. e \in Seq(SentMessages) /\ Len(e) = 2 /\ e[1] = a /\ e[2] = b /\ n \in Nat
  BY LenProperties
<1> HIDE DEF e
<1>2. /\ s \in Seq(SentMessages) /\ Len(s) = Len(e) + n
      /\ \A i \in 1 .. Len(e) + n : s[i] = IF i <= Len(e) THEN e[i] ELSE t[i - Len(e)]
  BY <1>1, ConcatProperties
<1> HIDE DEF s, n
<1>3. 1 \in 1 .. 2 + n /\ 2 \in 1 .. 2 + n /\ 1 <= 2 /\ 2 <= 2
  BY <1>1
<1>4. \A i \in 1 .. n : 2 + i \in 1 .. 2 + n /\ ~(2 + i <= 2) /\ (2 + i) - 2 = i
  BY <1>1
<1>5. s[1] = a /\ s[2] = b
  BY <1>1, <1>2, <1>3
<1>6. \A i \in 1 .. n : s[2 + i] = t[i]
  BY <1>1, <1>2, <1>4
<1>7. Len(s) = n + 2
  BY <1>1, <1>2
<1> DEFINE u == SubSeq(s, 3, n + 2)
<1>8. Suffix(s, n) = u
  <2>1. Len(s) - n + 1 = 3
    BY <1>1, <1>7
  <2> QED
    BY <1>7, <2>1 DEF Suffix
<1>9. u \in Seq(SentMessages) /\ Len(u) = n /\ \A i \in 1 .. n : u[i] = t[i]
  <2> DEFINE m == n + 2
  <2>1. m \in Int /\ \A i \in 3 .. m : i \in 1 .. Len(s)
    BY <1>1, <1>7
  <2>2. \A i \in 3 .. m : s[i] \in SentMessages
    BY <1>2, <2>1, ElementOfSeq
  <2> HIDE DEF m
  <2>3. /\ SubSeq(s, 3, m) \in Seq(SentMessages)
        /\ Len(SubSeq(s, 3, m)) = IF 3 <= m THEN m - 3 + 1 ELSE 0
        /\ \A i \in 1 .. m - 3 + 1 : SubSeq(s, 3, m)[i] = s[3 + i - 1]
    BY <2>1, <2>2, SubSeqProperties
  <2>4. (3 <= m => m - 3 + 1 = n) /\ (~(3 <= m) => n = 0) /\ m - 3 + 1 = n
    BY <1>1 DEF m
  <2>5. \A i \in 1 .. n : 3 + i - 1 = 2 + i
    BY <1>1
  <2>6. u = SubSeq(s, 3, m)
    BY DEF m
  <2> HIDE DEF u
  <2> QED
    BY <1>6, <2>3, <2>4, <2>5, <2>6
<1>10. u = t
  <2>1. Len(u) = Len(t) /\ \A i \in 1 .. Len(u) : u[i] = t[i]
    BY <1>9 DEF n
  <2> HIDE DEF u
  <2> QED
    BY <1>9, <2>1, SeqEqual
<1> HIDE DEF u
<1>11. Suffix(s, n) = t
  BY <1>8, <1>10
<1> QED
  BY <1>1, <1>2, <1>5, <1>6, <1>7, <1>11 DEF s, e, n

\* What is cut leaves the first message, a note and the recent ones.
LEMMA CutLeaves ==
  ASSUME NEW all, OpenTurn(all)
  PROVE  LET c == RecentLength(all) IN
         \/ Compress(all) = all
         \/ c < Len(all) /\ Compress(all) = <<all[1]>> \o <<TurnNote>> \o Suffix(all, c)
<1> DEFINE n == Len(all)
           c == RecentLength(all)
           t == Suffix(all, c)
           W == {k \in DOMAIN all : all[k].role = "system"}
           systems == ItemsAt(all, W)
<1>1. all \in Seq(TurnMessages) /\ n \in Nat /\ n > 1 /\ all[1].role = "system"
  BY DEF OpenTurn
<1>2. W \in SUBSET DOMAIN all /\ 1 \in W
  BY <1>1, LenProperties
<1>3. SubSeq(systems, 1, 1) = <<all[1]>>
  <2> HIDE DEF W
  <2> QED
    BY <1>1, <1>2, FirstIsKept
<1>4. Compress(all) = IF TotalTokens(all) <= BufferTokens \/ Len(t) = n THEN all
                      ELSE SubSeq(systems, 1, 1) \o <<TurnNote>> \o t
  BY DEF Compress, Suffix, TurnNote
<1>5. c \in 1 .. n
  BY <1>1, RecentIsLongest
<1>6. Len(t) = c
  <2> HIDE DEF c
  <2>1. c \in 0 .. Len(all)
    BY <1>1, <1>5
  <2> QED
    BY <1>1, <2>1, SuffixTokens
<1> HIDE DEF t, systems, c
<1>7. CASE TotalTokens(all) <= BufferTokens \/ Len(t) = n
  BY <1>4, <1>7 DEF c
<1>8. CASE ~(TotalTokens(all) <= BufferTokens \/ Len(t) = n)
  <2>1. Compress(all) = <<all[1]>> \o <<TurnNote>> \o t
    BY <1>3, <1>4, <1>8
  <2>2. c < n
    BY <1>1, <1>5, <1>6, <1>8
  <2> QED
    BY <2>1, <2>2 DEF c, t
<1> QED
  BY <1>7, <1>8

LEMMA TailStays ==
  ASSUME talk \in Seq(TurnMessages), attached \in Seq(Nat)
  PROVE  TailIsKept
<1> DEFINE all == ContextMessages
           sent == Compress(all)
           n == Len(all)
           c == RecentLength(all)
           t == Suffix(all, c)
           p == SumsOf(SizesOf(all))
           fits(k) == k = 1 \/ TotalTokens(Suffix(all, k)) <= KeepTokens
           cut == \E k \in DOMAIN sent : sent[k].of = "note"
<1>1. OpenTurn(all)
  BY TurnIsOpen
<1>2. all \in Seq(TurnMessages) /\ n \in Nat /\ n > 1 /\ all[1].role = "system" /\ all[n] = UserMessage
  BY <1>1 DEF OpenTurn
<1>3. sent = all \/ (c < n /\ sent = <<all[1]>> \o <<TurnNote>> \o t)
  BY <1>1, CutLeaves
<1> HIDE DEF all
<1>4. CASE sent = all
  <2>1. \A k \in DOMAIN all : all[k].of # "note"
    <3>1. \A k \in DOMAIN all : all[k] \in TurnMessages
      BY <1>2, LenProperties, ElementOfSeq
    <3> QED
      BY <3>1 DEF TurnMessages
  <2>2. ~cut
    BY <1>4, <2>1
  <2>3. Last(sent) = UserMessage /\ Head(sent).role = "system"
    <3>1. Head(all) = all[1] /\ Last(all) = all[n]
      BY <1>2 DEF Last
    <3> QED
      BY <1>2, <1>4, <3>1
  <2> HIDE DEF sent
  <2> QED
    BY <1>4, <2>2, <2>3 DEF TailIsKept, all, sent
<1>5. CASE c < n /\ sent = <<all[1]>> \o <<TurnNote>> \o t
  <2>1. /\ c \in 1 .. n /\ (c = 1 \/ p[n] - p[n - c] <= KeepTokens)
        /\ c < n => p[n] - p[n - (c + 1)] > KeepTokens
    BY <1>2, RecentIsLongest
  <2>2. \A k \in 1 .. n : TotalTokens(Suffix(all, k)) = p[n] - p[n - k]
    <3>1. \A k \in 1 .. n : k \in 0 .. Len(all)
      BY <1>2
    <3> QED
      BY <1>2, <3>1, SuffixTokens
  <2>3. /\ t \in Seq(TurnMessages) /\ Len(t) = c
        /\ \A i \in 1 .. c : t[i] = all[(n - c) + i]
    <3> HIDE DEF c
    <3>1. c \in 0 .. Len(all)
      BY <1>2, <2>1
    <3> QED
      BY <1>2, <3>1, SuffixTokens
  <2>4. t \in Seq(SentMessages) /\ all[1] \in SentMessages /\ TurnNote \in SentMessages
    <3>1. all[1] \in TurnMessages
      BY <1>2, ElementOfSeq
    <3>2. t \in Seq(SentMessages)
      <4>1. \A k \in 1 .. Len(t) : t[k] \in SentMessages
        BY <2>3, SentTyped, ElementOfSeq
      <4>2. DOMAIN t = 1 .. Len(t) /\ Len(t) \in Nat /\ t = [k \in 1 .. Len(t) |-> t[k]]
        BY <2>3, LenProperties
      <4> HIDE DEF t
      <4>3. t \in [1 .. Len(t) -> SentMessages]
        BY <4>1, <4>2
      <4> QED
        BY <4>2, <4>3, SeqDef
    <3> QED
      BY <3>1, <3>2, SentTyped
  <2> DEFINE x == all[1]
             y == TurnNote
  <2> HIDE DEF t, x, y, c, n, p
  <2>5. LET s == <<x>> \o <<y>> \o t IN
        /\ s \in Seq(SentMessages) /\ Len(t) \in Nat /\ Len(s) = Len(t) + 2
        /\ s[1] = x /\ s[2] = y
        /\ \A i \in 1 .. Len(t) : s[2 + i] = t[i]
        /\ Suffix(s, Len(t)) = t
    BY <2>4, TwoBefore DEF x, y
  <2>6. sent = <<x>> \o <<y>> \o t
    BY <1>5 DEF x, y
  <2> HIDE DEF sent
  <2>7. /\ sent \in Seq(SentMessages) /\ Len(sent) = c + 2 /\ c \in Nat /\ c > 0
        /\ sent[1] = x /\ sent[2] = y
        /\ \A i \in 1 .. c : sent[2 + i] = t[i]
        /\ Suffix(sent, c) = t
    <3>1. c \in Nat /\ c > 0 /\ Len(t) = c
      BY <1>2, <2>1, <2>3 DEF n
    <3> DEFINE s == <<x>> \o <<y>> \o t
    <3>2. /\ s \in Seq(SentMessages) /\ Len(s) = Len(t) + 2
          /\ s[1] = x /\ s[2] = y
          /\ \A i \in 1 .. Len(t) : s[2 + i] = t[i]
          /\ Suffix(s, Len(t)) = t
      BY <2>5
    <3>3. sent = s
      BY <2>6
    <3> HIDE DEF s
    <3> QED
      BY <3>1, <3>2, <3>3
  <2>8. cut
    <3>1. 2 \in DOMAIN sent
      BY <2>7, LenProperties
    <3>2. sent[2].of = "note"
      BY <2>7 DEF y, TurnNote, MessageOf
    <3> QED
      BY <3>1, <3>2
  <2>9. Last(sent) = UserMessage
    <3>1. c \in 1 .. c /\ 2 + c = Len(sent) /\ (n - c) + c = n
      BY <1>2, <2>1, <2>7 DEF n
    <3>2. sent[Len(sent)] = all[n]
      BY <2>3, <2>7, <3>1
    <3> QED
      BY <1>2, <3>2 DEF Last, n
  <2>10. Head(sent) = Head(all) /\ Head(sent).role = "system"
    <3>1. Head(sent) = sent[1] /\ Head(all) = all[1]
      BY <1>2, <2>7
    <3> QED
      BY <1>2, <2>7, <3>1 DEF x
  <2>11. Len(sent) - 2 = c
    BY <2>7
  <2>12. fits(c)
    BY <2>1, <2>2
  <2>13. \A j \in (c + 1) .. n : ~fits(j)
    <3> SUFFICES ASSUME NEW j \in (c + 1) .. n PROVE ~fits(j)
      OBVIOUS
    <3>1. j \in 1 .. n /\ j # 1 /\ n - j \in 0 .. n /\ n - (c + 1) \in 0 .. n /\ n - j <= n - (c + 1) /\ n \in 0 .. n
      BY <1>2, <1>5, <2>1 DEF n
    <3>2. SizesOf(all) \in Seq(Nat) /\ Len(SizesOf(all)) = n
      BY <1>2, SizesAreNat DEF n
    <3>3. p[n - j] <= p[n - (c + 1)]
      <4> DEFINE i1 == n - j
                 i2 == n - (c + 1)
      <4>1. i1 \in 0 .. Len(SizesOf(all)) /\ i2 \in 0 .. Len(SizesOf(all)) /\ i1 <= i2
        BY <3>1, <3>2
      <4> HIDE DEF i1, i2
      <4>2. p[i1] <= p[i2]
        BY <3>2, <4>1, SumsRise DEF p
      <4> QED
        BY <4>2 DEF i1, i2
    <3>4. p[n] \in Nat /\ p[n - j] \in Nat /\ p[n - (c + 1)] \in Nat
      <4>1. \A i \in 0 .. n : p[i] \in Nat
        BY <3>2, SumsAreNat DEF p
      <4> QED
        BY <3>1, <4>1
    <3>5. p[n] - p[n - (c + 1)] > KeepTokens
      BY <1>5, <2>1
    <3>6. ~(p[n] - p[n - j] <= KeepTokens)
      BY <3>3, <3>4, <3>5, TurnTyped
    <3> QED
      BY <2>2, <3>1, <3>6
  <2>14. Suffix(sent, c) = Suffix(all, c)
    BY <2>7 DEF t
  <2> HIDE DEF fits, cut
  <2>15. LET k == Len(sent) - 2 IN
         Suffix(sent, k) = Suffix(all, k) /\ fits(k) /\ \A j \in (k + 1) .. Len(all) : ~fits(j)
    BY <2>11, <2>12, <2>13, <2>14 DEF n
  <2> QED
    BY <2>8, <2>9, <2>10, <2>15 DEF TailIsKept, all, sent, fits, cut
<1> QED
  BY <1>3, <1>4, <1>5
LEMMA SizesInNat ==
  ASSUME TurnTypeOK
  PROVE  talk \in Seq(TurnMessages) /\ attached \in Seq(Nat)
<1> DEFINE M == [role : Roles, size : TurnSizes, of : {"session"}]
<1>1. M \subseteq TurnMessages /\ TurnSizes \subseteq Nat
  BY TurnAssumption DEF TurnMessages
<1>2. talk \in Seq(M) /\ attached \in Seq(TurnSizes)
  BY DEF TurnTypeOK
<1> HIDE DEF M
<1>3. ASSUME NEW A, NEW B, A \subseteq B, NEW s \in Seq(A) PROVE s \in Seq(B)
  <2>1. Len(s) \in Nat /\ s \in [1 .. Len(s) -> A]
    BY <1>3, LenProperties
  <2>2. s \in [1 .. Len(s) -> B]
    BY <1>3, <2>1
  <2> QED
    BY <2>1, <2>2, SeqDef
<1> QED
  BY <1>1, <1>2, <1>3

\* Whatever is said and attached, the turn fits: the end of the conversation,
\* and the files in it.
THEOREM TurnsFit == TurnSpec => [](TailIsKept /\ FilesFit)
<1>1. TurnInit => TurnTypeOK
  <2> SUFFICES ASSUME TurnInit PROVE TurnTypeOK
    OBVIOUS
  <2>1. talk = <<>> /\ attached = <<>> /\ instruction = FALSE /\ pluginText = FALSE
    BY DEF TurnInit
  <2>2. 0 <= MaxTalk /\ 0 <= MaxAttached
    BY TurnAssumption
  <2>3. Len(<<>>) = 0
    BY EmptySeq
  <2> QED
    BY <2>1, <2>2, <2>3, EmptySeq DEF TurnTypeOK
<1>2. TurnTypeOK /\ [TurnNext]_turnVars => TurnTypeOK'
  <2> SUFFICES ASSUME TurnTypeOK, [TurnNext]_turnVars PROVE TurnTypeOK'
    OBVIOUS
  <2> USE DEF TurnTypeOK
  <2>1. CASE Say
    <3>1. PICK role \in Roles, size \in TurnSizes : talk' = Append(talk, MessageOf(role, size, "session"))
      BY <2>1 DEF Say
    <3> DEFINE m == MessageOf(role, size, "session")
               M == [role : Roles, size : TurnSizes, of : {"session"}]
    <3>2. m \in M /\ talk \in Seq(M)
      BY DEF MessageOf
    <3>3. talk' = Append(talk, m)
      BY <3>1
    <3> HIDE DEF m, M
    <3>4. talk' \in Seq(M) /\ Len(talk') = Len(talk) + 1 /\ Len(talk) \in Nat
      BY <3>2, <3>3, AppendProperties, LenProperties
    <3>5. Len(talk') <= MaxTalk
      BY <2>1, <3>4, TurnAssumption DEF Say
    <3> QED
      BY <2>1, <3>4, <3>5 DEF Say, M
  <2>2. CASE AttachFile
    <3>1. PICK size \in TurnSizes : attached' = Append(attached, size)
      BY <2>2 DEF AttachFile
    <3>2. attached' \in Seq(TurnSizes) /\ Len(attached') = Len(attached) + 1 /\ Len(attached) \in Nat
      BY <3>1, AppendProperties, LenProperties
    <3>3. Len(attached') <= MaxAttached
      BY <2>2, <3>2, TurnAssumption DEF AttachFile
    <3> QED
      BY <2>2, <3>2, <3>3 DEF AttachFile
  <2>3. CASE SetInstruction
    BY <2>3 DEF SetInstruction
  <2>4. CASE PluginsTalk
    BY <2>4 DEF PluginsTalk
  <2>5. CASE UNCHANGED turnVars
    BY <2>5 DEF turnVars
  <2> QED
    BY <2>1, <2>2, <2>3, <2>4, <2>5 DEF TurnNext
<1>3. TurnTypeOK => TailIsKept /\ FilesFit
  BY SizesInNat, TailStays, FilesStayWithin
<1> QED
  BY <1>1, <1>2, <1>3, PTL DEF TurnSpec

-----------------------------------------------------------------------------
(***************************************************************************)
(* Plain chats: what was answered is kept, and the title of the user.      *)
(***************************************************************************)

CallStates == [at : {"new", "checked", "loaded", "asking", "titling", "returned"},
               session : SessionKeys, seen : Nat,
               named : BOOLEAN, round : 0..MaxPlainRounds, text : BOOLEAN,
               calls : BOOLEAN, told : BOOLEAN]

PlainKinds == {"created", "prompt", "text", "error", "title", "default"}
HttpReplies == {"ack", "200", "400", "404", "500"}

\* The call has one prompt, nothing but the creation of its session before it,
\* and the text that it has told of.
PromptStored(c, events, told) ==
  /\ \E p \in EventsBy(c, events) :
       /\ OfKind(c, events, "prompt") = {p}
       /\ \A i \in EventsBy(c, events) : i < p => events[i].kind = "created"
  /\ told <=> OfKind(c, events, "text") # {}

\* What a call in the state p has stored among the events of its session.
StoredSoFar(c, p, events) ==
  /\ p.at \in {"new", "checked"} => EventsBy(c, events) = {}
  /\ p.at = "loaded" => OfKind(c, events, "created") = EventsBy(c, events)
  /\ p.at \in {"new", "checked", "loaded"} => ~p.told
  /\ p.at \in {"asking", "titling"} => PromptStored(c, events, p.told)
  /\ p.at \in {"new", "checked", "loaded", "asking"} => p.round < MaxPlainRounds

\* The titles that the call has given.
OwnTitles(c, events) == OfKind(c, events, "title") \cup OfKind(c, events, "default")

\* Its title, and the one it has seen.
TitlesSoFar(c, p, events) ==
  /\ p.at \in {"new", "checked"} => p.seen = 0
  /\ p.seen <= Len(events)
  /\ p.at # "returned" => OwnTitles(c, events) = {}
  /\ ~p.named /\ p.at \in {"loaded", "asking", "titling"} => ~Named(events, p.seen)
  /\ OwnTitles(c, events) # {} => ~Named(events, p.seen)

\* What its client has heard.
HeardSoFar(c, p, events, heard) ==
  /\ p.at = "new" => heard = <<>>
  /\ p.at \notin {"new", "returned"} => heard = Acked(c)
  /\ p.at = "returned" =>
       \E h \in {"200", "400", "404", "500"} :
         /\ heard = Append(Acked(c), h)
         /\ h = "200" => PromptStored(c, events, p.told)
         /\ h \in {"400", "404"} => EventsBy(c, events) = {}

ChatInv(c) ==
  LET p == plain[c] IN
  /\ \A s \in SessionKeys : s # p.session => EventsBy(c, journal[s]) = {}
  /\ StoredSoFar(c, p, journal[p.session])
  /\ TitlesSoFar(c, p, journal[p.session])
  /\ HeardSoFar(c, p, journal[p.session], replies[c])

PlainInv == PlainTypeOK /\ \A c \in PlainCalls : ChatInv(c)

\* What comes behind the first n events does not name the session for them.
LEMMA NamedSame ==
  ASSUME NEW n \in Nat, NEW old, NEW new, \A i \in 1 .. n : new[i] = old[i]
  PROVE  Named(new, n) <=> Named(old, n)
  BY DEF Named

\* A list with one event more of another.
LEMMA OneEventMore ==
  ASSUME NEW old \in Seq(StoredEvents), NEW e \in StoredEvents, NEW c, e.by # c
  PROVE  LET events == Append(old, e) IN
         /\ Len(old) \in Nat /\ Len(events) = Len(old) + 1
         /\ \A i \in 1 .. Len(old) : events[i] = old[i]
         /\ events[Len(old) + 1] = e
         /\ EventsBy(c, old) \subseteq 1 .. Len(old)
         /\ EventsBy(c, events) = EventsBy(c, old)
         /\ \A kind : OfKind(c, events, kind) = OfKind(c, old, kind)
<1> DEFINE n == Len(old)
           events == Append(old, e)
<1>1. /\ n \in Nat /\ Len(events) = n + 1
      /\ DOMAIN old = 1 .. n /\ DOMAIN events = 1 .. (n + 1)
      /\ \A i \in 1 .. n : events[i] = old[i]
      /\ events[n + 1] = e
  BY AppendProperties, LenProperties
<1>2. 1 .. (n + 1) = (1 .. n) \cup {n + 1} /\ n + 1 \notin 1 .. n
  BY <1>1
<1> HIDE DEF n, events
<1>3. /\ DOMAIN old = 1 .. n /\ DOMAIN events = (1 .. n) \cup {n + 1}
      /\ \A i \in 1 .. n : events[i] = old[i]
      /\ events[n + 1] = e
  BY <1>1, <1>2
<1>4. EventsBy(c, old) \subseteq 1 .. n
  BY <1>3 DEF EventsBy
<1>5. /\ EventsBy(c, events) = EventsBy(c, old)
      /\ \A kind : OfKind(c, events, kind) = OfKind(c, old, kind)
  BY <1>2, <1>3 DEF EventsBy, OfKind
<1> QED
  BY <1>1, <1>4, <1>5 DEF n, events

\* A list with one event more of the call.
LEMMA OneOwnMore ==
  ASSUME NEW old \in Seq(StoredEvents), NEW kind \in PlainKinds, NEW c, Entered(kind, c) \in StoredEvents
  PROVE  LET events == Append(old, Entered(kind, c)) IN
         /\ Len(old) \in Nat /\ Len(events) = Len(old) + 1
         /\ \A i \in 1 .. Len(old) : events[i] = old[i]
         /\ EventsBy(c, old) \subseteq 1 .. Len(old)
         /\ EventsBy(c, events) = EventsBy(c, old) \cup {Len(old) + 1}
         /\ OfKind(c, events, kind) = OfKind(c, old, kind) \cup {Len(old) + 1}
         /\ \A k \in PlainKinds : k # kind => OfKind(c, events, k) = OfKind(c, old, k)
<1> DEFINE n == Len(old)
           events == Append(old, Entered(kind, c))
<1>1. /\ n \in Nat /\ Len(events) = n + 1
      /\ DOMAIN old = 1 .. n /\ DOMAIN events = 1 .. (n + 1)
      /\ \A i \in 1 .. n : events[i] = old[i]
      /\ events[n + 1].by = c /\ events[n + 1].kind = kind
  BY AppendProperties, LenProperties DEF Entered
<1>2. 1 .. (n + 1) = (1 .. n) \cup {n + 1} /\ n + 1 \notin 1 .. n
  BY <1>1
<1> HIDE DEF n, events
<1>3. /\ DOMAIN old = 1 .. n /\ DOMAIN events = (1 .. n) \cup {n + 1}
      /\ \A i \in 1 .. n : events[i] = old[i]
      /\ events[n + 1].by = c /\ events[n + 1].kind = kind
  BY <1>1, <1>2
<1>4. EventsBy(c, old) \subseteq 1 .. n
  BY <1>3 DEF EventsBy
<1>5. EventsBy(c, events) = EventsBy(c, old) \cup {n + 1}
  BY <1>2, <1>3 DEF EventsBy
<1>6. OfKind(c, events, kind) = OfKind(c, old, kind) \cup {n + 1}
  BY <1>2, <1>3 DEF EventsBy, OfKind
<1>7. \A k \in PlainKinds : k # kind => OfKind(c, events, k) = OfKind(c, old, k)
  BY <1>2, <1>3 DEF EventsBy, OfKind
<1> QED
  BY <1>1, <1>4, <1>5, <1>6, <1>7 DEF n, events

\* What another call appends does not matter to what this one has stored.
LEMMA OthersAppend ==
  ASSUME NEW old \in Seq(StoredEvents), NEW e \in StoredEvents,
         NEW c, e.by # c, NEW p, p.seen \in Nat, NEW heard
  PROVE  LET events == Append(old, e) IN
         /\ StoredSoFar(c, p, old) => StoredSoFar(c, p, events)
         /\ TitlesSoFar(c, p, old) => TitlesSoFar(c, p, events)
         /\ HeardSoFar(c, p, old, heard) => HeardSoFar(c, p, events, heard)
<1> DEFINE events == Append(old, e)
<1>1. /\ Len(old) \in Nat /\ Len(events) = Len(old) + 1
      /\ \A i \in 1 .. Len(old) : events[i] = old[i]
      /\ EventsBy(c, old) \subseteq 1 .. Len(old)
      /\ EventsBy(c, events) = EventsBy(c, old)
      /\ \A kind : OfKind(c, events, kind) = OfKind(c, old, kind)
  BY OneEventMore
<1> HIDE DEF events
<1>2. \A i \in EventsBy(c, old) : events[i] = old[i]
  BY <1>1
<1>3. \A told : PromptStored(c, old, told) => PromptStored(c, events, told)
  BY <1>1, <1>2 DEF PromptStored
<1>4. StoredSoFar(c, p, old) => StoredSoFar(c, p, events)
  BY <1>1, <1>3 DEF StoredSoFar
<1>5. TitlesSoFar(c, p, old) => TitlesSoFar(c, p, events)
  <2> SUFFICES ASSUME TitlesSoFar(c, p, old) PROVE TitlesSoFar(c, p, events)
    OBVIOUS
  <2>1. OwnTitles(c, events) = OwnTitles(c, old)
    BY <1>1 DEF OwnTitles
  <2>2. p.seen <= Len(old) /\ \A i \in 1 .. p.seen : events[i] = old[i]
    BY <1>1 DEF TitlesSoFar
  <2>3. Named(events, p.seen) <=> Named(old, p.seen)
    BY <2>2, NamedSame
  <2> QED
    BY <1>1, <2>1, <2>2, <2>3 DEF TitlesSoFar
<1>6. HeardSoFar(c, p, old, heard) => HeardSoFar(c, p, events, heard)
  BY <1>1, <1>3 DEF HeardSoFar
<1> QED
  BY <1>4, <1>5, <1>6 DEF events

\* What others append, and what leaves the journal alone, changes nothing for
\* a call that does not move.
LEMMA OtherChatsStay ==
  ASSUME PlainTypeOK, NEW c \in PlainCalls, ChatInv(c),
         plain'[c] = plain[c], replies'[c] = replies[c],
         \A s \in SessionKeys : \/ journal'[s] = journal[s]
                                \/ \E e \in StoredEvents : e.by # c /\ journal'[s] = Append(journal[s], e)
  PROVE  ChatInv(c)'
<1>1. /\ plain[c].session \in SessionKeys /\ plain[c].seen \in Nat
      /\ journal \in [SessionKeys -> Seq(StoredEvents)]
  BY DEF PlainTypeOK
<1>2. ASSUME NEW s \in SessionKeys
      PROVE  EventsBy(c, journal'[s]) = EventsBy(c, journal[s])
  <2>1. CASE journal'[s] = journal[s]
    BY <2>1
  <2>2. CASE \E e \in StoredEvents : e.by # c /\ journal'[s] = Append(journal[s], e)
    BY <1>1, <2>2, OneEventMore
  <2> QED
    BY <1>2, <2>1, <2>2
<1> DEFINE old == journal[plain[c].session]
           events == journal'[plain[c].session]
           p == plain[c]
<1>3. StoredSoFar(c, p, old) /\ TitlesSoFar(c, p, old) /\ HeardSoFar(c, p, old, replies[c])
  BY DEF ChatInv
<1>4. StoredSoFar(c, p, events) /\ TitlesSoFar(c, p, events) /\ HeardSoFar(c, p, events, replies[c])
  <2>1. CASE events = old
    BY <1>3, <2>1
  <2>2. CASE \E e \in StoredEvents : e.by # c /\ events = Append(old, e)
    <3>1. PICK e \in StoredEvents : e.by # c /\ events = Append(old, e)
      BY <2>2
    <3>2. old \in Seq(StoredEvents) /\ p.seen \in Nat
      BY <1>1
    <3> HIDE DEF old, events, p
    <3> QED
      BY <1>3, <3>1, <3>2, OthersAppend
  <2> QED
    BY <1>1, <2>1, <2>2
<1> QED
  BY <1>1, <1>2, <1>4 DEF ChatInv

\* The ack before an answer.
LEMMA AckedIs ==
  ASSUME NEW c
  PROVE  /\ Acked(c) \in Seq(HttpReplies)
         /\ \A h \in HttpReplies : Append(Acked(c), h) \in Seq(HttpReplies)
<1>1. <<>> \in Seq(HttpReplies) /\ <<"ack">> \in Seq(HttpReplies)
  BY DEF HttpReplies
<1>2. Acked(c) \in Seq(HttpReplies)
  BY <1>1 DEF Acked
<1> QED
  BY <1>2, AppendProperties

PlainTyped ==
  /\ plain \in [PlainCalls -> CallStates] /\ journal \in [SessionKeys -> Seq(StoredEvents)]
  /\ replies \in [PlainCalls -> Seq(HttpReplies)]

\* A step of one call is none of another, and holds when it does for the call.
LEMMA OneCallMoves ==
  ASSUME PlainInv, NEW c \in PlainCalls, NEW held \in CallStates, Moves(c, held),
         NEW answers \in Seq(HttpReplies), replies' = [replies EXCEPT ![c] = answers],
         \/ UNCHANGED journal
         \/ \E kind \in PlainKinds : Enters(c, kind),
         \A s \in SessionKeys : s # held.session => EventsBy(c, journal'[s]) = {},
         StoredSoFar(c, held, journal'[held.session]), TitlesSoFar(c, held, journal'[held.session]),
         HeardSoFar(c, held, journal'[held.session], answers)
  PROVE  PlainInv'
<1>0. PlainTypeOK /\ \A d \in PlainCalls : ChatInv(d)
  BY DEF PlainInv
<1>1. PlainTyped
  BY <1>0 DEF PlainTypeOK, PlainTyped, CallStates, HttpReplies
<1>2. plain[c].session \in SessionKeys
  BY <1>1 DEF PlainTyped, CallStates
<1>3. /\ plain' \in [PlainCalls -> CallStates] /\ plain'[c] = held
      /\ \A d \in PlainCalls : d # c => plain'[d] = plain[d]
  BY <1>1 DEF Moves, PlainTyped
<1>4. /\ replies' \in [PlainCalls -> Seq(HttpReplies)] /\ replies'[c] = answers
      /\ \A d \in PlainCalls : d # c => replies'[d] = replies[d]
  BY <1>1 DEF PlainTyped
<1>5. /\ journal' \in [SessionKeys -> Seq(StoredEvents)]
      /\ \A s \in SessionKeys : \/ journal'[s] = journal[s]
                                \/ \E e \in StoredEvents : e.by = c /\ journal'[s] = Append(journal[s], e)
  <2>1. CASE UNCHANGED journal
    BY <1>1, <2>1 DEF PlainTyped
  <2>2. ASSUME NEW kind \in PlainKinds, Enters(c, kind)
        PROVE  <1>5!:
    <3>1. Entered(kind, c) \in StoredEvents /\ Entered(kind, c).by = c
      BY DEF Entered, StoredEvents, PlainKinds, Titles
    <3>2. Append(journal[plain[c].session], Entered(kind, c)) \in Seq(StoredEvents)
      BY <1>1, <1>2, <3>1, AppendProperties DEF PlainTyped
    <3> QED
      BY <1>1, <1>2, <2>2, <3>1, <3>2 DEF Enters, PlainTyped
  <2> QED
    BY <2>1, <2>2
<1>6. PlainTypeOK'
  BY <1>3, <1>4, <1>5 DEF PlainTypeOK, CallStates, HttpReplies
<1>7. ASSUME NEW d \in PlainCalls, d # c PROVE ChatInv(d)'
  <2>1. \A s \in SessionKeys :
            \/ journal'[s] = journal[s]
            \/ \E e \in StoredEvents : e.by # d /\ journal'[s] = Append(journal[s], e)
    BY <1>5, <1>7
  <2> QED
    BY <1>0, <1>3, <1>4, <1>7, <2>1, OtherChatsStay
<1>8. ChatInv(c)'
  BY <1>3, <1>4 DEF ChatInv
<1> QED
  BY <1>6, <1>7, <1>8 DEF PlainInv

\* The event that a call appends to its session.
LEMMA OwnEvent ==
  ASSUME PlainInv, NEW c \in PlainCalls, NEW kind \in PlainKinds, Enters(c, kind)
  PROVE  /\ journal[plain[c].session] \in Seq(StoredEvents)
         /\ journal'[plain[c].session] = Append(journal[plain[c].session], Entered(kind, c))
         /\ Entered(kind, c) \in StoredEvents /\ Entered(kind, c).by = c /\ Entered(kind, c).kind = kind
         /\ \A s \in SessionKeys : s # plain[c].session => EventsBy(c, journal'[s]) = {}
<1>1. /\ journal \in [SessionKeys -> Seq(StoredEvents)] /\ plain[c].session \in SessionKeys
      /\ ChatInv(c)
  BY DEF PlainInv, PlainTypeOK
<1>2. Entered(kind, c) \in StoredEvents /\ Entered(kind, c).by = c /\ Entered(kind, c).kind = kind
  BY DEF Entered, StoredEvents, PlainKinds, Titles
<1>3. /\ journal'[plain[c].session] = Append(journal[plain[c].session], Entered(kind, c))
      /\ \A s \in SessionKeys : s # plain[c].session => journal'[s] = journal[s]
  BY <1>1 DEF Enters
<1> QED
  BY <1>1, <1>2, <1>3 DEF ChatInv

\* The state of a call before it moves.
LEMMA ChatIs ==
  ASSUME PlainInv, NEW c \in PlainCalls
  PROVE  /\ plain[c] \in CallStates /\ plain[c].session \in SessionKeys /\ plain[c].seen \in Nat
         /\ replies[c] \in Seq(HttpReplies) /\ replies = [replies EXCEPT ![c] = replies[c]]
         /\ journal[plain[c].session] \in Seq(StoredEvents)
         /\ Len(journal[plain[c].session]) \in Nat
         /\ DOMAIN journal[plain[c].session] = 1 .. Len(journal[plain[c].session])
         /\ \A s \in SessionKeys : s # plain[c].session => EventsBy(c, journal[s]) = {}
         /\ StoredSoFar(c, plain[c], journal[plain[c].session])
         /\ TitlesSoFar(c, plain[c], journal[plain[c].session])
         /\ HeardSoFar(c, plain[c], journal[plain[c].session], replies[c])
<1>1. /\ plain \in [PlainCalls -> CallStates] /\ journal \in [SessionKeys -> Seq(StoredEvents)]
      /\ replies \in [PlainCalls -> Seq(HttpReplies)] /\ ChatInv(c)
  BY DEF PlainInv, PlainTypeOK, CallStates, HttpReplies
<1>2. plain[c].session \in SessionKeys /\ plain[c].seen \in Nat
  BY <1>1 DEF CallStates
<1>3. /\ journal[plain[c].session] \in Seq(StoredEvents)
      /\ Len(journal[plain[c].session]) \in Nat
      /\ DOMAIN journal[plain[c].session] = 1 .. Len(journal[plain[c].session])
  BY <1>1, <1>2, LenProperties
<1> QED
  BY <1>1, <1>2, <1>3 DEF ChatInv

\* The state of a call that is over.
EndOf(p) == [p EXCEPT !.at = "returned", !.round = 0, !.text = FALSE, !.calls = FALSE, !.named = FALSE]

LEMMA EndState ==
  ASSUME NEW p \in CallStates
  PROVE  /\ EndOf(p) \in CallStates
         /\ EndOf(p).at = "returned" /\ EndOf(p).session = p.session
         /\ EndOf(p).seen = p.seen /\ EndOf(p).told = p.told
<1>1. 0 \in 0 .. MaxPlainRounds
  BY PlainAssumption
<1> QED
  BY <1>1 DEF CallStates, EndOf

\* A refused call has stored nothing.
LEMMA RefusedHolds ==
  ASSUME PlainInv, NEW c \in PlainCalls, NEW status \in {"400", "404"}, Refused4xx(c, status)
  PROVE  PlainInv'
<1> DEFINE held == EndOf(plain[c])
           events == journal[plain[c].session]
<1>1. /\ Moves(c, held) /\ replies' = [replies EXCEPT ![c] = Append(Acked(c), status)]
      /\ UNCHANGED journal /\ plain[c].at = "new"
  BY Zenon DEF Refused4xx, Ends, EndOf
<1>2. /\ held \in CallStates
      /\ held.at = "returned" /\ held.session = plain[c].session
      /\ held.seen = plain[c].seen /\ held.told = plain[c].told
  BY ChatIs, EndState
<1>3. EventsBy(c, events) = {}
  BY <1>1, ChatIs DEF StoredSoFar
<1>4. StoredSoFar(c, held, events)
  BY <1>2 DEF StoredSoFar
<1>5. TitlesSoFar(c, held, events)
  BY <1>2, <1>3, ChatIs DEF TitlesSoFar, OwnTitles, OfKind
<1>6. HeardSoFar(c, held, events, Append(Acked(c), status))
  BY <1>2, <1>3 DEF HeardSoFar
<1>7. Append(Acked(c), status) \in Seq(HttpReplies)
  BY AckedIs DEF HttpReplies
<1>8. \A s \in SessionKeys : s # held.session => EventsBy(c, journal'[s]) = {}
  BY <1>1, <1>2, ChatIs
<1> HIDE DEF held
<1> QED
  BY <1>1, <1>2, <1>4, <1>5, <1>6, <1>7, <1>8, OneCallMoves

LEMMA BeginsHolds ==
  ASSUME PlainInv, NEW c \in PlainCalls, NEW s \in SessionKeys, BeginsChat(c, s)
  PROVE  PlainInv'
<1> DEFINE held == [plain[c] EXCEPT !.at = "checked", !.session = s]
<1>1. /\ plain[c].at = "new" /\ Moves(c, held) /\ replies' = [replies EXCEPT ![c] = Acked(c)]
      /\ UNCHANGED journal
  BY DEF BeginsChat
<1>2. /\ held \in CallStates /\ held.session = s /\ held.at = "checked"
      /\ held.seen = plain[c].seen /\ held.told = plain[c].told /\ held.round = plain[c].round
  BY ChatIs DEF CallStates
<1>3. \A z \in SessionKeys : EventsBy(c, journal[z]) = {}
  BY <1>1, ChatIs DEF StoredSoFar
<1>4. plain[c].seen = 0 /\ ~plain[c].told /\ plain[c].round < MaxPlainRounds
  BY <1>1, ChatIs DEF StoredSoFar, TitlesSoFar
<1>5. Len(journal[s]) \in Nat
  BY LenProperties DEF PlainInv, PlainTypeOK
<1> HIDE DEF held
<1>6. StoredSoFar(c, held, journal[s])
  BY <1>2, <1>3, <1>4 DEF StoredSoFar
<1>7. TitlesSoFar(c, held, journal[s])
  <2>1. OwnTitles(c, journal[s]) = {}
    BY <1>3 DEF OwnTitles, OfKind
  <2> QED
    BY <1>2, <1>4, <1>5, <2>1 DEF TitlesSoFar, Named
<1>8. HeardSoFar(c, held, journal[s], Acked(c))
  BY <1>2 DEF HeardSoFar
<1>9. Acked(c) \in Seq(HttpReplies)
  BY AckedIs
<1>10. \A z \in SessionKeys : z # held.session => EventsBy(c, journal'[z]) = {}
  BY <1>1, <1>3
<1> QED
  BY <1>1, <1>2, <1>6, <1>7, <1>8, <1>9, <1>10, OneCallMoves

\* An event of the call that is no prompt keeps what was stored.
LEMMA PromptStays ==
  ASSUME NEW old \in Seq(StoredEvents), NEW kind \in PlainKinds, NEW c, Entered(kind, c) \in StoredEvents,
         kind # "prompt", NEW told \in BOOLEAN, PromptStored(c, old, told)
  PROVE  PromptStored(c, Append(old, Entered(kind, c)), told \/ kind = "text")
<1> DEFINE events == Append(old, Entered(kind, c))
           n == Len(old)
<1>1. /\ n \in Nat
      /\ \A i \in 1 .. n : events[i] = old[i]
      /\ EventsBy(c, old) \subseteq 1 .. n
      /\ EventsBy(c, events) = EventsBy(c, old) \cup {n + 1}
      /\ OfKind(c, events, kind) = OfKind(c, old, kind) \cup {n + 1}
      /\ \A k \in PlainKinds : k # kind => OfKind(c, events, k) = OfKind(c, old, k)
  BY OneOwnMore
<1> HIDE DEF events, n
<1>2. OfKind(c, events, "prompt") = OfKind(c, old, "prompt")
  BY <1>1 DEF PlainKinds
<1>3. PICK p \in EventsBy(c, old) :
        /\ OfKind(c, old, "prompt") = {p}
        /\ \A i \in EventsBy(c, old) : i < p => old[i].kind = "created"
  BY DEF PromptStored
<1>4. \A i \in EventsBy(c, events) : i < p => events[i].kind = "created"
  <2> SUFFICES ASSUME NEW i \in EventsBy(c, events), i < p PROVE events[i].kind = "created"
    OBVIOUS
  <2>1. i # n + 1
    BY <1>1
  <2> QED
    BY <1>1, <1>3, <2>1
<1>5. told \/ kind = "text" <=> OfKind(c, events, "text") # {}
  BY <1>1 DEF PromptStored, PlainKinds
<1> QED
  BY <1>1, <1>2, <1>3, <1>4, <1>5 DEF PromptStored, events

\* An event that is no title changes nothing about titles.
LEMMA TitlesStay ==
  ASSUME NEW old \in Seq(StoredEvents), NEW kind \in PlainKinds, NEW c, Entered(kind, c) \in StoredEvents,
         kind \notin Titles, NEW p \in CallStates, TitlesSoFar(c, p, old)
  PROVE  TitlesSoFar(c, p, Append(old, Entered(kind, c)))
<1> DEFINE events == Append(old, Entered(kind, c))
<1>1. /\ Len(old) \in Nat /\ Len(events) = Len(old) + 1
      /\ \A i \in 1 .. Len(old) : events[i] = old[i]
      /\ \A title \in Titles : OfKind(c, events, title) = OfKind(c, old, title)
  BY OneOwnMore DEF PlainKinds, Titles
<1> HIDE DEF events
<1>2. p.seen \in Nat
  BY DEF CallStates
<1>3. \A k \in 1 .. p.seen : events[k] = old[k]
  BY <1>1, <1>2 DEF TitlesSoFar
<1>4. Named(events, p.seen) <=> Named(old, p.seen)
  BY <1>2, <1>3, NamedSame
<1>5. OwnTitles(c, events) = OwnTitles(c, old)
  BY <1>1 DEF OwnTitles, Titles
<1> QED
  BY <1>1, <1>2, <1>4, <1>5 DEF TitlesSoFar, events

\* A call that moves on, with an event or without, and says nothing.
LEMMA MovesOn ==
  ASSUME PlainInv, NEW c \in PlainCalls, NEW held \in CallStates, Moves(c, held), UNCHANGED replies,
         held.session = plain[c].session, held.at \notin {"new", "returned"},
         plain[c].at \notin {"new", "returned"},
         \/ UNCHANGED journal
         \/ \E kind \in PlainKinds : Enters(c, kind),
         StoredSoFar(c, held, journal'[plain[c].session]), TitlesSoFar(c, held, journal'[plain[c].session])
  PROVE  PlainInv'
<1>1. replies' = [replies EXCEPT ![c] = replies[c]] /\ replies[c] \in Seq(HttpReplies)
  BY ChatIs
<1>2. HeardSoFar(c, held, journal'[held.session], replies[c])
  BY ChatIs DEF HeardSoFar
<1>3. \A s \in SessionKeys : s # held.session => EventsBy(c, journal'[s]) = {}
  BY ChatIs, OwnEvent
<1> QED
  BY <1>1, <1>2, <1>3, OneCallMoves

LEMMA LoadsHolds ==
  ASSUME PlainInv, NEW c \in PlainCalls, LoadsSession(c)
  PROVE  PlainInv'
<1> DEFINE old == journal[plain[c].session]
           new == journal'[plain[c].session]
           held == [plain[c] EXCEPT !.at = "loaded", !.seen = Len(old),
                                    !.named = Named(old, Len(old))]
<1>1. /\ plain[c].at = "checked" /\ Moves(c, held) /\ UNCHANGED replies
      /\ \/ UNCHANGED journal
         \/ old = <<>> /\ Enters(c, "created")
  BY Zenon DEF LoadsSession
<1>2. /\ held \in CallStates /\ held.session = plain[c].session /\ held.at = "loaded" /\ held.seen = Len(old)
      /\ held.named = Named(old, Len(old))
      /\ held.told = plain[c].told /\ held.round = plain[c].round
  <2>1. Named(old, Len(old)) \in BOOLEAN
    BY DEF Named
  <2>2. Len(old) \in Nat
    BY ChatIs, LenProperties
  <2> QED
    BY <2>1, <2>2, ChatIs DEF CallStates
<1>3. EventsBy(c, old) = {} /\ ~plain[c].told /\ plain[c].round < MaxPlainRounds /\ old \in Seq(StoredEvents) /\ Len(old) \in Nat
  BY <1>1, ChatIs DEF StoredSoFar
<1>4. \A kind : OfKind(c, old, kind) = {}
  BY <1>3 DEF OfKind
<1> HIDE DEF held, old, new
<1>5. TitlesSoFar(c, held, old)
  BY <1>2, <1>3, <1>4 DEF TitlesSoFar, OwnTitles
<1>6. StoredSoFar(c, held, old)
  BY <1>2, <1>3, <1>4 DEF StoredSoFar
<1>7. StoredSoFar(c, held, new) /\ TitlesSoFar(c, held, new)
  <2>1. CASE UNCHANGED journal
    BY <1>5, <1>6, <2>1 DEF old, new
  <2>2. CASE Enters(c, "created")
    <3>1. new = Append(old, Entered("created", c)) /\ Entered("created", c) \in StoredEvents /\ "created" \in PlainKinds
      BY <2>2, OwnEvent DEF old, new, PlainKinds
    <3>2. EventsBy(c, new) = {Len(old) + 1} /\ OfKind(c, new, "created") = {Len(old) + 1}
      BY <1>3, <1>4, <3>1, OneOwnMore
    <3>3. TitlesSoFar(c, held, new)
      BY <1>2, <1>3, <1>5, <3>1, TitlesStay DEF Titles
    <3> QED
      BY <1>2, <1>3, <3>2, <3>3 DEF StoredSoFar
  <2> QED
    BY <1>1, <2>1, <2>2
<1> QED
  BY <1>1, <1>2, <1>7, MovesOn DEF new, PlainKinds

LEMMA AdmitsHolds ==
  ASSUME PlainInv, NEW c \in PlainCalls, AdmitsPrompt(c)
  PROVE  PlainInv'
<1> DEFINE old == journal[plain[c].session]
           new == journal'[plain[c].session]
           held == [plain[c] EXCEPT !.at = "asking"]
<1>1. /\ plain[c].at = "loaded" /\ Moves(c, held) /\ UNCHANGED replies /\ Enters(c, "prompt")
  BY DEF AdmitsPrompt
<1>2. /\ held \in CallStates /\ held.session = plain[c].session /\ held.at = "asking"
      /\ held.seen = plain[c].seen /\ held.named = plain[c].named /\ held.told = plain[c].told
      /\ held.round = plain[c].round
  BY ChatIs DEF CallStates
<1>3. /\ EventsBy(c, old) = OfKind(c, old, "created") /\ ~plain[c].told /\ plain[c].round < MaxPlainRounds
      /\ old \in Seq(StoredEvents) /\ Len(old) \in Nat /\ TitlesSoFar(c, plain[c], old)
  BY <1>1, ChatIs DEF StoredSoFar
<1>4. new = Append(old, Entered("prompt", c)) /\ Entered("prompt", c) \in StoredEvents /\ "prompt" \in PlainKinds
  BY <1>1, OwnEvent DEF PlainKinds
<1> HIDE DEF held, old, new
<1>5. /\ \A i \in EventsBy(c, old) : old[i].kind = "created"
      /\ OfKind(c, old, "prompt") = {} /\ OfKind(c, old, "text") = {}
  BY <1>3 DEF OfKind
<1>6. /\ \A i \in 1 .. Len(old) : new[i] = old[i]
      /\ EventsBy(c, old) \subseteq 1 .. Len(old)
      /\ EventsBy(c, new) = EventsBy(c, old) \cup {Len(old) + 1}
      /\ OfKind(c, new, "prompt") = {Len(old) + 1} /\ OfKind(c, new, "text") = {}
  BY <1>3, <1>4, <1>5, OneOwnMore DEF PlainKinds
<1>7. \A i \in EventsBy(c, new) : i < Len(old) + 1 => new[i].kind = "created"
  BY <1>3, <1>5, <1>6
<1>8. PromptStored(c, new, held.told)
  BY <1>2, <1>3, <1>6, <1>7 DEF PromptStored
<1>9. StoredSoFar(c, held, new)
  BY <1>2, <1>3, <1>8 DEF StoredSoFar
<1>10. TitlesSoFar(c, held, old)
  BY <1>1, <1>2, <1>3 DEF TitlesSoFar
<1>11. TitlesSoFar(c, held, new)
  BY <1>2, <1>3, <1>4, <1>10, TitlesStay DEF Titles
<1> QED
  BY <1>1, <1>2, <1>9, <1>11, MovesOn DEF new, PlainKinds

\* A call that has stored its prompt and moves on, with an event that is
\* neither a prompt nor a title, or without one.
LEMMA TurnGoesOn ==
  ASSUME PlainInv, NEW c \in PlainCalls, NEW held \in CallStates, Moves(c, held), UNCHANGED replies,
         held.session = plain[c].session, held.at \in {"asking", "titling"}, plain[c].at = "asking",
         held.at = "asking" => held.round < MaxPlainRounds,
         held.seen = plain[c].seen, held.named = plain[c].named,
         \/ UNCHANGED journal /\ held.told = plain[c].told
         \/ \E kind \in {"text", "error"} : Enters(c, kind) /\ held.told = (plain[c].told \/ kind = "text")
  PROVE  PlainInv'
<1> DEFINE old == journal[plain[c].session]
           new == journal'[plain[c].session]
<1>1. /\ old \in Seq(StoredEvents) /\ TitlesSoFar(c, plain[c], old)
      /\ plain[c] \in CallStates /\ PromptStored(c, old, plain[c].told) /\ plain[c].told \in BOOLEAN
  BY ChatIs DEF StoredSoFar, CallStates
<1> HIDE DEF old, new
<1>2. TitlesSoFar(c, held, old)
  BY <1>1 DEF TitlesSoFar
<1>3. CASE UNCHANGED journal /\ held.told = plain[c].told
  <2>1. StoredSoFar(c, held, new) /\ TitlesSoFar(c, held, new)
    BY <1>1, <1>2, <1>3 DEF StoredSoFar, old, new
  <2> QED
    BY <1>3, <2>1, MovesOn DEF new
<1>4. ASSUME NEW kind \in {"text", "error"}, Enters(c, kind), held.told = (plain[c].told \/ kind = "text")
      PROVE  PlainInv'
  <2>1. kind \in PlainKinds /\ kind # "prompt" /\ kind \notin Titles
    BY DEF PlainKinds, Titles
  <2>2. new = Append(old, Entered(kind, c)) /\ Entered(kind, c) \in StoredEvents
    BY <1>4, <2>1, OwnEvent DEF old, new
  <2>3. PromptStored(c, new, held.told)
    BY <1>1, <1>4, <2>1, <2>2, PromptStays
  <2>4. StoredSoFar(c, held, new)
    BY <2>3, Zenon DEF StoredSoFar
  <2>5. TitlesSoFar(c, held, new)
    BY <1>1, <1>2, <2>1, <2>2, TitlesStay
  <2> QED
    BY <1>4, <2>1, <2>4, <2>5, MovesOn DEF new
<1> QED
  BY <1>3, <1>4

LEMMA SpeaksHolds ==
  ASSUME PlainInv, NEW c \in PlainCalls, ModelSpeaks(c)
  PROVE  PlainInv'
<1> DEFINE held == [plain[c] EXCEPT !.text = TRUE, !.told = TRUE]
<1>1. /\ plain[c].at = "asking" /\ Moves(c, held) /\ UNCHANGED replies /\ Enters(c, "text")
  BY DEF ModelSpeaks
<1>2. /\ held \in CallStates /\ held.session = plain[c].session /\ held.at = plain[c].at
      /\ held.seen = plain[c].seen /\ held.named = plain[c].named
      /\ held.told = (plain[c].told \/ "text" = "text") /\ held.round = plain[c].round
  BY ChatIs DEF CallStates
<1>3. plain[c].round < MaxPlainRounds
  BY <1>1, ChatIs DEF StoredSoFar
<1> HIDE DEF held
<1> QED
  BY <1>1, <1>2, <1>3, TurnGoesOn

LEMMA CallsHolds ==
  ASSUME PlainInv, NEW c \in PlainCalls, ModelCalls(c)
  PROVE  PlainInv'
<1> DEFINE held == [plain[c] EXCEPT !.calls = TRUE]
<1>1. /\ plain[c].at = "asking" /\ Moves(c, held) /\ UNCHANGED replies /\ UNCHANGED journal
  BY DEF ModelCalls
<1>2. /\ held \in CallStates /\ held.session = plain[c].session /\ held.at = plain[c].at
      /\ held.seen = plain[c].seen /\ held.named = plain[c].named /\ held.told = plain[c].told
      /\ held.round = plain[c].round
  BY ChatIs DEF CallStates
<1>3. plain[c].round < MaxPlainRounds
  BY <1>1, ChatIs DEF StoredSoFar
<1> HIDE DEF held
<1> QED
  BY <1>1, <1>2, <1>3, TurnGoesOn

LEMMA FailsHolds ==
  ASSUME PlainInv, NEW c \in PlainCalls, ModelFails(c)
  PROVE  PlainInv'
<1> DEFINE held == [plain[c] EXCEPT !.at = "titling"]
<1>1. /\ plain[c].at = "asking" /\ Moves(c, held) /\ UNCHANGED replies /\ Enters(c, "error")
  BY DEF ModelFails
<1>2. /\ held \in CallStates /\ held.session = plain[c].session /\ held.at = "titling"
      /\ held.seen = plain[c].seen /\ held.named = plain[c].named
      /\ held.told = (plain[c].told \/ "error" = "text")
  BY ChatIs DEF CallStates
<1> HIDE DEF held
<1> QED
  BY <1>1, <1>2, TurnGoesOn

LEMMA RoundHolds ==
  ASSUME PlainInv, NEW c \in PlainCalls, RoundEnds(c)
  PROVE  PlainInv'
<1> DEFINE settles == plain[c].calls
           held == [plain[c] EXCEPT
                      !.at = IF settles /\ plain[c].round + 1 < MaxPlainRounds THEN "asking" ELSE "titling",
                      !.round = IF settles THEN @ + 1 ELSE @, !.text = FALSE, !.calls = FALSE]
<1>1. /\ plain[c].at = "asking" /\ Moves(c, held) /\ UNCHANGED replies /\ UNCHANGED journal
  BY Zenon DEF RoundEnds
<1>2. plain[c].round \in 0 .. MaxPlainRounds /\ plain[c] \in CallStates /\ plain[c].round < MaxPlainRounds
  BY <1>1, ChatIs DEF CallStates, StoredSoFar
<1>3. /\ held.session = plain[c].session /\ held.at \in {"asking", "titling"}
      /\ held.seen = plain[c].seen /\ held.named = plain[c].named /\ held.told = plain[c].told
  BY <1>2 DEF CallStates
<1>4. /\ (IF settles THEN plain[c].round + 1 ELSE plain[c].round) \in 0 .. MaxPlainRounds
      /\ (IF settles /\ plain[c].round + 1 < MaxPlainRounds THEN "asking" ELSE "titling") \in {"asking", "titling"}
  BY <1>2, PlainAssumption
<1> HIDE DEF settles
<1>5. held \in CallStates
  BY <1>2, <1>4 DEF CallStates
<1>6. held.at = "asking" => held.round < MaxPlainRounds
  BY <1>2 DEF CallStates
<1> HIDE DEF held
<1> QED
  BY <1>1, <1>3, <1>5, <1>6, TurnGoesOn

LEMMA AnswersHolds ==
  ASSUME PlainInv, NEW c \in PlainCalls, Answers(c)
  PROVE  PlainInv'
<1> DEFINE old == journal[plain[c].session]
           new == journal'[plain[c].session]
           held == EndOf(plain[c])
           heard == Append(Acked(c), "200")
<1>1. /\ plain[c].at = "titling" /\ Moves(c, held)
      /\ \/ UNCHANGED journal
         \/ (\E title \in Titles : Enters(c, title)) /\ ~plain[c].named
      /\ replies' = [replies EXCEPT ![c] = Append(replies[c], "200")]
  BY Zenon DEF Answers, Ends, EndOf, Hears
<1>2. /\ held \in CallStates
      /\ held.at = "returned" /\ held.session = plain[c].session
      /\ held.seen = plain[c].seen /\ held.told = plain[c].told
  BY ChatIs, EndState
<1>3. /\ old \in Seq(StoredEvents) /\ TitlesSoFar(c, plain[c], old)
      /\ plain[c] \in CallStates /\ PromptStored(c, old, plain[c].told) /\ plain[c].told \in BOOLEAN
      /\ replies[c] = Acked(c) /\ plain[c].seen \in Nat
  BY <1>1, ChatIs DEF StoredSoFar, CallStates, HeardSoFar
<1>4. replies' = [replies EXCEPT ![c] = heard] /\ heard \in Seq(HttpReplies)
  BY <1>1, <1>3, AckedIs DEF HttpReplies
<1>5. \A s \in SessionKeys : s # held.session => EventsBy(c, journal'[s]) = {}
  <2>1. CASE UNCHANGED journal
    BY <1>2, <2>1, ChatIs
  <2>2. ASSUME NEW title \in Titles, Enters(c, title)
        PROVE  \A s \in SessionKeys : s # held.session => EventsBy(c, journal'[s]) = {}
    <3>1. title \in PlainKinds
      BY DEF PlainKinds, Titles
    <3> QED
      BY <1>2, <2>2, <3>1, ChatIs, OwnEvent
  <2> QED
    BY <1>1, <2>1, <2>2
<1> HIDE DEF held, old, new, heard
<1>6. PromptStored(c, new, plain[c].told) /\ TitlesSoFar(c, held, new)
  <2>1. CASE UNCHANGED journal
    <3>1. TitlesSoFar(c, held, old)
      BY <1>1, <1>2, <1>3 DEF TitlesSoFar
    <3> QED
      BY <1>3, <2>1, <3>1 DEF old, new
  <2>2. ASSUME NEW title \in Titles, Enters(c, title), ~plain[c].named
        PROVE  PromptStored(c, new, plain[c].told) /\ TitlesSoFar(c, held, new)
    <3>1. /\ title \in PlainKinds /\ title # "prompt" /\ title # "text"
          /\ new = Append(old, Entered(title, c)) /\ Entered(title, c) \in StoredEvents
      BY <2>2, OwnEvent DEF old, new, PlainKinds, Titles
    <3>2. PromptStored(c, new, plain[c].told \/ title = "text")
      BY <1>3, <3>1, PromptStays
    <3>3. (plain[c].told \/ title = "text") = plain[c].told
      BY <1>3, <3>1
    <3>4. /\ Len(old) \in Nat /\ Len(new) = Len(old) + 1
          /\ \A i \in 1 .. Len(old) : new[i] = old[i]
      BY <1>3, <3>1, OneOwnMore
    <3>5. plain[c].seen <= Len(old) /\ ~Named(old, plain[c].seen)
      BY <1>1, <1>3, <2>2 DEF TitlesSoFar
    <3>6. ~Named(new, plain[c].seen)
      <4>1. plain[c].seen \in Nat
        BY <1>3
      <4>2. \A i \in 1 .. plain[c].seen : i \in 1 .. Len(old)
        BY <3>4, <3>5, <4>1
      <4>3. \A i \in 1 .. plain[c].seen : new[i] = old[i]
        BY <3>4, <4>2
      <4>4. Named(new, plain[c].seen) <=> Named(old, plain[c].seen)
        BY <4>1, <4>3, NamedSame
      <4> QED
        BY <3>5, <4>4
    <3>7. TitlesSoFar(c, held, new)
      BY <1>2, <1>3, <3>4, <3>5, <3>6 DEF TitlesSoFar
    <3> QED
      BY <3>2, <3>3, <3>7
  <2> QED
    BY <1>1, <2>1, <2>2
<1>7. StoredSoFar(c, held, new)
  BY <1>2 DEF StoredSoFar
<1>8. HeardSoFar(c, held, new, heard)
  BY <1>2, <1>6 DEF HeardSoFar, heard
<1>9. new = journal'[held.session]
  BY <1>2 DEF new
<1> QED
  BY <1>1, <1>2, <1>4, <1>5, <1>6, <1>7, <1>8, <1>9, OneCallMoves DEF PlainKinds, Titles

LEMMA HandlerFailsHolds ==
  ASSUME PlainInv, NEW c \in PlainCalls, HandlerFails(c)
  PROVE  PlainInv'
<1> DEFINE old == journal[plain[c].session]
           held == EndOf(plain[c])
           heard == Append(Acked(c), "500")
<1>1. /\ plain[c].at \notin {"new", "returned"} /\ Moves(c, held) /\ UNCHANGED journal
      /\ replies' = [replies EXCEPT ![c] = Append(replies[c], "500")]
  BY Zenon DEF HandlerFails, Ends, EndOf, Hears
<1>2. /\ held \in CallStates
      /\ held.at = "returned" /\ held.session = plain[c].session
      /\ held.seen = plain[c].seen /\ held.told = plain[c].told
  BY ChatIs, EndState
<1>3. TitlesSoFar(c, plain[c], old) /\ replies[c] = Acked(c)
  BY <1>1, ChatIs DEF HeardSoFar
<1>4. replies' = [replies EXCEPT ![c] = heard] /\ heard \in Seq(HttpReplies)
  BY <1>1, <1>3, AckedIs DEF HttpReplies
<1>5. \A s \in SessionKeys : s # held.session => EventsBy(c, journal'[s]) = {}
  BY <1>1, <1>2, ChatIs
<1>6. old = journal'[held.session]
  BY <1>1, <1>2
<1> HIDE DEF held, old, heard
<1>7. TitlesSoFar(c, held, old)
  BY <1>1, <1>2, <1>3 DEF TitlesSoFar
<1>8. StoredSoFar(c, held, old)
  BY <1>2 DEF StoredSoFar
<1>9. HeardSoFar(c, held, old, heard)
  BY <1>2 DEF HeardSoFar, heard
<1> QED
  BY <1>1, <1>2, <1>4, <1>5, <1>6, <1>7, <1>8, <1>9, OneCallMoves

\* What the user does is nobody's call.
LEMMA RenamesHolds ==
  ASSUME PlainInv, Renames
  PROVE  PlainInv'
<1> PICK title \in Titles :
      journal' = [journal EXCEPT ![Existing] = Append(journal[Existing], Entered(title, ByUser))]
  BY DEF Renames
<1> DEFINE e == Entered(title, ByUser)
<1>1. PlainTyped
  BY DEF PlainInv, PlainTypeOK, PlainTyped, CallStates, HttpReplies
<1>2. e \in StoredEvents /\ \A c \in PlainCalls : e.by # c
  BY PlainAssumption DEF StoredEvents, Entered, Titles
<1>3. Existing \in SessionKeys
  BY DEF SessionKeys
<1>4. /\ journal' = [journal EXCEPT ![Existing] = Append(journal[Existing], e)]
      /\ plain' = plain /\ replies' = replies
  BY DEF Renames
<1> HIDE DEF e
<1>5. Append(journal[Existing], e) \in Seq(StoredEvents)
  BY <1>1, <1>2, <1>3, AppendProperties DEF PlainTyped
<1>6. journal' \in [SessionKeys -> Seq(StoredEvents)]
  BY <1>1, <1>3, <1>4, <1>5 DEF PlainTyped
<1>7. PlainTypeOK'
  BY <1>1, <1>4, <1>6 DEF PlainTyped, PlainTypeOK, CallStates, HttpReplies
<1>8. ASSUME NEW c \in PlainCalls PROVE ChatInv(c)'
  <2>1. \A s \in SessionKeys :
            \/ journal'[s] = journal[s]
            \/ \E f \in StoredEvents : f.by # c /\ journal'[s] = Append(journal[s], f)
    BY <1>1, <1>2, <1>3, <1>4 DEF PlainTyped
  <2> QED
    BY <1>4, <2>1, OtherChatsStay DEF PlainInv
<1> QED
  BY <1>7, <1>8 DEF PlainInv

LEMMA PlainStart == PlainInit => PlainInv
<1> SUFFICES ASSUME PlainInit PROVE PlainInv
  OBVIOUS
<1>1. 0 \in 0 .. MaxPlainRounds /\ 0 < MaxPlainRounds
  BY PlainAssumption
<1>2. Existing \in SessionKeys /\ Entered("created", ByUser) \in StoredEvents
  BY DEF SessionKeys, Entered, StoredEvents
<1>3. /\ <<Entered("created", ByUser)>> \in Seq(StoredEvents) /\ <<>> \in Seq(StoredEvents)
      /\ <<>> \in Seq(HttpReplies)
  BY <1>2
<1>4. Unasked \in CallStates
  BY <1>1, <1>2 DEF Unasked, CallStates
<1>5. PlainTypeOK
  BY <1>3, <1>4 DEF PlainInit, PlainTypeOK, CallStates, HttpReplies
<1>6. ASSUME NEW c \in PlainCalls PROVE ChatInv(c)
  <2>1. plain[c] = Unasked /\ replies[c] = <<>>
    BY DEF PlainInit
  <2>2. \A s \in SessionKeys : EventsBy(c, journal[s]) = {}
    <3> SUFFICES ASSUME NEW s \in SessionKeys PROVE EventsBy(c, journal[s]) = {}
      OBVIOUS
    <3>1. CASE s = Existing
      <4>1. journal[s] = <<Entered("created", ByUser)>>
        BY <3>1 DEF PlainInit
      <4>2. DOMAIN journal[s] = {1} /\ journal[s][1].by = ByUser
        BY <4>1 DEF Entered
      <4> QED
        BY <4>2, PlainAssumption DEF EventsBy
    <3>2. CASE s # Existing
      <4>1. journal[s] = <<>>
        BY <3>2 DEF PlainInit
      <4> QED
        BY <4>1 DEF EventsBy
    <3> QED
      BY <3>1, <3>2
  <2> DEFINE events == journal[Existing]
  <2>3. Len(events) \in Nat /\ EventsBy(c, events) = {} /\ OwnTitles(c, events) = {}
    BY <1>2, <1>5, <2>2, LenProperties DEF PlainTypeOK, OwnTitles, OfKind
  <2>4. Unasked.session = Existing
    BY DEF Unasked
  <2> HIDE DEF events
  <2>5. StoredSoFar(c, Unasked, events)
    BY <1>1, <2>3 DEF StoredSoFar, Unasked
  <2>6. TitlesSoFar(c, Unasked, events)
    BY <2>3 DEF TitlesSoFar, Unasked
  <2>7. HeardSoFar(c, Unasked, events, <<>>)
    BY DEF HeardSoFar, Unasked
  <2> QED
    BY <2>1, <2>2, <2>4, <2>5, <2>6, <2>7 DEF ChatInv, events
<1> QED
  BY <1>5, <1>6 DEF PlainInv

LEMMA PlainStep == PlainInv /\ [PlainNext]_plainVars => PlainInv'
<1> SUFFICES ASSUME PlainInv, [PlainNext]_plainVars PROVE PlainInv'
  OBVIOUS
<1>1. ASSUME NEW c \in PlainCalls,
             \/ \E status \in {"400", "404"} : Refused4xx(c, status)
             \/ \E s \in SessionKeys : BeginsChat(c, s)
             \/ LoadsSession(c) \/ AdmitsPrompt(c) \/ ModelSpeaks(c) \/ ModelCalls(c) \/ ModelFails(c)
             \/ RoundEnds(c) \/ Answers(c) \/ HandlerFails(c)
      PROVE  PlainInv'
  BY <1>1, RefusedHolds, BeginsHolds, LoadsHolds, AdmitsHolds, SpeaksHolds, CallsHolds, FailsHolds,
     RoundHolds, AnswersHolds, HandlerFailsHolds
<1>2. CASE Renames
  BY <1>2, RenamesHolds
<1>3. CASE UNCHANGED plainVars
  BY <1>3 DEF plainVars, PlainInv, PlainTypeOK, ChatInv
<1> QED
  BY <1>1, <1>2, <1>3 DEF PlainNext

\* What a client has heard last, and how much besides the ack.
LEMMA HeardIs ==
  ASSUME NEW c, NEW h, h # "ack"
  PROVE  /\ Last(<<"none">> \o Append(Acked(c), h)) = h
         /\ Last(<<"none">> \o Acked(c)) \in {"none", "ack"} /\ Last(<<"none">> \o <<>>) = "none"
         /\ {k \in DOMAIN Append(Acked(c), h) : Append(Acked(c), h)[k] # "ack"} = {Len(Acked(c)) + 1}
         /\ {k \in DOMAIN Acked(c) : Acked(c)[k] # "ack"} = {}
<1>1. CASE c \in SocketCalls
  BY <1>1 DEF Acked, Last
<1>2. CASE c \notin SocketCalls
  BY <1>2 DEF Acked, Last
<1> QED
  BY <1>1, <1>2

LEMMA PlainHolds == PlainInv => AnswersAreKept /\ UserTitleKept
<1> SUFFICES ASSUME PlainInv PROVE AnswersAreKept /\ UserTitleKept
  OBVIOUS
<1>1. ASSUME NEW c \in PlainCalls
      PROVE  LET events == journal[plain[c].session]
                 own    == EventsBy(c, events) IN
             /\ \A s \in SessionKeys \ {plain[c].session} : EventsBy(c, journal[s]) = {}
             /\ Last(<<"none">> \o replies[c]) = "200" =>
                  /\ \E p \in own : /\ OfKind(c, events, "prompt") = {p}
                                    /\ \A i \in own : i < p => events[i].kind = "created"
                  /\ plain[c].told <=> OfKind(c, events, "text") # {}
             /\ Last(<<"none">> \o replies[c]) \in {"400", "404"} => own = {}
             /\ Cardinality({k \in DOMAIN replies[c] : replies[c][k] # "ack"})
                  = IF plain[c].at = "returned" THEN 1 ELSE 0
  <2> DEFINE events == journal[plain[c].session]
             heard == replies[c]
             last == Last(<<"none">> \o heard)
             others == {k \in DOMAIN heard : heard[k] # "ack"}
  <2>1. \A s \in SessionKeys : s # plain[c].session => EventsBy(c, journal[s]) = {}
    BY ChatIs
  <2>2. HeardSoFar(c, plain[c], events, heard) /\ plain[c].told \in BOOLEAN
    BY ChatIs DEF CallStates
  <2> HIDE DEF events
  <2>3. CASE plain[c].at = "returned"
    <3>1. PICK h \in {"200", "400", "404", "500"} :
            /\ heard = Append(Acked(c), h)
            /\ h = "200" => PromptStored(c, events, plain[c].told)
            /\ h \in {"400", "404"} => EventsBy(c, events) = {}
      BY <2>2, <2>3 DEF HeardSoFar
    <3>2. h # "ack"
      OBVIOUS
    <3>3. /\ Last(<<"none">> \o Append(Acked(c), h)) = h
          /\ {k \in DOMAIN Append(Acked(c), h) : Append(Acked(c), h)[k] # "ack"} = {Len(Acked(c)) + 1}
      BY <3>2, HeardIs
    <3>5. last = h /\ others = {Len(Acked(c)) + 1}
      BY <3>1, <3>3, Zenon
    <3> HIDE DEF last, others
    <3>4. Cardinality(others) = 1
      BY <3>5, FS_Singleton
    <3> QED
      BY <2>1, <2>3, <3>1, <3>5, <3>4 DEF PromptStored, events, last, others
  <2>4. CASE plain[c].at # "returned"
    <3>1. heard = <<>> \/ heard = Acked(c)
      BY <2>2, <2>4 DEF HeardSoFar
    <3>2. last \in {"none", "ack"}
      BY <3>1, HeardIs
    <3>3. others = {}
      <4>1. CASE heard = <<>>
        BY <4>1
      <4>2. CASE heard = Acked(c)
        <5>1. {k \in DOMAIN Acked(c) : Acked(c)[k] # "ack"} = {}
          BY HeardIs
        <5> QED
          BY <4>2, <5>1, Zenon
      <4> QED
        BY <3>1, <4>1, <4>2
    <3> HIDE DEF last, others
    <3>4. Cardinality(others) = 0
      BY <3>3, FS_EmptySet
    <3> QED
      BY <2>1, <2>4, <3>2, <3>4 DEF events, last, others
  <2> QED
    BY <2>3, <2>4
<1>2. AnswersAreKept
  BY <1>1 DEF AnswersAreKept
<1>3. UserTitleKept
  <2> SUFFICES ASSUME NEW c \in PlainCalls, NEW i \in DOMAIN journal[plain[c].session],
                      journal[plain[c].session][i].by = c, journal[plain[c].session][i].kind \in Titles
               PROVE  ~Named(journal[plain[c].session], plain[c].seen)
    BY DEF UserTitleKept
  <2>1. i \in OwnTitles(c, journal[plain[c].session])
    BY DEF OwnTitles, OfKind, EventsBy, Titles
  <2> QED
    BY <2>1, ChatIs DEF TitlesSoFar
<1> QED
  BY <1>2, <1>3

(***************************************************************************)
(* A plain chat keeps what it answered, where the client asked, and the    *)
(* title that it read, for any number of calls, rounds and renames.        *)
(***************************************************************************)
THEOREM PlainChatsKept == PlainSpec => [](PlainTypeOK /\ AnswersAreKept /\ UserTitleKept)
<1>1. PlainInv => PlainTypeOK
  BY DEF PlainInv
<1> QED
  BY <1>1, PlainStart, PlainStep, PlainHolds, PTL DEF PlainSpec

-----------------------------------------------------------------------------
(***************************************************************************)
(* The limit of chats: what is kept of a host is all that is recent.       *)
(***************************************************************************)

\* What is kept of a host is the end of what was let through, all that is
\* recent included.
KeptIsEnd(kept, all) ==
  /\ Len(kept) <= Len(all)
  /\ \A k \in 1 .. Len(kept) : kept[k] = all[Len(all) - Len(kept) + k]

Ascending(all) == \A i, j \in 1 .. Len(all) : i <= j => all[i] <= all[j]

Within(all, from, to) == {i \in DOMAIN all : all[i] \in from .. to}

HostInv(h) ==
  /\ KeptIsEnd(windows[h], limited[h])
  /\ \A i \in 1 .. (Len(limited[h]) - Len(windows[h])) : limited[h][i] < now - Window
  /\ Ascending(limited[h]) /\ \A i \in 1 .. Len(limited[h]) : limited[h][i] <= now
  /\ \A t \in 0 .. MaxClock : Cardinality(Within(limited[h], t - Window, t)) <= MaxRequests
  /\ h \notin LocalHosts => limited[h] = <<>> /\ windows[h] = <<>>

GuardInv == GuardTypeOK /\ \A h \in Hosts : HostInv(h)

\* A set of numbers that goes down to 1 is an interval from 1.
LEMMA DownClosed ==
  ASSUME NEW n \in Nat, NEW W \in SUBSET (1 .. n), \A k \in W : \A j \in 1 .. k : j \in W
  PROVE  Cardinality(W) \in 0 .. n /\ W = 1 .. Cardinality(W)
<1>1. CASE W = {}
  BY <1>1, FS_EmptySet
<1>2. CASE W # {}
  <2>1. PICK m \in W : \A j \in W : j <= m
    BY <1>2, EndsOfPlaces
  <2>0. m \in 1 .. n
    OBVIOUS
  <2>2. W = 1 .. m /\ m \in Nat /\ m <= n
    <3>1. \A j \in W : j \in 1 .. m
      BY <2>0, <2>1
    <3>2. \A j \in 1 .. m : j \in W
      OBVIOUS
    <3>3. W = 1 .. m
      BY <3>1, <3>2
    <3> QED
      BY <2>0, <3>3
  <2>3. Cardinality(W) = m
    BY <2>2, FS_Interval
  <2> QED
    BY <2>2, <2>3
<1> QED
  BY <1>1, <1>2

\* What is left after popping: the rest, all of it recent.
LEMMA RecentIs ==
  ASSUME NEW ts \in Seq(0 .. MaxClock), Ascending(ts), now \in 0 .. MaxClock
  PROVE  \E p \in 0 .. Len(ts) :
           /\ Recent(ts) \in Seq(0 .. MaxClock) /\ Len(Recent(ts)) = Len(ts) - p
           /\ \A k \in 1 .. (Len(ts) - p) : Recent(ts)[k] = ts[p + k]
           /\ \A i \in 1 .. p : ts[i] < now - Window
           /\ \A i \in (p + 1) .. Len(ts) : ~(ts[i] < now - Window)
<1> DEFINE n == Len(ts)
           W == Popped(ts)
           p == Cardinality(W)
<1>0. Window \in Nat /\ MaxClock \in Nat
  BY GuardAssumption
<1>1. n \in Nat /\ DOMAIN ts = 1 .. n /\ \A i \in 1 .. n : ts[i] \in 0 .. MaxClock
  BY LenProperties, ElementOfSeq
<1>2. W \in SUBSET (1 .. n)
  BY <1>1 DEF Popped
<1>3. \A k \in W : \A j \in 1 .. k : j \in W
  <2> SUFFICES ASSUME NEW k \in W, NEW j \in 1 .. k PROVE j \in W
    OBVIOUS
  <2>1. k \in 1 .. n /\ \A i \in 1 .. k : ts[i] < now - Window
    BY <1>1 DEF Popped
  <2>2. j \in 1 .. n /\ \A i \in 1 .. j : i \in 1 .. k
    BY <1>1, <2>1
  <2> QED
    BY <1>1, <2>1, <2>2 DEF Popped
<1> HIDE DEF W, p, n
<1>4. p \in 0 .. n /\ W = 1 .. p
  BY <1>1, <1>2, <1>3, DownClosed DEF p
<1>5. \A i \in 1 .. p : ts[i] < now - Window
  <2> SUFFICES ASSUME NEW i \in 1 .. p PROVE ts[i] < now - Window
    OBVIOUS
  <2>1. i \in W /\ i \in 1 .. i
    BY <1>1, <1>4
  <2> QED
    BY <2>1 DEF W, Popped
<1>6. \A i \in (p + 1) .. n : ~(ts[i] < now - Window)
  <2> SUFFICES ASSUME NEW i \in (p + 1) .. n, ts[i] < now - Window PROVE FALSE
    OBVIOUS
  <2>1. i \in 1 .. n /\ i \notin 1 .. p /\ now - Window \in Int
    BY <1>0, <1>1, <1>4
  <2>2. \A j \in 1 .. i : ts[j] < now - Window
    <3> SUFFICES ASSUME NEW j \in 1 .. i PROVE ts[j] < now - Window
      OBVIOUS
    <3>1. j \in 1 .. n /\ ts[j] <= ts[i]
      BY <1>1, <2>1 DEF Ascending, n
    <3> QED
      BY <1>1, <2>1, <3>1
  <2>3. i \in W
    BY <1>1, <2>1, <2>2 DEF W, Popped
  <2> QED
    BY <1>4, <2>1, <2>3
<1>7. Recent(ts) = SubSeq(ts, p + 1, n)
  BY DEF Recent, p, W, n
<1>8. /\ p + 1 \in Int /\ n \in Int /\ \A i \in (p + 1) .. n : ts[i] \in 0 .. MaxClock
  BY <1>1, <1>4
<1>9. /\ Recent(ts) \in Seq(0 .. MaxClock) /\ Len(Recent(ts)) = n - p
      /\ \A k \in 1 .. (n - p) : Recent(ts)[k] = ts[p + k]
  <2>1. /\ SubSeq(ts, p + 1, n) \in Seq(0 .. MaxClock)
        /\ Len(SubSeq(ts, p + 1, n)) = IF p + 1 <= n THEN n - (p + 1) + 1 ELSE 0
        /\ \A k \in 1 .. (n - (p + 1) + 1) : SubSeq(ts, p + 1, n)[k] = ts[(p + 1) + k - 1]
    BY <1>8, SubSeqProperties
  <2>2. n - (p + 1) + 1 = n - p /\ \A k \in 1 .. (n - p) : (p + 1) + k - 1 = p + k
    BY <1>1, <1>4
  <2>3. (IF p + 1 <= n THEN n - (p + 1) + 1 ELSE 0) = n - p
    BY <1>1, <1>4
  <2> QED
    BY <1>7, <2>1, <2>2, <2>3
<1> QED
  BY <1>4, <1>5, <1>6, <1>9 DEF n

\* The end of the end of a list.
LEMMA EndOfEnd ==
  ASSUME NEW T, NEW all \in Seq(T), NEW kept \in Seq(T), NEW rest \in Seq(T), NEW p \in 0 .. Len(kept),
         KeptIsEnd(kept, all), Len(rest) = Len(kept) - p,
         \A k \in 1 .. (Len(kept) - p) : rest[k] = kept[p + k]
  PROVE  KeptIsEnd(rest, all)
<1> DEFINE n == Len(all)
           m == Len(kept)
<1>1. n \in Nat /\ m \in Nat /\ m <= n /\ p \in 0 .. m /\ Len(rest) = m - p
  BY LenProperties DEF KeptIsEnd
<1>2. /\ \A k \in 1 .. m : kept[k] = all[n - m + k]
      /\ \A k \in 1 .. (m - p) : rest[k] = kept[p + k]
  BY DEF KeptIsEnd
<1> HIDE DEF n, m
<1>3. \A k \in 1 .. (m - p) : rest[k] = all[n - (m - p) + k]
  <2> SUFFICES ASSUME NEW k \in 1 .. (m - p) PROVE rest[k] = all[n - (m - p) + k]
    OBVIOUS
  <2>1. p + k \in 1 .. m /\ n - m + (p + k) = n - (m - p) + k
    BY <1>1
  <2>2. rest[k] = kept[p + k] /\ kept[p + k] = all[n - m + (p + k)]
    BY <1>2, <2>1
  <2> QED
    BY <2>1, <2>2, Zenon
<1>4. Len(rest) <= n
  BY <1>1
<1> QED
  BY <1>1, <1>3, <1>4 DEF KeptIsEnd, n

\* One more on both.
LEMMA EndGrows ==
  ASSUME NEW T, NEW all \in Seq(T), NEW kept \in Seq(T), NEW t \in T, KeptIsEnd(kept, all)
  PROVE  /\ KeptIsEnd(Append(kept, t), Append(all, t))
         /\ Len(Append(all, t)) - Len(Append(kept, t)) = Len(all) - Len(kept)
<1> DEFINE n == Len(all)
           m == Len(kept)
           all2 == Append(all, t)
           kept2 == Append(kept, t)
<1>1. /\ n \in Nat /\ m \in Nat /\ m <= n
      /\ Len(all2) = n + 1 /\ Len(kept2) = m + 1
      /\ \A k \in 1 .. n : all2[k] = all[k]
      /\ \A k \in 1 .. m : kept2[k] = kept[k]
      /\ all2[n + 1] = t /\ kept2[m + 1] = t
      /\ \A k \in 1 .. m : kept[k] = all[n - m + k]
  BY LenProperties, AppendProperties DEF KeptIsEnd
<1> HIDE DEF n, m, all2, kept2
<1>2. \A k \in 1 .. (m + 1) : kept2[k] = all2[(n + 1) - (m + 1) + k]
  <2> SUFFICES ASSUME NEW k \in 1 .. (m + 1) PROVE kept2[k] = all2[(n + 1) - (m + 1) + k]
    OBVIOUS
  <2>1. CASE k = m + 1
    <3>1. (n + 1) - (m + 1) + k = n + 1
      BY <1>1, <2>1
    <3> QED
      BY <1>1, <2>1, <3>1
  <2>2. CASE k # m + 1
    <3>1. (n + 1) - (m + 1) + k = n - m + k /\ n - m + k \in 1 .. n /\ k \in 1 .. m
      BY <1>1, <2>2
    <3> QED
      BY <1>1, <3>1
  <2> QED
    BY <2>1, <2>2
<1>3. m + 1 <= n + 1 /\ (n + 1) - (m + 1) = n - m
  <2>1. n \in Nat /\ m \in Nat /\ m <= n
    BY <1>1
  <2> QED
    BY <2>1
<1> QED
  BY <1>1, <1>2, <1>3 DEF KeptIsEnd, n, m, all2, kept2

\* As many as are left when the old ones are popped are in the window.
LEMMA WindowCounts ==
  ASSUME GuardTypeOK, NEW h \in Hosts, HostInv(h)
  PROVE  Cardinality(Within(limited[h], now - Window, now)) = Len(Recent(windows[h]))
<1> DEFINE all == limited[h]
           kept == windows[h]
           n == Len(all)
           m == Len(kept)
<1>1. /\ all \in Seq(0 .. MaxClock) /\ kept \in Seq(0 .. MaxClock) /\ now \in 0 .. MaxClock
      /\ Window \in Nat /\ MaxClock \in Nat
  BY GuardAssumption DEF GuardTypeOK
<1>2. /\ n \in Nat /\ m \in Nat /\ m <= n /\ DOMAIN all = 1 .. n
      /\ \A i \in 1 .. n : all[i] \in 0 .. MaxClock
      /\ \A k \in 1 .. m : kept[k] = all[n - m + k] /\ kept[k] \in 0 .. MaxClock
      /\ \A i \in 1 .. (n - m) : all[i] < now - Window
      /\ \A i \in 1 .. n : all[i] <= now
      /\ \A i, j \in 1 .. n : i <= j => all[i] <= all[j]
  BY <1>1, LenProperties, ElementOfSeq DEF HostInv, KeptIsEnd, Ascending
<1> HIDE DEF all, kept, n, m
<1>3. Ascending(kept)
  <2> SUFFICES ASSUME NEW i \in 1 .. m, NEW j \in 1 .. m, i <= j PROVE kept[i] <= kept[j]
    BY DEF Ascending, m
  <2>1. n - m + i \in 1 .. n /\ n - m + j \in 1 .. n /\ n - m + i <= n - m + j
    BY <1>2
  <2> QED
    BY <1>2, <2>1
<1>4. PICK p \in 0 .. m :
        /\ Len(Recent(kept)) = m - p
        /\ \A i \in 1 .. p : kept[i] < now - Window
        /\ \A i \in (p + 1) .. m : ~(kept[i] < now - Window)
  BY <1>1, <1>3, RecentIs DEF m
<1>5. \A i \in 1 .. n : (all[i] \in (now - Window) .. now) <=> i \in (n - m + p + 1) .. n
  <2> SUFFICES ASSUME NEW i \in 1 .. n
               PROVE  (all[i] \in (now - Window) .. now) <=> i \in (n - m + p + 1) .. n
    OBVIOUS
  <2>1. all[i] \in Int /\ all[i] <= now /\ now - Window \in Int /\ now \in Int
    BY <1>1, <1>2
  <2>2. CASE i \in 1 .. (n - m)
    <3>1. all[i] < now - Window /\ ~(i >= n - m + p + 1)
      BY <1>2, <2>2
    <3> QED
      BY <2>1, <3>1
  <2>3. CASE i \notin 1 .. (n - m)
    <3>1. i - (n - m) \in 1 .. m /\ n - m + (i - (n - m)) = i
      BY <1>2, <2>3
    <3>2. kept[i - (n - m)] = all[i]
      BY <1>2, <3>1
    <3>3. CASE i - (n - m) <= p
      <4>1. i - (n - m) \in 1 .. p /\ ~(i >= n - m + p + 1)
        BY <1>2, <3>1, <3>3
      <4>2. all[i] < now - Window
        BY <1>4, <3>2, <4>1
      <4> QED
        BY <2>1, <4>1, <4>2
    <3>4. CASE ~(i - (n - m) <= p)
      <4>1. i - (n - m) \in (p + 1) .. m /\ i \in (n - m + p + 1) .. n
        BY <1>2, <3>1, <3>4
      <4>2. ~(all[i] < now - Window)
        BY <1>4, <3>2, <4>1
      <4> QED
        BY <2>1, <4>1, <4>2
    <3> QED
      BY <3>3, <3>4
  <2> QED
    BY <2>2, <2>3
<1>6. Within(all, now - Window, now) = (n - m + p + 1) .. n
  <2>1. (n - m + p + 1) .. n \subseteq 1 .. n
    BY <1>2
  <2> QED
    BY <1>2, <1>5, <2>1 DEF Within
<1>7. Cardinality((n - m + p + 1) .. n) = m - p
  <2>1. n - m + p + 1 \in Int /\ n \in Int
    BY <1>2
  <2>2. Cardinality((n - m + p + 1) .. n) = IF (n - m + p + 1) > n THEN 0 ELSE n - (n - m + p + 1) + 1
    BY <2>1, FS_Interval
  <2> QED
    BY <1>2, <2>2
<1> QED
  BY <1>4, <1>6, <1>7 DEF all, kept

\* The parts of the type invariant.
LEMMA GuardTyped ==
  ASSUME GuardTypeOK
  PROVE  /\ now \in 0 .. MaxClock /\ Window \in Nat /\ MaxClock \in Nat /\ MaxRequests \in Nat
         /\ windows \in [Hosts -> Seq(0 .. MaxClock)] /\ limited \in [Hosts -> Seq(0 .. MaxClock)]
BY GuardAssumption DEF GuardTypeOK

\* Time passes.
LEMMA TickHolds == GuardInv /\ Tick => GuardInv'
<1> SUFFICES ASSUME GuardInv, Tick PROVE GuardInv'
  OBVIOUS
<1>0. GuardTypeOK
  BY DEF GuardInv
<1>1. /\ now \in 0 .. MaxClock /\ Window \in Nat /\ MaxClock \in Nat
      /\ windows \in [Hosts -> Seq(0 .. MaxClock)] /\ limited \in [Hosts -> Seq(0 .. MaxClock)]
  BY <1>0, GuardTyped
<1>2. now < MaxClock /\ now' = now + 1 /\ windows' = windows /\ limited' = limited
  BY DEF Tick
<1>3. GuardTypeOK'
  BY <1>1, <1>2 DEF GuardTypeOK
<1>4. ASSUME NEW h \in Hosts PROVE HostInv(h)'
  <2>1. HostInv(h)
    BY DEF GuardInv
  <2>2. /\ Len(limited[h]) \in Nat /\ Len(windows[h]) \in Nat /\ Len(windows[h]) <= Len(limited[h])
        /\ \A i \in 1 .. Len(limited[h]) : limited[h][i] \in 0 .. MaxClock
    BY <1>1, <2>1, LenProperties, ElementOfSeq DEF HostInv, KeptIsEnd
  <2>3. \A i \in 1 .. (Len(limited[h]) - Len(windows[h])) : limited[h][i] < now' - Window
    <3> SUFFICES ASSUME NEW i \in 1 .. (Len(limited[h]) - Len(windows[h]))
                 PROVE  limited[h][i] < now' - Window
      OBVIOUS
    <3>1. limited[h][i] < now - Window
      BY <2>1 DEF HostInv
    <3>2. i \in 1 .. Len(limited[h])
      <4>1. Len(limited[h]) \in Nat /\ Len(windows[h]) \in Nat /\ Len(windows[h]) <= Len(limited[h])
        BY <2>2
      <4> DEFINE n == Len(limited[h])
                 m == Len(windows[h])
      <4>2. n \in Nat /\ m \in Nat /\ m <= n /\ i \in 1 .. (n - m)
        BY <4>1
      <4> HIDE DEF n, m
      <4>3. i \in 1 .. n
        BY <4>2
      <4> QED
        BY <4>3 DEF n
    <3>3. limited[h][i] \in Int
      BY <1>1, <2>2, <3>2
    <3> QED
      BY <1>1, <1>2, <3>1, <3>3
  <2>4. \A i \in 1 .. Len(limited[h]) : limited[h][i] <= now'
    <3> SUFFICES ASSUME NEW i \in 1 .. Len(limited[h]) PROVE limited[h][i] <= now'
      OBVIOUS
    <3>1. limited[h][i] <= now
      BY <2>1 DEF HostInv
    <3>2. limited[h][i] \in Int
      BY <2>2
    <3> QED
      BY <1>1, <1>2, <3>1, <3>2
  <2> QED
    BY <1>2, <2>1, <2>3, <2>4 DEF HostInv
<1> QED
  BY <1>3, <1>4 DEF GuardInv

\* What keeps less of a host, all that is recent included.
LEMMA KeepsLess ==
  ASSUME GuardInv, NEW h \in Hosts, NEW rest \in Seq(0 .. MaxClock),
         NEW p \in 0 .. Len(windows[h]), Len(rest) = Len(windows[h]) - p,
         \A k \in 1 .. (Len(windows[h]) - p) : rest[k] = windows[h][p + k],
         \A k \in 1 .. p : windows[h][k] < now - Window
  PROVE  /\ KeptIsEnd(rest, limited[h])
         /\ \A i \in 1 .. (Len(limited[h]) - Len(rest)) : limited[h][i] < now - Window
<1> DEFINE all == limited[h]
           kept == windows[h]
           n == Len(all)
           m == Len(kept)
<1>0. GuardTypeOK /\ HostInv(h)
  BY DEF GuardInv
<1>1. all \in Seq(0 .. MaxClock) /\ kept \in Seq(0 .. MaxClock)
  BY <1>0, GuardTyped
<1>2. /\ n \in Nat /\ m \in Nat /\ m <= n /\ KeptIsEnd(kept, all)
      /\ \A k \in 1 .. m : kept[k] = all[n - m + k]
      /\ \A i \in 1 .. (n - m) : all[i] < now - Window
  BY <1>0, <1>1, LenProperties DEF HostInv, KeptIsEnd
<1>3. KeptIsEnd(rest, all)
  BY <1>1, <1>2, EndOfEnd
<1>4. p \in 0 .. m /\ Len(rest) = m - p /\ \A k \in 1 .. p : kept[k] < now - Window
  OBVIOUS
<1> HIDE DEF all, kept, n, m
<1>5. ASSUME NEW i \in 1 .. (n - Len(rest)) PROVE all[i] < now - Window
  <2>1. CASE i \in 1 .. (n - m)
    BY <1>2, <2>1
  <2>2. CASE i \notin 1 .. (n - m)
    <3>1. i - (n - m) \in 1 .. p /\ i - (n - m) \in 1 .. m /\ n - m + (i - (n - m)) = i
      BY <1>2, <1>4, <2>2
    <3>2. kept[i - (n - m)] = all[n - m + (i - (n - m))]
      BY <1>2, <3>1
    <3>3. kept[i - (n - m)] < now - Window
      BY <1>4, <3>1
    <3> QED
      BY <3>1, <3>2, <3>3, Zenon
  <2> QED
    BY <2>1, <2>2
<1> QED
  BY <1>3, <1>5 DEF all, n

\* Hosts are forgotten.
LEMMA HostsCleanupHolds == GuardInv /\ Cleanup => GuardInv'
<1> SUFFICES ASSUME GuardInv, Cleanup PROVE GuardInv'
  OBVIOUS
<1>0. GuardTypeOK
  BY DEF GuardInv
<1>1. /\ now \in 0 .. MaxClock /\ Window \in Nat /\ MaxClock \in Nat
      /\ windows \in [Hosts -> Seq(0 .. MaxClock)] /\ limited \in [Hosts -> Seq(0 .. MaxClock)]
  BY <1>0, GuardTyped
<1>2. /\ windows' = [h \in Hosts |-> IF windows[h] # <<>> /\ Last(windows[h]) < now - Window
                                 THEN <<>> ELSE windows[h]]
      /\ now' = now /\ limited' = limited
  BY DEF Cleanup
<1>3. GuardTypeOK'
  <2>1. ASSUME NEW h \in Hosts
        PROVE  (IF windows[h] # <<>> /\ Last(windows[h]) < now - Window
                THEN <<>> ELSE windows[h]) \in Seq(0 .. MaxClock)
    <3>1. <<>> \in Seq(0 .. MaxClock) /\ windows[h] \in Seq(0 .. MaxClock)
      BY <1>1
    <3> QED
      BY <3>1, Zenon
  <2>2. windows' \in [Hosts -> Seq(0 .. MaxClock)]
    BY <1>2, <2>1
  <2> QED
    BY <1>1, <1>2, <2>2 DEF GuardTypeOK
<1>4. ASSUME NEW h \in Hosts PROVE HostInv(h)'
  <2>1. HostInv(h)
    BY DEF GuardInv
  <2>2. CASE ~(windows[h] # <<>> /\ Last(windows[h]) < now - Window)
    <3>1. windows'[h] = windows[h]
      BY <1>2, <2>2
    <3> QED
      BY <1>2, <2>1, <3>1 DEF HostInv
  <2>3. CASE windows[h] # <<>> /\ Last(windows[h]) < now - Window
    <3> DEFINE m == Len(windows[h])
               n == Len(limited[h])
    <3>1. windows'[h] = <<>>
      BY <1>2, <2>3
    <3>2. /\ m \in Nat \ {0} /\ windows[h][m] < now - Window /\ n \in Nat /\ m <= n
          /\ \A k \in 1 .. m : windows[h][k] = limited[h][n - m + k]
          /\ \A i \in 1 .. m : windows[h][i] \in 0 .. MaxClock
          /\ \A i, j \in 1 .. n : i <= j => limited[h][i] <= limited[h][j]
      BY <1>1, <2>1, <2>3, LenProperties, ElementOfSeq, EmptySeq DEF Last, HostInv, KeptIsEnd, Ascending
    <3> HIDE DEF m, n
    <3>3. \A k \in 1 .. m : windows[h][k] < now - Window
      <4> SUFFICES ASSUME NEW k \in 1 .. m PROVE windows[h][k] < now - Window
        OBVIOUS
      <4>1. n - m + k \in 1 .. n /\ n - m + m \in 1 .. n /\ n - m + k <= n - m + m /\ m \in 1 .. m
        BY <3>2
      <4>2. windows[h][k] <= windows[h][m]
        BY <3>2, <4>1
      <4> QED
        BY <1>1, <3>2, <4>1, <4>2
    <3>4. /\ KeptIsEnd(<<>>, limited[h])
          /\ \A i \in 1 .. (Len(limited[h]) - Len(<<>>)) : limited[h][i] < now - Window
      <4>1. <<>> \in Seq(0 .. MaxClock) /\ m \in 0 .. m /\ Len(<<>>) = m - m /\ 1 .. (m - m) = {}
        BY <3>2
      <4> QED
        BY <3>3, <4>1, KeepsLess DEF m
    <3> QED
      BY <1>2, <2>1, <3>1, <3>4 DEF HostInv
  <2> QED
    BY <2>2, <2>3
<1> QED
  BY <1>3, <1>4 DEF GuardInv

\* One chat more is let through while there are fewer than the limit.
LEMMA OneMoreWithin ==
  ASSUME NEW all \in Seq(0 .. MaxClock), NEW clock \in 0 .. MaxClock,
         \A i \in 1 .. Len(all) : all[i] <= clock,
         Cardinality(Within(all, clock - Window, clock)) < MaxRequests,
         NEW t \in 0 .. MaxClock, Cardinality(Within(all, t - Window, t)) <= MaxRequests
  PROVE  Cardinality(Within(Append(all, clock), t - Window, t)) <= MaxRequests
<1> DEFINE n == Len(all)
           new == Append(all, clock)
<1>0. Window \in Nat /\ MaxClock \in Nat /\ MaxRequests \in Nat
  BY GuardAssumption
<1>1. /\ n \in Nat /\ DOMAIN all = 1 .. n /\ DOMAIN new = 1 .. (n + 1)
      /\ \A i \in 1 .. n : new[i] = all[i] /\ all[i] \in 0 .. MaxClock
      /\ new[n + 1] = clock
  <2>1. new \in Seq(0 .. MaxClock) /\ Len(new) = n + 1 /\ new[n + 1] = clock
        /\ \A i \in 1 .. n : new[i] = all[i]
    BY AppendProperties
  <2>2. n \in Nat /\ DOMAIN all = 1 .. n /\ DOMAIN new = 1 .. Len(new)
    BY <2>1, LenProperties
  <2>3. \A i \in 1 .. n : all[i] \in 0 .. MaxClock
    BY ElementOfSeq
  <2> QED
    BY <2>1, <2>2, <2>3
<1> HIDE DEF n, new
<1>2. CASE t < clock
  <2>1. clock \notin (t - Window) .. t
    BY <1>0, <1>2
  <2>2. Within(new, t - Window, t) = Within(all, t - Window, t)
    BY <1>1, <2>1 DEF Within
  <2> QED
    BY <2>2 DEF new
<1>3. CASE ~(t < clock)
  <2> DEFINE old == Within(all, clock - Window, clock)
  <2>1. \A i \in Within(new, t - Window, t) : i = n + 1 \/ i \in old
    <3> SUFFICES ASSUME NEW i \in Within(new, t - Window, t), i # n + 1 PROVE i \in old
      OBVIOUS
    <3>1. i \in 1 .. (n + 1) /\ new[i] \in (t - Window) .. t
      BY <1>1 DEF Within
    <3>2. i \in 1 .. n /\ all[i] \in Int /\ all[i] <= clock /\ all[i] >= t - Window
      BY <1>0, <1>1, <3>1 DEF n
    <3>3. all[i] \in (clock - Window) .. clock
      BY <1>0, <1>3, <3>2
    <3> QED
      BY <1>1, <3>2, <3>3 DEF Within
  <2>2. IsFiniteSet(old)
    <3>1. old \in SUBSET (1 .. n)
      BY <1>1 DEF Within
    <3> QED
      BY <1>1, <3>1, RanksNumber
  <2> HIDE DEF old
  <2>3. IsFiniteSet(old \cup {n + 1}) /\ Cardinality(old \cup {n + 1}) <= Cardinality(old) + 1
    <3>1. CASE n + 1 \in old
      <4>1. IsFiniteSet(old \cup {n + 1}) /\ Cardinality(old \cup {n + 1}) = Cardinality(old)
        BY <2>2, <3>1, FS_AddElement
      <4>2. Cardinality(old) \in Nat
        BY <2>2, FS_CardinalityType
      <4> QED
        BY <4>1, <4>2
    <3>2. CASE n + 1 \notin old
      <4>1. IsFiniteSet(old \cup {n + 1}) /\ Cardinality(old \cup {n + 1}) = Cardinality(old) + 1
        BY <2>2, <3>2, FS_AddElement
      <4>2. Cardinality(old) \in Nat
        BY <2>2, FS_CardinalityType
      <4> QED
        BY <4>1, <4>2
    <3> QED
      BY <3>1, <3>2
  <2>4. Within(new, t - Window, t) \subseteq old \cup {n + 1}
    BY <2>1
  <2>5. /\ Cardinality(Within(new, t - Window, t)) \in Nat
        /\ Cardinality(Within(new, t - Window, t)) <= Cardinality(old \cup {n + 1})
    BY <2>3, <2>4, FS_Subset, FS_CardinalityType
  <2>6. Cardinality(old) < MaxRequests /\ Cardinality(old) \in Nat /\ Cardinality(old \cup {n + 1}) \in Nat
    BY <2>2, <2>3, FS_CardinalityType DEF old
  <2> QED
    BY <1>0, <2>3, <2>5, <2>6 DEF new
<1> QED
  BY <1>2, <1>3

\* A chat is let through or turned away.
LEMMA ChatRequestHolds ==
  ASSUME GuardInv, NEW h \in Hosts, ChatRequest(h)
  PROVE  GuardInv'
<1>0. GuardTypeOK /\ HostInv(h)
  BY DEF GuardInv
<1>1. /\ now \in 0 .. MaxClock /\ Window \in Nat /\ MaxClock \in Nat /\ MaxRequests \in Nat
      /\ windows \in [Hosts -> Seq(0 .. MaxClock)] /\ limited \in [Hosts -> Seq(0 .. MaxClock)]
  BY <1>0, GuardTyped
<1> DEFINE all == limited[h]
           kept == windows[h]
           rest == Recent(kept)
<1>2. /\ all \in Seq(0 .. MaxClock) /\ kept \in Seq(0 .. MaxClock)
      /\ Len(all) \in Nat /\ Len(kept) \in Nat /\ Len(kept) <= Len(all)
      /\ \A k \in 1 .. Len(kept) : kept[k] = all[Len(all) - Len(kept) + k]
      /\ \A i \in 1 .. Len(all) : all[i] \in 0 .. MaxClock /\ all[i] <= now
      /\ \A i, j \in 1 .. Len(all) : i <= j => all[i] <= all[j]
  BY <1>0, <1>1, LenProperties, ElementOfSeq DEF HostInv, KeptIsEnd, Ascending
<1>3. Ascending(kept)
  <2> SUFFICES ASSUME NEW i \in 1 .. Len(kept), NEW j \in 1 .. Len(kept), i <= j PROVE kept[i] <= kept[j]
    BY DEF Ascending
  <2> DEFINE n == Len(all)
             m == Len(kept)
  <2>1. n \in Nat /\ m \in Nat /\ m <= n /\ i \in 1 .. m /\ j \in 1 .. m
    BY <1>2
  <2> HIDE DEF n, m
  <2>2. n - m + i \in 1 .. n /\ n - m + j \in 1 .. n /\ n - m + i <= n - m + j
    BY <2>1
  <2> QED
    BY <1>2, <2>2 DEF n, m
<1>4. PICK p \in 0 .. Len(kept) :
        /\ rest \in Seq(0 .. MaxClock) /\ Len(rest) = Len(kept) - p
        /\ \A k \in 1 .. (Len(kept) - p) : rest[k] = kept[p + k]
        /\ \A i \in 1 .. p : kept[i] < now - Window
  BY <1>1, <1>2, <1>3, RecentIs
<1>5. /\ KeptIsEnd(rest, all)
      /\ \A i \in 1 .. (Len(all) - Len(rest)) : all[i] < now - Window
  BY <1>4, KeepsLess
<1>6. Cardinality(Within(all, now - Window, now)) = Len(rest)
  BY <1>0, WindowCounts
<1>7. h \in LocalHosts /\ now' = now
  BY DEF ChatRequest
<1> HIDE DEF all, kept, rest
<1>8. \A g \in Hosts : g # h => windows'[g] = windows[g] /\ limited'[g] = limited[g]
  BY <1>1 DEF ChatRequest, Check
<1>9. ASSUME NEW g \in Hosts, g # h PROVE HostInv(g)'
  BY <1>7, <1>8, <1>9 DEF GuardInv, HostInv
<1>10. CASE UnderLimit(h)
  <2>1. /\ windows' = [windows EXCEPT ![h] = Append(rest, now)]
        /\ limited' = [limited EXCEPT ![h] = Append(all, now)]
    <3>1. MaxRequests > 0 /\ ~(MaxRequests <= 0)
      BY <1>1, <1>10 DEF UnderLimit
    <3>2. windows' = [windows EXCEPT ![h] = Append(Recent(windows[h]), now)]
      BY <1>1, <1>10, <3>1 DEF ChatRequest, Check
    <3>3. limited' = [limited EXCEPT ![h] = Append(limited[h], now)]
      BY <1>1, <1>10 DEF ChatRequest
    <3> QED
      BY <3>2, <3>3 DEF rest, kept, all
  <2>2. Append(rest, now) \in Seq(0 .. MaxClock) /\ Append(all, now) \in Seq(0 .. MaxClock)
    BY <1>1, <1>2, <1>4, AppendProperties
  <2>3. GuardTypeOK'
    BY <1>1, <1>7, <2>1, <2>2 DEF GuardTypeOK
  <2>4. windows'[h] = Append(rest, now) /\ limited'[h] = Append(all, now)
    BY <1>1, <2>1
  <2>5. /\ KeptIsEnd(Append(rest, now), Append(all, now))
        /\ Len(Append(all, now)) - Len(Append(rest, now)) = Len(all) - Len(rest)
    BY <1>1, <1>2, <1>4, <1>5, EndGrows
  <2>6. /\ Len(Append(all, now)) = Len(all) + 1
        /\ \A i \in 1 .. Len(all) : Append(all, now)[i] = all[i]
        /\ Append(all, now)[Len(all) + 1] = now
    BY <1>1, <1>2, AppendProperties
  <2>7. Len(rest) \in Nat
    BY <1>4, LenProperties
  <2>8. \A i \in 1 .. (Len(all) - Len(rest)) : Append(all, now)[i] < now - Window
    BY <1>2, <1>5, <2>6, <2>7
  <2>9. \A i \in 1 .. (Len(all) + 1) : Append(all, now)[i] <= now /\ Append(all, now)[i] \in 0 .. MaxClock
    <3> SUFFICES ASSUME NEW i \in 1 .. (Len(all) + 1)
                 PROVE  Append(all, now)[i] <= now /\ Append(all, now)[i] \in 0 .. MaxClock
      OBVIOUS
    <3>1. CASE i = Len(all) + 1
      BY <1>1, <2>6, <3>1
    <3>2. CASE i # Len(all) + 1
      <4>1. i \in 1 .. Len(all)
        BY <1>2, <3>2
      <4> QED
        BY <1>2, <2>6, <4>1
    <3> QED
      BY <3>1, <3>2
  <2>10. Ascending(Append(all, now))
    <3> SUFFICES ASSUME NEW i \in 1 .. (Len(all) + 1), NEW j \in 1 .. (Len(all) + 1), i <= j
                 PROVE  Append(all, now)[i] <= Append(all, now)[j]
      BY <2>6 DEF Ascending
    <3>1. CASE j = Len(all) + 1
      BY <2>6, <2>9, <3>1
    <3>2. CASE j # Len(all) + 1
      <4>1. i \in 1 .. Len(all) /\ j \in 1 .. Len(all)
        BY <1>2, <3>2
      <4> QED
        BY <1>2, <2>6, <4>1
    <3> QED
      BY <3>1, <3>2
  <2>11. \A t \in 0 .. MaxClock : Cardinality(Within(Append(all, now), t - Window, t)) <= MaxRequests
    <3>1. Cardinality(Within(all, now - Window, now)) < MaxRequests
      BY <1>6, <1>10 DEF UnderLimit, rest, kept
    <3>2. \A t \in 0 .. MaxClock : Cardinality(Within(all, t - Window, t)) <= MaxRequests
      BY <1>0 DEF HostInv, all
    <3> QED
      BY <1>1, <1>2, <3>1, <3>2, OneMoreWithin
  <2>12. HostInv(h)'
    BY <1>7, <2>4, <2>5, <2>6, <2>8, <2>9, <2>10, <2>11 DEF HostInv
  <2> QED
    BY <1>9, <2>3, <2>12 DEF GuardInv
<1>11. CASE ~UnderLimit(h) /\ MaxRequests > 0
  <2>1. windows' = [windows EXCEPT ![h] = rest] /\ limited' = limited
    <3>1. ~(MaxRequests <= 0)
      BY <1>1, <1>11
    <3>2. windows' = [windows EXCEPT ![h] = Recent(windows[h])]
      BY <1>1, <1>11, <3>1 DEF ChatRequest, Check
    <3>3. limited' = limited
      BY <1>11 DEF ChatRequest
    <3> QED
      BY <3>2, <3>3 DEF rest, kept
  <2>2. GuardTypeOK'
    BY <1>1, <1>4, <1>7, <2>1 DEF GuardTypeOK
  <2>3. windows'[h] = rest /\ limited'[h] = all
    BY <1>1, <2>1 DEF all
  <2>4. HostInv(h)'
    BY <1>0, <1>5, <1>7, <2>3 DEF HostInv, all
  <2> QED
    BY <1>9, <2>2, <2>4 DEF GuardInv
<1>12. CASE ~UnderLimit(h) /\ ~(MaxRequests > 0)
  <2>1. windows' = windows /\ limited' = limited
    BY <1>1, <1>12 DEF ChatRequest, Check
  <2>2. GuardTypeOK'
    BY <1>1, <1>7, <2>1 DEF GuardTypeOK
  <2>3. HostInv(h)'
    BY <1>0, <1>7, <2>1 DEF HostInv
  <2> QED
    BY <1>9, <2>2, <2>3 DEF GuardInv
<1> QED
  BY <1>10, <1>11, <1>12

LEMMA GuardStart == GuardInit => GuardInv
<1> SUFFICES ASSUME GuardInit PROVE GuardInv
  OBVIOUS
<1>1. Window \in Nat /\ MaxClock \in Nat /\ MaxRequests \in Nat
  BY GuardAssumption
<1>2. now = 0 /\ windows = [h \in Hosts |-> <<>>] /\ limited = [h \in Hosts |-> <<>>]
  BY DEF GuardInit
<1>3. GuardTypeOK
  BY <1>1, <1>2 DEF GuardTypeOK
<1>4. \A from, to : Within(<<>>, from, to) = {}
  BY DEF Within
<1>5. Cardinality({}) = 0
  BY FS_EmptySet
<1>6. ASSUME NEW h \in Hosts PROVE HostInv(h)
  <2>1. windows[h] = <<>> /\ limited[h] = <<>>
    BY <1>2
  <2>2. Len(<<>>) = 0 /\ 1 .. 0 = {} /\ 1 .. (0 - 0) = {} /\ 0 <= 0 /\ 0 <= MaxRequests
    BY <1>1
  <2>3. KeptIsEnd(<<>>, <<>>)
    BY <2>2 DEF KeptIsEnd
  <2>4. Ascending(<<>>)
    BY <2>2 DEF Ascending
  <2>5. \A t \in 0 .. MaxClock : Cardinality(Within(<<>>, t - Window, t)) <= MaxRequests
    BY <1>4, <1>5, <2>2, Zenon
  <2>6. \A i \in 1 .. (Len(<<>>) - Len(<<>>)) : <<>>[i] < now - Window
    BY <2>2
  <2>7. \A i \in 1 .. Len(<<>>) : <<>>[i] <= now
    BY <2>2
  <2> QED
    BY <2>1, <2>3, <2>4, <2>5, <2>6, <2>7, Zenon DEF HostInv
<1> QED
  BY <1>3, <1>6 DEF GuardInv

LEMMA GuardStep == GuardInv /\ [GuardNext]_guardVars => GuardInv'
<1> SUFFICES ASSUME GuardInv, [GuardNext]_guardVars PROVE GuardInv'
  OBVIOUS
<1>1. CASE UNCHANGED guardVars
  BY <1>1 DEF guardVars, GuardInv, GuardTypeOK, HostInv
<1> QED
  BY <1>1, TickHolds, HostsCleanupHolds, ChatRequestHolds DEF GuardNext

LEMMA GuardHolds == GuardInv => WindowIsExact
<1> SUFFICES ASSUME GuardInv, NEW h \in Hosts
             PROVE  /\ \A t \in 0..MaxClock : Cardinality(LetThrough(h, t - Window, t)) <= MaxRequests
                    /\ UnderLimit(h) <=> Cardinality(LetThrough(h, now - Window, now)) < MaxRequests
                    /\ h \notin LocalHosts => limited[h] = <<>> /\ windows[h] = <<>>
  BY DEF WindowIsExact
<1>1. GuardTypeOK /\ HostInv(h)
  BY DEF GuardInv
<1>2. \A from, to : LetThrough(h, from, to) = Within(limited[h], from, to)
  BY DEF LetThrough, Within
<1>3. Cardinality(LetThrough(h, now - Window, now)) = Len(Recent(windows[h]))
  BY <1>1, <1>2, WindowCounts
<1>4. Len(Recent(windows[h])) \in Nat /\ MaxRequests \in Nat
  <2>1. IsFiniteSet(Within(limited[h], now - Window, now))
    <3>1. Len(limited[h]) \in Nat /\ Within(limited[h], now - Window, now) \in SUBSET (1 .. Len(limited[h]))
      BY <1>1, LenProperties DEF Within, GuardTypeOK
    <3> QED
      BY <3>1, RanksNumber
  <2> QED
    BY <1>2, <1>3, <2>1, FS_CardinalityType, GuardAssumption
<1>5. UnderLimit(h) <=> Cardinality(LetThrough(h, now - Window, now)) < MaxRequests
  BY <1>3, <1>4 DEF UnderLimit
<1> QED
  BY <1>1, <1>2, <1>5 DEF HostInv

(***************************************************************************)
(* The limit of chats is exact, for any hosts, window and limit, however   *)
(* long the server runs.                                                   *)
(***************************************************************************)
THEOREM WindowStaysExact == GuardSpec => [](GuardTypeOK /\ WindowIsExact)
<1>1. GuardInv => GuardTypeOK
  BY DEF GuardInv
<1> QED
  BY <1>1, GuardStart, GuardStep, GuardHolds, PTL DEF GuardSpec
=============================================================================
