----------------------------- MODULE EventStore -----------------------------
(***************************************************************************)
(* storage/event_store.py on the one aiosqlite connection of storage/db.py.*)
(* Every await of append() hands one statement to the thread of the        *)
(* connection, so an action is one statement and the statements of         *)
(* different calls interleave.  All of them belong to the one transaction  *)
(* that is open on the connection: what a statement changes is seen by     *)
(* every reader at once (rows, counter), is kept by whoever commits next   *)
(* (savedRows, savedCounter) and undone by whoever rolls back next.        *)
(*                                                                         *)
(*   idle -> enter -> base -> insert ... -> commit -> notify -> done       *)
(*                \-> failed   \-> rollback -> failed                      *)
(***************************************************************************)
EXTENDS FifoPermits, Integers

CONSTANTS
  Appends,      \* calls of append()
  Aggregates,
  MaxBatch,     \* most events one call appends
  ReadLimit,    \* the default limit of read(), 1000 in the code
  NoAggregate,
  Faults        \* what may happen besides the calls themselves

\* A call is cancelled or one of its statements raises; other users of the
\* connection commit; they roll back; the server process dies.
FaultKinds == {"error", "commit", "rollback", "crash"}

ASSUME StoreAssumption ==
  /\ MaxBatch \in Nat \ {0}
  /\ ReadLimit \in Nat \ {0}
  /\ NoAggregate \notin Aggregates
  /\ Faults \subseteq FaultKinds

VARIABLES
  pc,           \* where each call is suspended
  agg,          \* its aggregate
  size,         \* how many events it appends
  base,         \* base_seq
  written,      \* how many of its events are inserted
  lock,         \* _append_locks
  counter,      \* event_sequences on the connection, 0 where there is no row
  rows,         \* events on the connection: <<seq, the call that wrote it>>
  savedCounter, \* the same as last committed
  savedRows,
  cursor,       \* after_seq of the subscriber of each aggregate, who comes back
                \* with it when the server was down
  delivered     \* the rows that subscriber was given

callVars == <<agg, size, base, written>>
feedVars == <<cursor, delivered>>
vars == <<pc, callVars, lock, counter, rows, savedCounter, savedRows, feedVars>>

Places == {"idle", "enter", "base", "insert", "commit", "notify", "rollback",
           "done", "failed", "lost"}

Row == Int \X Appends

TypeOK ==
  /\ pc           \in [Appends -> Places]
  /\ agg          \in [Appends -> Aggregates \cup {NoAggregate}]
  /\ size         \in [Appends -> 0 .. MaxBatch]
  /\ base         \in [Appends -> Int]
  /\ written      \in [Appends -> 0 .. MaxBatch]
  /\ lock         \in [Aggregates -> PermitPool(Appends)]
  /\ counter      \in [Aggregates -> Nat]
  /\ rows         \in [Aggregates -> SUBSET Row]
  /\ savedCounter \in [Aggregates -> Nat]
  /\ savedRows    \in [Aggregates -> SUBSET Row]
  /\ cursor       \in [Aggregates -> Int]
  /\ delivered    \in [Aggregates -> SUBSET Row]

Init ==
  /\ pc           = [w \in Appends |-> "idle"]
  /\ agg          = [w \in Appends |-> NoAggregate]
  /\ size         = [w \in Appends |-> 0]
  /\ base         = [w \in Appends |-> 0]
  /\ written      = [w \in Appends |-> 0]
  /\ lock         = [a \in Aggregates |-> AllFree]
  /\ counter      = [a \in Aggregates |-> 0]
  /\ rows         = [a \in Aggregates |-> {}]
  /\ savedCounter = counter
  /\ savedRows    = rows
  /\ cursor       = [a \in Aggregates |-> 0]
  /\ delivered    = [a \in Aggregates |-> {}]
-----------------------------------------------------------------------------
Seqs(table) == {r[1] : r \in table}

Goto(w, place) == pc' = [pc EXCEPT ![w] = place]

\* Mutant of Unlock: the lock of the aggregate is never given back.
UnlockNever(w) == lock' = lock

Unlock(w) == lock' = [lock EXCEPT ![agg[w]] = Leave(@, w)]

\* The transaction of the connection ends one way or the other.
CommitAll ==
  /\ savedCounter' = counter
  /\ savedRows' = rows
  /\ UNCHANGED <<counter, rows>>

RollBackAll ==
  /\ counter' = savedCounter
  /\ rows' = savedRows
  /\ UNCHANGED <<savedCounter, savedRows>>

\* append() is called and gets in line for the lock of its aggregate.
Start(w, a, n) ==
  /\ pc[w] = "idle"
  /\ Goto(w, "enter")
  /\ agg' = [agg EXCEPT ![w] = a]
  /\ size' = [size EXCEPT ![w] = n]
  /\ lock' = [lock EXCEPT ![a] = Join(@, w, 1)]
  /\ UNCHANGED <<base, written, counter, rows, savedCounter, savedRows, feedVars>>

\* Mutant of Count: without the lock of the aggregate.
CountUnlocked(w) ==
  /\ pc[w] = "enter"
  /\ Goto(w, "base")
  /\ counter' = [counter EXCEPT ![agg[w]] = @ + size[w]]
  /\ UNCHANGED <<callVars, lock, rows, savedCounter, savedRows, feedVars>>

\* UPDATE event_sequences, or INSERT when the aggregate has no row yet: no
\* row appears or disappears between the two, as only the holder of the lock
\* inserts it and no rollback can take away a row the UPDATE did not find.
Count(w) ==
  /\ pc[w] = "enter"
  /\ w \in lock[agg[w]].holders
  /\ Goto(w, "base")
  /\ counter' = [counter EXCEPT ![agg[w]] = @ + size[w]]
  /\ UNCHANGED <<callVars, lock, rows, savedCounter, savedRows, feedVars>>

\* Mutant of SelectBase: the counter itself is the base.
SelectCounter(w) ==
  /\ pc[w] = "base"
  /\ Goto(w, "insert")
  /\ base' = [base EXCEPT ![w] = counter[agg[w]]]
  /\ UNCHANGED <<agg, size, written, lock, counter, rows, savedCounter, savedRows,
                 feedVars>>

\* SELECT seq: a row that was rolled back meanwhile counts as base 0.
SelectBase(w) ==
  /\ pc[w] = "base"
  /\ Goto(w, "insert")
  /\ base' = [base EXCEPT ![w] =
                IF counter[agg[w]] = 0 THEN 0 ELSE counter[agg[w]] - size[w]]
  /\ UNCHANGED <<agg, size, written, lock, counter, rows, savedCounter, savedRows,
                 feedVars>>

\* Mutant of LastOne: one event too many.
LastPassed(w) == written[w] = size[w]

\* The next event of the batch is its last one.
LastOne(w) == written[w] + 1 = size[w]

\* INSERT INTO events: UNIQUE(aggregate_id, seq) refuses a number that is taken.
Insert(w) ==
  LET q == base[w] + written[w] + 1 IN
  /\ pc[w] = "insert"
  /\ \/ /\ q \notin Seqs(rows[agg[w]])
        /\ rows' = [rows EXCEPT ![agg[w]] = @ \cup {<<q, w>>}]
        /\ written' = [written EXCEPT ![w] = @ + 1]
        /\ Goto(w, IF LastOne(w) THEN "commit" ELSE "insert")
     \/ /\ q \in Seqs(rows[agg[w]])
        /\ Goto(w, "rollback")
        /\ UNCHANGED <<rows, written>>
  /\ UNCHANGED <<agg, size, base, lock, counter, savedCounter, savedRows, feedVars>>

\* Mutant of Commit: the call returns without it.
CommitForgotten(w) ==
  /\ pc[w] = "commit"
  /\ Goto(w, "notify")
  /\ UNCHANGED <<callVars, lock, counter, rows, savedCounter, savedRows, feedVars>>

Commit(w) ==
  /\ pc[w] = "commit"
  /\ CommitAll
  /\ Goto(w, "notify")
  /\ UNCHANGED <<callVars, lock, feedVars>>

\* _notify() and the return: the subscribers' poll is Poll below.
Return(w) ==
  /\ pc[w] = "notify"
  /\ Goto(w, "done")
  /\ Unlock(w)
  /\ UNCHANGED <<callVars, counter, rows, savedCounter, savedRows, feedVars>>

\* A statement raises or the task is cancelled at one; a cancelled statement
\* was already handed to the thread and still runs.
Raise(w) ==
  /\ "error" \in Faults
  /\ pc[w] \in {"base", "insert", "commit", "notify"}
  /\ Goto(w, "rollback")
  /\ UNCHANGED <<callVars, lock, counter, rows, savedCounter, savedRows, feedVars>>

\* except BaseException: the rollback of the connection, then the raise.
Rollback(w) ==
  /\ pc[w] = "rollback"
  /\ RollBackAll
  /\ Goto(w, "failed")
  /\ Unlock(w)
  /\ UNCHANGED <<callVars, feedVars>>

\* The task is cancelled while it waits for the lock.
LeaveLine(w) ==
  /\ "error" \in Faults
  /\ pc[w] = "enter"
  /\ Goto(w, "failed")
  /\ Unlock(w)
  /\ UNCHANGED <<callVars, counter, rows, savedCounter, savedRows, feedVars>>

\* The other users of the connection: the projector, the session table,
\* the saved permissions, Database.execute().
OtherCommit ==
  /\ "commit" \in Faults
  /\ CommitAll
  /\ UNCHANGED <<pc, callVars, lock, feedVars>>

OtherRollback ==
  /\ "rollback" \in Faults
  /\ RollBackAll
  /\ UNCHANGED <<pc, callVars, lock, feedVars>>

\* The server dies and starts again on the committed tables.
Crash ==
  /\ "crash" \in Faults
  /\ RollBackAll
  /\ pc' = [w \in Appends |-> IF pc[w] \in {"idle", "done", "failed"} THEN pc[w] ELSE "lost"]
  /\ lock' = [a \in Aggregates |-> AllFree]
  /\ UNCHANGED <<callVars, feedVars>>

\* Mutants of Page: the latest rows instead of the first ones, and a cursor
\* that skips a row.
PageLatest(a) ==
  LET new == {r \in rows[a] : r[1] > cursor[a]}
  IN  {r \in new : Cardinality({x \in new : x[1] >= r[1]}) <= ReadLimit}
PagePast(a) ==
  LET new == {r \in rows[a] : r[1] > cursor[a] + 1}
  IN  {r \in new : Cardinality({x \in new : x[1] <= r[1]}) <= ReadLimit}

\* The rows read(a, after_seq) returns: the first ReadLimit ones.
Page(a) ==
  LET new == {r \in rows[a] : r[1] > cursor[a]}
  IN  {r \in new : Cardinality({x \in new : x[1] <= r[1]}) <= ReadLimit}

\* One round of subscribe(): a notification or the five seconds of wait_for
\* start it, and what was read is handed over in order.
Poll(a) ==
  /\ delivered' = [delivered EXCEPT ![a] = @ \cup Page(a)]
  /\ \E last \in Seqs(Page(a)) :
       /\ \A q \in Seqs(Page(a)) : q <= last
       /\ cursor' = [cursor EXCEPT ![a] = last]
  /\ UNCHANGED <<pc, callVars, lock, counter, rows, savedCounter, savedRows>>

AppendStep(w) ==
  Count(w) \/ SelectBase(w) \/ Insert(w) \/ Commit(w) \/ Return(w) \/ Rollback(w)

Next ==
  \/ \E w \in Appends, a \in Aggregates, n \in 1 .. MaxBatch : Start(w, a, n)
  \/ \E w \in Appends : AppendStep(w) \/ Raise(w) \/ LeaveLine(w)
  \/ OtherCommit \/ OtherRollback \/ Crash
  \/ \E a \in Aggregates : Poll(a)

Spec == Init /\ [][Next]_vars

\* The event loop and the thread of the connection make progress, and a
\* subscriber that was not notified polls again after five seconds.
FairSpec ==
  /\ Spec
  /\ \A w \in Appends : WF_vars(AppendStep(w))
  /\ \A a \in Aggregates : WF_vars(Poll(a))
-----------------------------------------------------------------------------
(***************************************************************************)
(* What the store is for.                                                  *)
(***************************************************************************)

\* The call has the lock of its aggregate and has issued its first statement.
Writing(w) == pc[w] \in {"base", "insert", "commit", "notify", "rollback"}

\* The events of the call are all in table.
AllIn(w, table) == \A i \in 1 .. size[w] : <<base[w] + i, w>> \in table[agg[w]]

\* Appends to one aggregate exclude each other, whatever fails or restarts.
OneWriter ==
  \A v, w \in Appends : Writing(v) /\ Writing(w) /\ agg[v] = agg[w] => v = w

\* An append that returned keeps its events, across later appends, commits of
\* others and crashes.  It holds as long as nothing on the connection is
\* rolled back.
Durable == \A w \in Appends : pc[w] = "done" => AllIn(w, savedRows)

\* The events of an aggregate are numbered 1, 2, 3... without a gap.  It holds
\* as long as no statement fails and the server does not die.
Contiguous ==
  \A a \in Aggregates : Seqs(rows[a]) = 1 .. Cardinality(rows[a])

\* Between two appends the counter is the number of the last event, so the
\* next append neither collides nor leaves a gap.
CounterIsLast ==
  \A a \in Aggregates :
    (\A w \in Appends : agg[w] = a => ~Writing(w)) => counter[a] = Cardinality(rows[a])

\* A subscriber has been given exactly the events up to its cursor, although
\* it reads while an append is under way and a page at a time.
FeedComplete ==
  \A a \in Aggregates : delivered[a] = {r \in rows[a] : r[1] <= cursor[a]}

\* The same events as a log that only grows, one batch after the other.
LogOf(table) ==
  [i \in 1 .. Cardinality(table) |-> CHOOSE w \in Appends : <<i, w>> \in table]

LogOfRows == [a \in Aggregates |-> LogOf(rows[a])]

Log == INSTANCE EventLog WITH Writers <- Appends, log <- LogOfRows

ImplementsEventLog == Log!Spec

\* Every append comes back unless the server died under it.
EveryAppendReturns ==
  \A w \in Appends : pc[w] = "enter" ~> pc[w] \in {"done", "failed", "lost"}

\* The subscriber was given a row that a crash took back, with this number or a
\* later one: its cursor, which it keeps, is past the number for good.
PassedByLostRow(a, q) == \E r \in delivered[a] \ rows[a] : r[1] >= q

\* Every event of a committed append is given to the subscriber of its
\* aggregate, even when the notification came before it listened, unless the
\* subscriber is past the number because of a row that never was committed.
EventsReachSubscriber ==
  \A w \in Appends, i \in 1 .. MaxBatch :
    pc[w] = "notify" /\ i <= size[w] ~>
      /\ agg[w] \in Aggregates
      /\ \/ <<base[w] + i, w>> \in delivered[agg[w]]
         \/ PassedByLostRow(agg[w], base[w] + i)
=============================================================================
