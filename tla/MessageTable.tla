---------------------------- MODULE MessageTable ----------------------------
(***************************************************************************)
(* The messages table of one session, a projection of its events           *)
(* (server/projector.py).  _project_events appends events to the store and *)
(* then projects them one by one, an INSERT and a commit for each; a       *)
(* BatchProjector deletes the rows of the session, reads the events and    *)
(* projects them again.  All of them share one connection, so a commit of  *)
(* one stores the statements of the others, and what is not committed is   *)
(* gone after a crash.                                                     *)
(***************************************************************************)
EXTENDS Integers, Sequences, SequencesExt, FiniteSets

CONSTANTS
  Projections,     \* calls of _project_events
  TableReadLimit,  \* the limit of EventStore.read
  MaxLogged,       \* bound of the model: events of the session
  MaxRebuilds      \* bound of the model: calls of rebuild()

ASSUME MessageTableAssumption == {TableReadLimit, MaxLogged, MaxRebuilds} \subseteq Nat

VARIABLES
  logged,      \* the kind of each event: on_event adds a row, or returns at once
  tableRows,   \* the event_seq of the rows, as the connection sees them
  rowsOnDisk,  \* the rows that are committed
  projecting,  \* [Projections -> the events it has not projected yet]
  inserted,    \* [Projections -> it has not committed its last row yet]
  rebuilding,  \* where rebuild() is
  rebuildLeft, \* the events it has not projected yet
  rebuilds,
  missed,      \* events that nobody is going to project
  mixedUp      \* a rebuild and a projection were under way at the same time

tableVars == <<logged, tableRows, rowsOnDisk, projecting, inserted, rebuilding, rebuildLeft,
               rebuilds, missed, mixedUp>>

Kinds == {"message", "empty"}

TableInit ==
  /\ logged = <<>> /\ tableRows = <<>> /\ rowsOnDisk = <<>>
  /\ projecting = [p \in Projections |-> <<>>] /\ inserted = [p \in Projections |-> FALSE]
  /\ rebuilding = "no" /\ rebuildLeft = <<>> /\ rebuilds = 0
  /\ missed = {} /\ mixedUp = FALSE

TableTypeOK ==
  /\ logged \in Seq(Kinds) /\ Len(logged) <= MaxLogged
  /\ Range(tableRows \o rowsOnDisk \o rebuildLeft) \subseteq 1..MaxLogged
  /\ \A p \in Projections : Range(projecting[p]) \subseteq DOMAIN logged
  /\ inserted \in [Projections -> BOOLEAN]
  /\ rebuilding \in {"no", "deleted", "projecting", "inserted"} /\ rebuilds \in 0..MaxRebuilds
  /\ missed \subseteq 1..MaxLogged /\ mixedUp \in BOOLEAN
-----------------------------------------------------------------------------
\* What is left of a call of on_event when its event is n.
Projects(n) == logged[n] = "message"

Busy == {p \in Projections : projecting[p] # <<>> \/ inserted[p]}

\* append() of one or two events, which are committed with it.
AppendAndProject(p) ==
  /\ p \notin Busy
  /\ \E kinds \in UNION {[1..n -> Kinds] : n \in 1..2} :
       /\ Len(logged) + Len(kinds) <= MaxLogged
       /\ logged' = logged \o kinds
       /\ projecting' = [projecting EXCEPT ![p] = [i \in 1..Len(kinds) |-> Len(logged) + i]]
  /\ rowsOnDisk' = tableRows
  /\ mixedUp' = (mixedUp \/ rebuilding # "no")
  /\ UNCHANGED <<tableRows, inserted, rebuilding, rebuildLeft, rebuilds, missed>>

\* on_event up to its commit; for an event without a message it returns.
InsertRow(p) ==
  /\ projecting[p] # <<>> /\ ~inserted[p]
  /\ LET n == Head(projecting[p]) IN
       /\ projecting' = [projecting EXCEPT ![p] = Tail(@)]
       /\ tableRows' = IF Projects(n) THEN Append(tableRows, n) ELSE tableRows
       /\ inserted' = [inserted EXCEPT ![p] = Projects(n)]
  /\ UNCHANGED <<logged, rowsOnDisk, rebuilding, rebuildLeft, rebuilds, missed, mixedUp>>

CommitRow(p) ==
  /\ inserted[p]
  /\ inserted' = [inserted EXCEPT ![p] = FALSE] /\ rowsOnDisk' = tableRows
  /\ UNCHANGED <<logged, tableRows, projecting, rebuilding, rebuildLeft, rebuilds, missed, mixedUp>>

\* An error, or the task of the chat is cancelled: the rest is not projected,
\* a row that was inserted waits for the commit of somebody else.
ProjectionFails(p) ==
  /\ projecting[p] # <<>>
  /\ missed' = missed \cup Range(projecting[p])
  /\ projecting' = [projecting EXCEPT ![p] = <<>>] /\ inserted' = [inserted EXCEPT ![p] = FALSE]
  /\ UNCHANGED <<logged, tableRows, rowsOnDisk, rebuilding, rebuildLeft, rebuilds, mixedUp>>
-----------------------------------------------------------------------------
\* rebuild(): DELETE, without a commit of its own.
DeleteRows ==
  /\ rebuilding = "no" /\ rebuilds < MaxRebuilds
  /\ rebuilding' = "deleted" /\ rebuilds' = rebuilds + 1
  /\ tableRows' = <<>>
  /\ mixedUp' = (mixedUp \/ Busy # {})
  /\ UNCHANGED <<logged, rowsOnDisk, projecting, inserted, rebuildLeft, missed>>

\* The events are read, at most TableReadLimit.
ReadForRebuild ==
  /\ rebuilding = "deleted" /\ rebuilding' = "projecting"
  /\ LET n == IF Len(logged) < TableReadLimit THEN Len(logged) ELSE TableReadLimit IN
       /\ rebuildLeft' = [i \in 1..n |-> i]
       /\ missed' = (n + 1)..Len(logged)
  /\ UNCHANGED <<logged, tableRows, rowsOnDisk, projecting, inserted, rebuilds, mixedUp>>

RebuildRow ==
  /\ rebuilding = "projecting"
  /\ IF rebuildLeft = <<>>
       THEN rebuilding' = "no" /\ UNCHANGED <<tableRows, rebuildLeft>>
       ELSE LET n == Head(rebuildLeft) IN
            /\ rebuildLeft' = Tail(rebuildLeft)
            /\ tableRows' = IF Projects(n) THEN Append(tableRows, n) ELSE tableRows
            /\ rebuilding' = IF Projects(n) THEN "inserted" ELSE "projecting"
  /\ UNCHANGED <<logged, rowsOnDisk, projecting, inserted, rebuilds, missed, mixedUp>>

CommitRebuilt ==
  /\ rebuilding = "inserted" /\ rebuilding' = "projecting" /\ rowsOnDisk' = tableRows
  /\ UNCHANGED <<logged, tableRows, projecting, inserted, rebuildLeft, rebuilds, missed, mixedUp>>

\* The server stops; what was not committed is gone, and nobody projects it.
TableCrash ==
  /\ tableRows' = rowsOnDisk
  /\ missed' = {n \in DOMAIN logged : n \notin Range(rowsOnDisk)}
  /\ projecting' = [p \in Projections |-> <<>>] /\ inserted' = [p \in Projections |-> FALSE]
  /\ rebuilding' = "no" /\ rebuildLeft' = <<>>
  /\ UNCHANGED <<logged, rowsOnDisk, rebuilds, mixedUp>>

TableNext ==
  \/ \E p \in Projections : AppendAndProject(p) \/ InsertRow(p) \/ CommitRow(p) \/ ProjectionFails(p)
  \/ DeleteRows \/ ReadForRebuild \/ RebuildRow \/ CommitRebuilt \/ TableCrash

TableSpec == TableInit /\ [][TableNext]_tableVars
-----------------------------------------------------------------------------
Owed == missed \cup Range(rebuildLeft) \cup UNION {Range(projecting[p]) : p \in Projections}

(***************************************************************************)
(* Outside a rebuild every message of the log has exactly one row, unless  *)
(* its projection is still to come, was cut off, or went down in a crash;  *)
(* as long as no rebuild and no projection overlap.  What is on disk is    *)
(* part of it: a row is never stored twice, nor a row of no message.       *)
(***************************************************************************)
TableFollowsLog ==
  /\ ~mixedUp /\ rebuilding \notin {"deleted"} =>
       \A n \in DOMAIN logged :
         Cardinality({k \in DOMAIN tableRows : tableRows[k] = n}) =
           IF Projects(n) /\ n \notin Owed THEN 1 ELSE 0
  /\ ~mixedUp => IsInjective(rowsOnDisk) /\ \A n \in Range(rowsOnDisk) : Projects(n)
=============================================================================
