----------------------------- MODULE StoreSync -----------------------------
(***************************************************************************)
(* SyncEngine: events of two stores copied to each other with one cursor.  *)
(* pull() reads a page of the remote store, appends it event by event to   *)
(* the local one and moves the cursor to the last row read; push() does    *)
(* the same the other way round, with the same cursor, which the HTTP form *)
(* leaves to the server (push_sync_events).  append() numbers anew, so     *)
(* nothing tells a copy from an event of its own.  An event is named after *)
(* the store it was made in and the row it got there; a row is its place.  *)
(***************************************************************************)
EXTENDS Integers, Sequences, SequencesExt, FiniteSetsExt

CONSTANTS
  SyncPage,    \* the limit of scan_events_global
  MaxMade,     \* bound of the model: events made in a store
  MaxRows,     \* bound of the model: rows of a store
  MaxPasses    \* bound of the model: passes of the engine

ASSUME StoreSyncAssumption == {SyncPage, MaxMade, MaxRows, MaxPasses} \subseteq Nat /\ SyncPage > 0

Stores == {"local", "remote"}
Other(s) == IF s = "local" THEN "remote" ELSE "local"

VARIABLES
  rows,       \* [Stores -> the events in the order of their ids]
  cursor,     \* last_sync_seq
  from,       \* the store the running pass reads, or "none"
  page,       \* what is left of its page
  reached,    \* max_id of the page
  dropped,    \* [Stores -> events of a page whose append there failed]
  passes,     \* the stores read by the passes so far
  repeated    \* a pass was cut short or the cursor was set back

syncVars == <<rows, cursor, from, page, reached, dropped, passes, repeated>>

Events == [store : Stores, n : 1..MaxRows]

SyncInit ==
  /\ rows = [s \in Stores |-> <<>>] /\ cursor = 0
  /\ from = "none" /\ page = <<>> /\ reached = 0
  /\ dropped = [s \in Stores |-> {}] /\ passes = <<>> /\ repeated = FALSE

SyncTypeOK ==
  /\ \A s \in Stores : Range(rows[s]) \subseteq Events /\ dropped[s] \subseteq Events
  /\ cursor \in 0..MaxRows /\ reached \in 0..MaxRows
  /\ from \in Stores \cup {"none"} /\ Range(page) \subseteq Events /\ Len(page) <= SyncPage
  /\ Range(passes) \subseteq Stores /\ repeated \in BOOLEAN
-----------------------------------------------------------------------------
\* Somebody else appends an event of its own to a store.
MakeEvent(s) ==
  LET made == {e \in Range(rows[s]) : e.store = s} IN
  /\ Len(rows[s]) < MaxRows /\ Cardinality(made) < MaxMade
  /\ rows' = [rows EXCEPT ![s] = Append(@, [store |-> s, n |-> Len(rows[s]) + 1])]
  /\ UNCHANGED <<cursor, from, page, reached, dropped, passes, repeated>>

\* pull() reads the remote store, push() the local one; an empty page ends it.
ScanPage(s) ==
  /\ from = "none" /\ Len(passes) < MaxPasses
  /\ LET last == Min({cursor + SyncPage, Len(rows[s])}) IN
       /\ cursor < last
       /\ page' = SubSeq(rows[s], cursor + 1, last) /\ reached' = last
  /\ from' = s /\ passes' = Append(passes, s)
  /\ UNCHANGED <<rows, cursor, dropped, repeated>>

\* append() of the next event to the other store; an error is swallowed.
ApplyEvent ==
  /\ from # "none" /\ page # <<>>
  /\ LET into == Other(from) IN
     \/ /\ Len(rows[into]) < MaxRows
        /\ rows' = [rows EXCEPT ![into] = Append(@, Head(page))]
        /\ UNCHANGED dropped
     \/ dropped' = [dropped EXCEPT ![into] = @ \cup {Head(page)}] /\ UNCHANGED rows
  /\ page' = Tail(page)
  /\ UNCHANGED <<cursor, from, reached, passes, repeated>>

EndPass ==
  /\ from # "none" /\ page = <<>>
  /\ cursor' = reached /\ from' = "none"
  /\ UNCHANGED <<rows, page, reached, dropped, passes, repeated>>

\* The pass is cancelled, or the answer of the server does not arrive.
CutPass ==
  /\ from # "none"
  /\ from' = "none" /\ page' = <<>> /\ repeated' = TRUE
  /\ UNCHANGED <<rows, cursor, reached, dropped, passes>>

\* reset_sync(), set_sync_seq(), and the restart: the cursor is in memory only.
ResetSync ==
  /\ from = "none"
  /\ cursor' \in 0..(cursor - 1) /\ repeated' = TRUE
  /\ UNCHANGED <<rows, from, page, reached, dropped, passes>>

SyncNext ==
  \/ \E s \in Stores : MakeEvent(s) \/ ScanPage(s)
  \/ ApplyEvent \/ EndPass \/ CutPass \/ ResetSync

SyncSpec == SyncInit /\ [][SyncNext]_syncVars
-----------------------------------------------------------------------------
(***************************************************************************)
(* As long as the engine works in one direction, is not cut short and not  *)
(* reset: every event behind the cursor is in the other store exactly once *)
(* unless its append failed, and the copies are in the order of the        *)
(* originals.                                                              *)
(***************************************************************************)
OneWayCopies ==
  \A s \in Stores :
    Range(passes) \subseteq {s} /\ ~repeated =>
      LET copies == rows[Other(s)] IN
      /\ \A k \in 1..cursor : rows[s][k] \in dropped[Other(s)] \cup Range(copies)
      /\ \A j, k \in DOMAIN copies :
           j < k /\ copies[j].store = s /\ copies[k].store = s => copies[j].n < copies[k].n
=============================================================================
