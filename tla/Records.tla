------------------------------ MODULE Records ------------------------------
(***************************************************************************)
(* The rows that requests create, read and change by their id: workspaces  *)
(* (core/workspace.py), credentials (core/credential.py), shares           *)
(* (core/sharing.py), the audit and error logs (server/audit_log.py) and   *)
(* the verification of tasks (core/tracker.py), all through the one        *)
(* connection of Database (storage/db.py).  execute() is a statement and a *)
(* commit, with an await between them; the statements of shares that       *)
(* return a row go through fetchone(), which does not commit.              *)
(*                                                                         *)
(* A row has a label and a value that an update can change, and the        *)
(* previous value of a rotation.                                           *)
(***************************************************************************)
EXTENDS Integers, FiniteSets

CONSTANTS
  RecordIds,     \* ids, each given out once (uuid4)
  RecordCalls,   \* requests
  RecordValues   \* what a field can hold

NoRecord == [label |-> "absent", value |-> "absent", previous |-> "absent"]
NoValue  == "none"
Records  == [label : RecordValues, value : RecordValues, previous : RecordValues \cup {NoValue}]
NoOne    == "no one"

VARIABLES
  records,     \* [RecordIds -> row], as the connection sees them
  recordsDisk, \* the committed ones
  issued,      \* the ids that have been given out
  recCall,     \* [RecordCalls -> [op, id, at]]
  recRead,     \* [RecordCalls -> the row that it has read]
  changedBy,   \* [RecordIds -> the call that changed the row last]
  removed      \* ids the deletion of which is stored

recordVars == <<records, recordsDisk, issued, recCall, recRead, changedBy, removed>>

Stages == {"new", "reading", "writing", "written", "returned", "failed"}
Ops    == {"create", "put", "update", "rotate", "delete"}

RecordInit ==
  /\ records = [i \in RecordIds |-> NoRecord] /\ recordsDisk = records
  /\ issued = {} /\ removed = {}
  /\ recCall = [c \in RecordCalls |-> [op |-> "none", id |-> NoOne, at |-> "new"]]
  /\ recRead = [c \in RecordCalls |-> NoRecord]
  /\ changedBy = [i \in RecordIds |-> NoOne]

RecordTypeOK ==
  /\ {records, recordsDisk} \subseteq [RecordIds -> Records \cup {NoRecord}]
  /\ issued \cup removed \subseteq RecordIds
  /\ recCall \in [RecordCalls -> [op : Ops \cup {"none"}, id : RecordIds \cup {NoOne}, at : Stages]]
  /\ recRead \in [RecordCalls -> Records \cup {NoRecord}]
  /\ changedBy \in [RecordIds -> RecordCalls \cup {NoOne}]
-----------------------------------------------------------------------------
Goes(c, at) == recCall' = [recCall EXCEPT ![c].at = at]

\* A request arrives.  create() needs no row; an INSERT OR REPLACE of the
\* tracker needs none either; the others read the row first.
Arrives(c, i, op) ==
  /\ recCall[c].at = "new"
  /\ op = "create" <=> i \notin issued
  /\ recCall' = [recCall EXCEPT ![c] =
       [op |-> op, id |-> i, at |-> IF op \in {"create", "put"} THEN "writing" ELSE "reading"]]
  /\ issued' = issued \cup {i}
  /\ UNCHANGED <<records, recordsDisk, recRead, changedBy, removed>>

\* get(); a missing row is reported.
ReadRecord(c) ==
  LET i == recCall[c].id IN
  /\ recCall[c].at = "reading"
  /\ recRead' = [recRead EXCEPT ![c] = records[i]]
  /\ Goes(c, IF records[i] = NoRecord THEN "failed" ELSE "writing")
  /\ UNCHANGED <<records, recordsDisk, issued, changedBy, removed>>

\* An INSERT, and the INSERT OR REPLACE of the tracker.
NewRow(v) == [label |-> v, value |-> v, previous |-> NoValue]

\* The fields that the request leaves out are written as they were read.
UpdatedRows(row, read, v) ==
  {[label |-> new.label, value |-> new.value, previous |-> row.previous] :
     new \in {[read EXCEPT !.label = v], [read EXCEPT !.value = v], [read EXCEPT !.label = v, !.value = v]}}

\* A value that the call has read as the present one raises.
RotatedRows(row, read, v) ==
  IF v = read.value THEN {} ELSE {[row EXCEPT !.value = v, !.previous = read.value]}

\* What the statement makes of the row, given what the call has read; an UPDATE
\* of a row that is gone changes nothing.
Statement(c, row, v) ==
  CASE recCall[c].op \in {"create", "put"} -> {NewRow(v)}
    [] recCall[c].op = "delete" -> {NoRecord}
    [] recCall[c].op = "update" -> IF row = NoRecord THEN {NoRecord} ELSE UpdatedRows(row, recRead[c], v)
    [] recCall[c].op = "rotate" -> IF row = NoRecord THEN {NoRecord} ELSE RotatedRows(row, recRead[c], v)

\* Mutant of Writes: a row that is gone is inserted again.
WritesOrInserts(c) ==
  LET i == recCall[c].id IN
  /\ recCall[c].at = "writing"
  /\ \E v \in RecordValues :
       LET row == IF records[i] = NoRecord THEN recRead[c] ELSE records[i] IN
       \E new \in Statement(c, row, v) : records' = [records EXCEPT ![i] = new]
  /\ changedBy' = [changedBy EXCEPT ![i] = IF records'[i] # records[i] THEN c ELSE @]
  /\ Goes(c, "written")
  /\ UNCHANGED <<recordsDisk, issued, recRead, removed>>

\* The statement of execute().
Writes(c) ==
  LET i == recCall[c].id IN
  /\ recCall[c].at = "writing"
  /\ \E v \in RecordValues : \E new \in Statement(c, records[i], v) :
       records' = [records EXCEPT ![i] = new]
  /\ changedBy' = [changedBy EXCEPT ![i] = IF records'[i] # records[i] THEN c ELSE @]
  /\ Goes(c, "written")
  /\ UNCHANGED <<recordsDisk, issued, recRead, removed>>

\* The commit of execute(), which stores whatever has been written.
Commits(c) ==
  /\ recCall[c].at = "written"
  /\ recordsDisk' = records
  /\ Goes(c, "returned")
  /\ removed' = IF recCall[c].op = "delete" /\ records[recCall[c].id] = NoRecord
                  THEN removed \cup {recCall[c].id} ELSE removed
  /\ UNCHANGED <<records, issued, recRead, changedBy>>

\* The commit raises or the request is cancelled in it: a rollback of
\* everything that is not committed.
RollsBack(c) ==
  /\ recCall[c].at = "written"
  /\ records' = recordsDisk
  /\ changedBy' = [i \in RecordIds |-> IF records[i] = recordsDisk[i] THEN changedBy[i] ELSE NoOne]
  /\ Goes(c, "failed")
  /\ UNCHANGED <<recordsDisk, issued, recRead, removed>>

\* rotate() with the present value, or an error in the statement.
Refuses(c) ==
  /\ recCall[c].at = "writing"
  /\ Goes(c, "failed")
  /\ UNCHANGED <<records, recordsDisk, issued, recRead, changedBy, removed>>

\* delete() and deactivate() of a share: a statement that nobody commits.
DropShare(i) ==
  /\ records[i] # NoRecord
  /\ records' = [records EXCEPT ![i] = NoRecord]
  /\ changedBy' = [changedBy EXCEPT ![i] = NoOne]
  /\ UNCHANGED <<recordsDisk, issued, recCall, recRead, removed>>

\* The process ends; the calls under way have no answer.
RecordCrash ==
  /\ records' = recordsDisk
  /\ recCall' = [c \in RecordCalls |->
       IF recCall[c].at \in {"new", "returned"} THEN recCall[c] ELSE [recCall[c] EXCEPT !.at = "failed"]]
  /\ changedBy' = [i \in RecordIds |-> IF records[i] = recordsDisk[i] THEN changedBy[i] ELSE NoOne]
  /\ UNCHANGED <<recordsDisk, issued, recRead, removed>>

RecordNext ==
  \/ \E c \in RecordCalls : \/ \E i \in RecordIds, op \in Ops : Arrives(c, i, op)
                            \/ ReadRecord(c) \/ Writes(c) \/ Commits(c) \/ RollsBack(c) \/ Refuses(c)
  \/ \E i \in RecordIds : DropShare(i)
  \/ RecordCrash

RecordSpec == RecordInit /\ [][RecordNext]_recordVars
-----------------------------------------------------------------------------
(***************************************************************************)
(* "All mutations are persisted immediately": when the call that changed a *)
(* row last has returned, the row is on disk as it is, in spite of the     *)
(* statements of others that are not committed; the deletion of a share is *)
(* the exception, and so is what the rollback of another call has undone   *)
(* by then.  And a row the deletion of which was stored does not come back *)
(* by an update that had read it before.                                   *)
(***************************************************************************)
AckedIsStored ==
  /\ \A i \in RecordIds : changedBy[i] # NoOne =>
       (recCall[changedBy[i]].at = "returned" => records[i] = recordsDisk[i])
  /\ \A i \in removed :
       records[i] # NoRecord =>
         \E c \in RecordCalls : recCall[c].op = "put" /\ recCall[c].id = i
=============================================================================
