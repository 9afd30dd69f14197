----------------------------- MODULE Migrations -----------------------------
(***************************************************************************)
(* The migrations of the database file (storage/db.py, migration.py,       *)
(* migration_runner.py and the commands of cli.py): processes that start,  *)
(* each with a connection of its own, apply what is not marked in          *)
(* schema_version, and may be killed anywhere.                             *)
(*                                                                         *)
(* The connection is Python's sqlite3 in its default mode: a CREATE or an  *)
(* ALTER takes effect at once, and a DELETE or INSERT opens a transaction  *)
(* that keeps the others from writing until it ends.                       *)
(***************************************************************************)
EXTENDS Integers, Sequences, FiniteSets

CONSTANTS
  Runners,        \* processes
  MigrationSteps, \* the statements of each migration, by version
  MaxRunnerStarts \* bound of the model: starts of all processes

NoRunner == [name |-> "no runner"]

\* "create": CREATE ... IF NOT EXISTS; "column": ALTER TABLE ... ADD COLUMN
\* whose errors are ignored; "data": DELETE.
ASSUME MigrationAssumption ==
  /\ NoRunner \notin Runners
  /\ MigrationSteps \in Seq(Seq({"create", "column", "data"}))
  /\ MaxRunnerStarts \in Nat

Versions == DOMAIN MigrationSteps
Steps    == UNION {{v} \X DOMAIN MigrationSteps[v] : v \in Versions}

VARIABLES
  schema,   \* the statements whose effect is in the file
  marked,   \* the rows of schema_version
  missedColumns,   \* columns whose ALTER gave up on the lock
  writer,   \* the process with an open transaction
  unsaved,  \* its schema and marked
  runner,   \* where each process is; rolled: it was ever started to roll back
  starts

migrationVars == <<schema, marked, missedColumns, writer, unsaved, runner, starts>>

Off == [at |-> "off", rollback |-> FALSE, target |-> 0, applied |-> {}, version |-> 0,
        statement |-> 1, rolled |-> FALSE]

MigrationInit ==
  /\ schema = {} /\ marked = {} /\ missedColumns = {}
  /\ writer = NoRunner /\ unsaved = [schema |-> {}, marked |-> {}]
  /\ runner = [r \in Runners |-> Off] /\ starts = 0

MigrationTypeOK ==
  /\ schema \subseteq Steps /\ missedColumns \subseteq Steps /\ marked \subseteq Versions
  /\ writer \in Runners \cup {NoRunner} /\ starts \in 0..MaxRunnerStarts
  /\ \A r \in Runners : /\ runner[r].at \in {"off", "upgrade", "apply", "downgrade", "unmark", "commit", "up", "failed"}
                        /\ runner[r].applied \subseteq Versions /\ runner[r].version \in 0..(Len(MigrationSteps) + 1)
-----------------------------------------------------------------------------
Free(r) == writer \in {r, NoRunner}

\* What r sees of the file: its own transaction is part of it.
SchemaOf(r) == IF writer = r THEN unsaved.schema ELSE schema
MarkedOf(r) == IF writer = r THEN unsaved.marked ELSE marked

\* r writes in a transaction, which it opens if there is none.
WritesAs(r, newSchema, newMarked) ==
  /\ Free(r)
  /\ writer' = r /\ unsaved' = [schema |-> newSchema, marked |-> newMarked]
  /\ UNCHANGED <<schema, marked>>

EndsWriting == writer' = NoRunner /\ unsaved' = [schema |-> {}, marked |-> {}]

RollBack(r) == /\ IF writer = r THEN EndsWriting ELSE UNCHANGED <<writer, unsaved>>
               /\ UNCHANGED <<schema, marked>>

MovesTo(r, at) == runner' = [runner EXCEPT ![r].at = at]

\* The server starts, or a command that rolls back to a target: Database.init
\* upgrades for both.
StartProcess(r) ==
  /\ runner[r].at = "off" /\ starts < MaxRunnerStarts
  /\ starts' = starts + 1
  /\ \E rollback \in BOOLEAN, target \in Versions \cup {0} :
       /\ ~rollback => target = 0
       /\ runner' = [runner EXCEPT ![r] = [Off EXCEPT !.at = "upgrade", !.rollback = rollback,
                                              !.target = target, !.applied = marked,
                                              !.rolled = rollback \/ runner[r].rolled]]
  /\ UNCHANGED <<schema, marked, missedColumns, writer, unsaved>>

\* The next version that was not marked when the upgrade began; after the
\* last one the process serves, or rolls back what is marked now.
NextVersion(r) ==
  LET pending == {v \in Versions : v > runner[r].version /\ v \notin runner[r].applied} IN
  /\ runner[r].at = "upgrade"
  /\ IF pending # {}
       THEN runner' = [runner EXCEPT ![r].at = "apply", ![r].statement = 1,
                         ![r].version = CHOOSE v \in pending : \A w \in pending : v <= w]
       ELSE IF runner[r].rollback
            THEN runner' = [runner EXCEPT ![r].at = "downgrade", ![r].applied = marked,
                              ![r].version = Len(MigrationSteps) + 1]
            ELSE MovesTo(r, "up")
  /\ UNCHANGED <<schema, marked, missedColumns, writer, unsaved>>

StepOf(r)  == <<runner[r].version, runner[r].statement>>
KindOf(r)  == MigrationSteps[runner[r].version][runner[r].statement]
HasStep(r) == runner[r].at = "apply" /\ runner[r].statement <= Len(MigrationSteps[runner[r].version])

NextStatement(r) == runner' = [runner EXCEPT ![r].statement = @ + 1]

\* A column that is there already is an error, which is ignored.
RunStatement(r) ==
  /\ HasStep(r) /\ Free(r)
  /\ IF KindOf(r) = "data" \/ writer = r
       THEN WritesAs(r, SchemaOf(r) \cup {StepOf(r)}, MarkedOf(r))
       ELSE /\ schema' = schema \cup {StepOf(r)}
            /\ UNCHANGED <<marked, writer, unsaved>>
  /\ missedColumns' = missedColumns \ {StepOf(r)}
  /\ NextStatement(r)

\* _mark_applied(): a version that another process has marked meanwhile is an
\* error.
Mark(r) ==
  /\ runner[r].at = "apply" /\ ~HasStep(r)
  /\ runner[r].version \notin MarkedOf(r)
  /\ WritesAs(r, SchemaOf(r), MarkedOf(r) \cup {runner[r].version})
  /\ MovesTo(r, "commit")
  /\ UNCHANGED missedColumns

Fails(r) == RollBack(r) /\ MovesTo(r, "failed") /\ UNCHANGED missedColumns

MarkFails(r) == /\ runner[r].at = "apply" /\ ~HasStep(r) /\ Free(r)
                /\ runner[r].version \in MarkedOf(r)
                /\ Fails(r)

\* The lock is not free within the busy timeout: the ALTER's error is ignored,
\* too.
GivesUp(r) ==
  IF KindOf(r) = "column"
  THEN /\ missedColumns' = missedColumns \cup ({StepOf(r)} \ schema)
       /\ NextStatement(r)
       /\ UNCHANGED <<schema, marked, writer, unsaved>>
  ELSE Fails(r)

StatementTimesOut(r) == HasStep(r) /\ ~Free(r) /\ GivesUp(r)

MarkTimesOut(r) == /\ (runner[r].at = "apply" /\ ~HasStep(r)) \/ runner[r].at = "unmark"
                   /\ ~Free(r) /\ Fails(r)

\* downgrade(): from the highest version down; the migrations' downgrades do
\* nothing.
NextDowngrade(r) ==
  LET left == {v \in runner[r].applied : v < runner[r].version /\ v > runner[r].target} IN
  /\ runner[r].at = "downgrade"
  /\ IF left = {} THEN MovesTo(r, "up")
     ELSE runner' = [runner EXCEPT ![r].at = "unmark",
                       ![r].version = CHOOSE v \in left : \A w \in left : w <= v]
  /\ UNCHANGED <<schema, marked, missedColumns, writer, unsaved>>

Unmark(r) ==
  /\ runner[r].at = "unmark"
  /\ WritesAs(r, SchemaOf(r), MarkedOf(r) \ {runner[r].version})
  /\ MovesTo(r, "commit")
  /\ UNCHANGED missedColumns

CommitMigration(r) ==
  /\ runner[r].at = "commit"
  /\ schema' = unsaved.schema /\ marked' = unsaved.marked /\ EndsWriting
  /\ MovesTo(r, IF runner[r].version \in unsaved.marked THEN "upgrade" ELSE "downgrade")
  /\ UNCHANGED missedColumns

\* The process ends, killed or not.
Stop(r) ==
  /\ runner[r].at # "off"
  /\ RollBack(r)
  /\ runner' = [runner EXCEPT ![r] = [Off EXCEPT !.rolled = runner[r].rolled]]
  /\ UNCHANGED missedColumns

MigrationNext ==
  \E r \in Runners :
    \/ StartProcess(r)
    \/ /\ UNCHANGED starts
       /\ \/ NextVersion(r) \/ RunStatement(r) \/ Mark(r) \/ MarkFails(r)
          \/ StatementTimesOut(r) \/ MarkTimesOut(r) \/ NextDowngrade(r) \/ Unmark(r)
          \/ CommitMigration(r) \/ Stop(r)

MigrationSpec == MigrationInit /\ [][MigrationNext]_migrationVars
-----------------------------------------------------------------------------
(***************************************************************************)
(* A version is marked only when all of its statements have taken effect,  *)
(* however its migration was interrupted, failed or rolled back, and       *)
(* whoever else was at it; but for a column whose ALTER gave up on a lock  *)
(* (storage/db.py ignores every error there, not only "column already      *)
(* exists").                                                               *)
(***************************************************************************)
MarkedIsApplied ==
  \A s \in Steps : s[1] \in marked => s \in schema \cup missedColumns

(***************************************************************************)
(* A process that serves has a file with every version marked, unless one  *)
(* was started to roll back.                                               *)
(***************************************************************************)
ServesLatest ==
  \A r \in Runners : runner[r].at = "up" /\ Cardinality(marked) < Len(MigrationSteps) =>
    \E q \in Runners : runner[q].rolled
=============================================================================
