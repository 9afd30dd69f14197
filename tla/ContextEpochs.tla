---------------------------- MODULE ContextEpochs ----------------------------
(***************************************************************************)
(* The system context (core/system_context/__init__.py) and its epochs     *)
(* (core/context_epoch.py).  The sources of the context are loaded one     *)
(* after the other, each with an await; an epoch stores what they had and  *)
(* the number of the last event it covers.  prepare() loads them again and *)
(* reports the first that differs; compact() makes a new epoch, and then   *)
(* appends its event.                                                      *)
(*                                                                         *)
(* What was not available is stored as a text and comes back as that text, *)
(* which the update() of a source that expects a structure cannot take: it *)
(* raises, and the turn gets the baseline, as it does for an empty text.   *)
(***************************************************************************)
EXTENDS Integers, Sequences, FiniteSets

CONSTANTS
  SourceCount,      \* the sources, in the order of the context
  StructuredSources,   \* those whose update() looks into the stored value
  QuietSources,     \* those whose update() may return an empty text
  SourceValues,
  EpochCalls,       \* the calls of initialize(), prepare() and compact()
  EpochReadLimit,   \* of EventStore.read
  MaxHistory        \* bound of the model: events of the session

ASSUME ContextEpochsAssumption == {SourceCount, EpochReadLimit, MaxHistory} \subseteq Nat \ {0}

Sources     == 1..SourceCount
Unavailable == "unavailable"
AsText      == "text of unavailable"
Blank       == [s \in Sources |-> Unavailable]

VARIABLES
  offered,    \* [Sources -> what its load() gives now]
  epochs,     \* rows of context_epochs by their number: [seq, snapshot]
  history,    \* the events: a number says it is a compaction up to there, -1 another one
  epochCall,  \* [EpochCalls -> record, see NewEpochCall]
  changing,   \* calls during which a source has changed
  crossed     \* two calls that make an epoch were under way at the same time

epochVars == <<offered, epochs, history, epochCall, changing, crossed>>

NewEpochCall == [op |-> "none", at |-> "new", next |-> 1, seen |-> Blank, base |-> 0,
                 seq |-> 0, number |-> 0, told |-> 0]

Stored == SourceValues \cup {AsText}

EpochInit ==
  /\ offered \in [Sources -> SourceValues \cup {Unavailable}]
  /\ epochs = <<>> /\ history = <<>> /\ changing = {} /\ crossed = FALSE
  /\ epochCall = [c \in EpochCalls |-> NewEpochCall]

EpochTypeOK ==
  /\ offered \in [Sources -> SourceValues \cup {Unavailable}]
  /\ epochs \in Seq([seq : 0..MaxHistory, snapshot : [Sources -> Stored]])
  /\ history \in Seq(-1..MaxHistory) /\ Len(history) <= MaxHistory
  /\ epochCall \in [EpochCalls -> [op : {"none", "initialize", "prepare", "compact"},
       at : {"new", "comparing", "loading", "numbering", "inserting", "appending", "done", "failed"},
       next : 1..(SourceCount + 1), seen : [Sources -> SourceValues \cup {Unavailable}],
       base : 0..Cardinality(EpochCalls), seq : 0..MaxHistory,
       number : 0..Cardinality(EpochCalls), told : 0..SourceCount]]
  /\ changing \subseteq EpochCalls /\ crossed \in BOOLEAN

EndsCall(c, at) == epochCall' = [epochCall EXCEPT ![c] = [NewEpochCall EXCEPT !.at = at]]
Making      == {c \in EpochCalls : epochCall[c].at \in {"loading", "numbering", "inserting"}}
Cross(c)    == crossed' = (crossed \/ Making \ {c} # {})
Under       == {c \in EpochCalls : epochCall[c].at \notin {"new", "done", "failed"}}
-----------------------------------------------------------------------------
\* A file, the date, what a plugin says: another value, or none.
SourceChanges(s) ==
  /\ \E v \in (SourceValues \cup {Unavailable}) \ {offered[s]} : offered' = [offered EXCEPT ![s] = v]
  /\ changing' = changing \cup {c \in Under : epochCall[c].at = "comparing"}
  /\ UNCHANGED <<epochs, history, epochCall, crossed>>

EventComes ==
  /\ Len(history) < MaxHistory
  /\ history' = Append(history, -1)
  /\ UNCHANGED <<offered, epochs, epochCall, changing, crossed>>

\* prepare() reads the last epoch; without one it goes on as initialize().
Prepare(c) ==
  /\ epochCall[c].at = "new"
  /\ IF epochs = <<>>
       THEN /\ epochCall' = [epochCall EXCEPT ![c].op = "initialize", ![c].at = "loading"]
            /\ Cross(c)
       ELSE /\ epochCall' = [epochCall EXCEPT ![c].op = "prepare", ![c].at = "comparing",
                                              ![c].base = Len(epochs)]
            /\ UNCHANGED crossed
  /\ UNCHANGED <<offered, epochs, history, changing>>

\* compact() reads the events; without one it returns.
Compact(c) ==
  LET read == IF Len(history) < EpochReadLimit THEN Len(history) ELSE EpochReadLimit IN
  /\ epochCall[c].at = "new"
  /\ epochCall' = [epochCall EXCEPT ![c].op = "compact", ![c].seq = read,
                                    ![c].at = IF read = 0 THEN "done" ELSE "loading"]
  /\ Cross(c)
  /\ UNCHANGED <<offered, epochs, history, changing>>

\* What update() of a source that differs makes of it: the source the turn is
\* told of, or 0 when it raises (ReplacementBlocked) or its text is empty.
Tells(s, stored) ==
  IF s \in StructuredSources /\ stored = AsText THEN {0}
  ELSE {s} \cup {n \in {0} : s \in QuietSources}

\* Mutant of Compare: the last source is not looked at.
CompareButLast(c) ==
  LET call == epochCall[c]  s == call.next IN
  /\ call.at = "comparing"
  /\ IF s >= SourceCount
       THEN epochCall' = [epochCall EXCEPT ![c].at = "done", ![c].next = SourceCount + 1]
     ELSE IF offered[s] = Unavailable
       THEN epochCall' = [epochCall EXCEPT ![c].at = "done"]
     ELSE IF offered[s] # epochs[call.base].snapshot[s]
       THEN \E told \in Tells(s, epochs[call.base].snapshot[s]) :
              epochCall' = [epochCall EXCEPT ![c].at = "done", ![c].told = told]
     ELSE epochCall' = [epochCall EXCEPT ![c].next = @ + 1]
  /\ UNCHANGED <<offered, epochs, history, changing, crossed>>

\* reconcile(): one source.  A source that is not available ends it, a source
\* that differs from the snapshot is what prepare() returns if it has a text.
Compare(c) ==
  LET call == epochCall[c]  s == call.next IN
  /\ call.at = "comparing"
  /\ IF s > SourceCount \/ offered[s] = Unavailable
       THEN epochCall' = [epochCall EXCEPT ![c].at = "done"]
     ELSE IF offered[s] # epochs[call.base].snapshot[s]
       THEN \E told \in Tells(s, epochs[call.base].snapshot[s]) :
              epochCall' = [epochCall EXCEPT ![c].at = "done", ![c].told = told]
     ELSE epochCall' = [epochCall EXCEPT ![c].next = @ + 1]
  /\ UNCHANGED <<offered, epochs, history, changing, crossed>>

\* initialize() of the context: one source; a context without any text makes no
\* epoch.
LoadSource(c) ==
  LET call == epochCall[c] IN
  /\ call.at = "loading"
  /\ epochCall' =
       IF call.next <= SourceCount
         THEN [epochCall EXCEPT ![c].seen[call.next] = offered[call.next], ![c].next = @ + 1]
       ELSE [epochCall EXCEPT ![c].at = IF call.seen = Blank THEN "done" ELSE "numbering"]
  /\ UNCHANGED <<offered, epochs, history, changing, crossed>>

NumberOfEpoch(c) ==
  /\ epochCall[c].at = "numbering"
  /\ epochCall' = [epochCall EXCEPT ![c].at = "inserting", ![c].number = Len(epochs)]
  /\ UNCHANGED <<offered, epochs, history, changing, crossed>>

\* Mutant of Kept: what is not available is kept as that.
KeptAsIs(value) == value

\* The snapshot is kept as JSON, in which a value that is not available has
\* become a text.
Kept(value) == IF value = Unavailable THEN AsText ELSE value

\* The INSERT; (session_id, epoch) is the primary key.
InsertRowOf(c) ==
  LET call == epochCall[c]
      row  == [seq |-> call.seq, snapshot |-> [s \in Sources |-> Kept(call.seen[s])]] IN
  /\ call.at = "inserting"
  /\ \/ /\ call.number = Len(epochs)
        /\ epochs' = Append(epochs, row)
        /\ IF call.op = "compact" THEN epochCall' = [epochCall EXCEPT ![c].at = "appending"]
           ELSE EndsCall(c, "done")
     \/ /\ call.number < Len(epochs)
        /\ EndsCall(c, "failed") /\ UNCHANGED epochs
  /\ UNCHANGED <<offered, history, changing, crossed>>

AppendEventOf(c) ==
  /\ epochCall[c].at = "appending" /\ Len(history) < MaxHistory
  /\ history' = Append(history, epochCall[c].seq)
  /\ EndsCall(c, "done")
  /\ UNCHANGED <<offered, epochs, changing, crossed>>

\* The call is cancelled or fails at an await, or the process ends.
EpochCallFails(c) ==
  /\ c \in Under
  /\ EndsCall(c, "failed")
  /\ UNCHANGED <<offered, epochs, history, changing, crossed>>

EpochNext ==
  \/ EventComes
  \/ \E s \in Sources : SourceChanges(s)
  \/ \E c \in EpochCalls : \/ Prepare(c) \/ Compact(c) \/ Compare(c) \/ LoadSource(c)
                           \/ NumberOfEpoch(c) \/ InsertRowOf(c) \/ AppendEventOf(c)
                           \/ EpochCallFails(c)

EpochSpec == EpochInit /\ [][EpochNext]_epochVars
-----------------------------------------------------------------------------
(***************************************************************************)
(* A turn is told of the first change since the epoch it read.  It gets    *)
(* the baseline only if nothing differs up to the first source that is not *)
(* available, or if the first that differs has no text for it: its update  *)
(* cannot take what was stored when it was not available, or has nothing   *)
(* to say.  This is as long as no source changes during the call.          *)
(***************************************************************************)
TurnsSeeChanges ==
  [][\A c \in EpochCalls \ changing :
       LET call == epochCall'[c] IN
       epochCall[c].at = "comparing" /\ call.at = "done" =>
         LET stored     == epochs[call.base].snapshot
             differs(s) == offered[s] # stored[s]
             first      == IF call.told # 0 THEN call.told ELSE call.next IN
         /\ \A s \in 1..(first - 1) : ~differs(s)
         /\ call.told # 0 => differs(call.told)
         /\ call.told = 0 =>
              \/ first > SourceCount \/ offered[first] = Unavailable
              \/ /\ differs(first)
                 /\ \/ first \in QuietSources
                    \/ first \in StructuredSources /\ stored[first] = AsText]_epochVars

(***************************************************************************)
(* A compaction event stands for an epoch that is stored with the same     *)
(* events covered, wherever its call was cut off; the epochs cover no      *)
(* event that is not there, and a later one never fewer than an earlier    *)
(* one unless two calls have made theirs at the same time.                 *)
(***************************************************************************)
CompactionsHaveEpochs ==
  /\ \A k \in DOMAIN history : history[k] >= 0 => \E e \in DOMAIN epochs : epochs[e].seq = history[k]
  /\ \A e \in DOMAIN epochs : epochs[e].seq <= Len(history)
  /\ ~crossed => \A e \in 1..(Len(epochs) - 1) : epochs[e].seq <= epochs[e + 1].seq
=============================================================================
