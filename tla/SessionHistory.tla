--------------------------- MODULE SessionHistory ---------------------------
(***************************************************************************)
(* The history of one session: the events of its aggregate and what        *)
(* SessionProjector makes of them (core/session.py), the SessionV2 objects *)
(* that requests work with, and the compactions (server/compactor.py).     *)
(*                                                                         *)
(* A handle is a SessionV2 object.  Its state is the projection of the     *)
(* events that it read last, so it is kept as their number, seen[h].  A    *)
(* mutation checks that state, appends one event and projects again, with  *)
(* awaits before and after the append:                                     *)
(*                                                                         *)
(*   idle -> ready -> wrote -> ready                                       *)
(*                                                                         *)
(* EventStore is taken as an atomic append here; EventStore.tla is about   *)
(* what is behind it.                                                      *)
(***************************************************************************)
EXTENDS Integers, Lists, TLC

CONSTANTS
  Handles,      \* SessionV2 objects
  Compactions,  \* calls of Compactor.compact
  ReadLimit,    \* the default limit of EventStore.read
  MaxEvents,    \* bound of the model: the length of the log
  NoHandle

ASSUME HistoryAssumption ==
  /\ ReadLimit \in Nat \ {0}
  /\ MaxEvents \in Nat /\ MaxEvents >= 3
  /\ NoHandle \notin Handles

\* arg is the target of a revert, the baseline of a compaction, the index of
\* an edit or deletion (from 1 here).  by and basis, the writer and the events
\* it had seen, are kept for the properties.  The kind "other" stands for the
\* events that leave messages and tool calls alone.
Event(kind, arg, by, basis) == [kind |-> kind, arg |-> arg, by |-> by, basis |-> basis]

VARIABLES
  log,        \* the events of the aggregate, in the order of seq
  views,      \* views[n + 1] is the projection of the first n events
  handle,     \* where each handle is
  seen,       \* the number of events its state was projected from
  compacting, \* where each compaction is
  baseline,   \* the baseline it has computed
  nextEpoch,  \* the epoch it has computed
  epochs      \* the rows of context_epochs: baseline by epoch

vars == <<log, views, handle, seen, compacting, baseline, nextEpoch, epochs>>
-----------------------------------------------------------------------------
(***************************************************************************)
(* SessionProjector.project, one event at a time.                          *)
(***************************************************************************)
\* A message with msg_seqs' entry for it; edits counts the edits it has got.
Message(role, n) == [role |-> role, seq |-> n, edits |-> 0]

EmptyView == [ok |-> TRUE, messages |-> <<>>, tools |-> {}]

Adds(v, m) == [v EXCEPT !.messages = Append(@, m)]

\* Mutant of Reverted: the event at the target is dropped as well.
RevertedBefore(v, target) ==
  [v EXCEPT !.messages = ItemsAt(@, {i \in DOMAIN @ : @[i].seq < target}),
            !.tools    = {t \in @ : t < target}]

\* session.reverted: messages and tool calls after the target are dropped.
Reverted(v, target) ==
  [v EXCEPT !.messages = ItemsAt(@, {i \in DOMAIN @ : @[i].seq <= target}),
            !.tools    = {t \in @ : t <= target}]

\* compaction: messages before the baseline are dropped and, when there were
\* any, a snapshot takes their place in front of the rest.
Compacted(v, base) ==
  LET ms   == v.messages
      kept == ItemsAt(ms, {i \in DOMAIN ms : ms[i].seq >= base})
  IN  [v EXCEPT !.messages = IF Len(kept) < Len(ms)
                             THEN <<Message("system", base)>> \o kept ELSE kept]

\* An index that is out of range raises: the projection of this log, and of
\* every longer one, fails.
Edited(v, i) ==
  IF i \in 1..Len(v.messages) THEN [v EXCEPT !.messages[i].edits = @ + 1]
                              ELSE [v EXCEPT !.ok = FALSE]

Deleted(v, i) ==
  IF i \in 1..Len(v.messages)
  THEN [v EXCEPT !.messages = ItemsAt(@, DOMAIN @ \ {i})]
  ELSE [v EXCEPT !.ok = FALSE]

\* The projection v with event e, which has number n, applied to it.
Project(v, e, n) ==
  IF ~v.ok THEN v
  ELSE CASE e.kind = "prompt"     -> Adds(v, Message("user", n))
         [] e.kind = "text"       -> Adds(v, Message("assistant", n))
         [] e.kind = "tool"       -> [v EXCEPT !.tools = @ \cup {n}]
         [] e.kind = "reverted"   -> Reverted(v, e.arg)
         [] e.kind = "compaction" -> Compacted(v, e.arg)
         [] e.kind = "edited"     -> Edited(v, e.arg)
         [] e.kind = "deleted"    -> Deleted(v, e.arg)
         [] OTHER                 -> v

\* A session that was used before: it has been created, and a prompt and its
\* answer are in the log.
UsedLog == <<Event("other", 0, NoHandle, 0), Event("prompt", 0, NoHandle, 1),
             Event("text", 0, NoHandle, 2)>>

UsedViews ==
  LET v1 == Project(EmptyView, UsedLog[1], 1)
      v2 == Project(v1, UsedLog[2], 2)
  IN  <<EmptyView, v1, v2, Project(v2, UsedLog[3], 3)>>

Init ==
  /\ log = UsedLog
  /\ views = UsedViews
  /\ handle = [h \in Handles |-> "idle"]
  /\ seen = [h \in Handles |-> 0]
  /\ compacting = [c \in Compactions |-> "new"]
  /\ baseline = [c \in Compactions |-> 0]
  /\ nextEpoch = [c \in Compactions |-> 0]
  /\ epochs = <<>>

Views == [ok : BOOLEAN, tools : SUBSET (1..MaxEvents),
          messages : Seq([role : {"user", "assistant", "system"}, seq : 1..MaxEvents,
                          edits : 0..MaxEvents])]

TypeOK ==
  /\ Len(log) \in 3..MaxEvents
  /\ Len(views) = Len(log) + 1
  /\ \A i \in DOMAIN views : views[i] \in Views
  /\ handle \in [Handles -> {"idle", "ready", "wrote"}]
  /\ seen \in [Handles -> 0..MaxEvents]
  /\ compacting \in [Compactions -> {"new", "read", "wrote", "numbered", "done", "failed"}]
  /\ baseline \in [Compactions -> 0..ReadLimit]
  /\ nextEpoch \in [Compactions -> Nat]
  /\ \A i \in DOMAIN epochs : epochs[i] \in 1..MaxEvents
-----------------------------------------------------------------------------
(***************************************************************************)
(* The store.                                                              *)
(***************************************************************************)
\* What read() returns of the log, as a number of events: the first ReadLimit.
ReadEvents == IF Len(log) < ReadLimit THEN Len(log) ELSE ReadLimit

AppendEvent(e) ==
  /\ Len(log) < MaxEvents
  /\ log' = Append(log, e)
  /\ views' = Append(views, Project(views[Len(log) + 1], e, Len(log) + 1))

\* The state of a handle: the projection of what it has read.
StateOf(h) == views[seen[h] + 1]
-----------------------------------------------------------------------------
(***************************************************************************)
(* SessionV2.                                                              *)
(***************************************************************************)
\* Mutant of Load: after an append the handle is taken to be up to date.
LoadOnlyWhenIdle(h) ==
  /\ views[ReadEvents + 1].ok
  /\ seen' = [seen EXCEPT ![h] = IF handle[h] = "wrote" THEN @ + 1 ELSE ReadEvents]
  /\ handle' = [handle EXCEPT ![h] = "ready"]
  /\ UNCHANGED <<log, views, compacting, baseline, nextEpoch, epochs>>

\* load() and refresh(), and the end of every mutation: read() and project.
\* A log that cannot be projected raises and the request is over.
Load(h) ==
  /\ \/ /\ views[ReadEvents + 1].ok
        /\ seen' = [seen EXCEPT ![h] = ReadEvents]
        /\ handle' = [handle EXCEPT ![h] = "ready"]
     \/ /\ ~views[ReadEvents + 1].ok
        /\ handle[h] = "wrote"
        /\ handle' = [handle EXCEPT ![h] = "idle"]
        /\ UNCHANGED seen
  /\ UNCHANGED <<log, views, compacting, baseline, nextEpoch, epochs>>

\* One append of a mutation of h; what follows it is Load.
Mutate(h, kind, arg) ==
  /\ handle[h] = "ready"
  /\ AppendEvent(Event(kind, arg, h, seen[h]))
  /\ handle' = [handle EXCEPT ![h] = "wrote"]
  /\ UNCHANGED <<seen, compacting, baseline, nextEpoch, epochs>>

Prompt(h)      == Mutate(h, "prompt", 0)
AddText(h)     == Mutate(h, "text", 0)
AddToolCall(h) == Mutate(h, "tool", 0)

\* update_metadata, the workspace and instruction operations, add_reminder,
\* the mark_run_* and delete().
WriteOther(h) == Mutate(h, "other", 0)

\* revert(target_seq): the target is before the last event of the state.
Revert(h) == \E target \in 1..(seen[h] - 1) : Mutate(h, "reverted", target)

\* Mutant of EditMessage: the index may be one past the end.
EditAnyMessage(h) ==
  \E i \in 1..(Len(StateOf(h).messages) + 1) : Mutate(h, "edited", i)

\* edit_message and delete_message check the index against the state.
EditMessage(h)   == \E i \in DOMAIN StateOf(h).messages : Mutate(h, "edited", i)
DeleteMessage(h) == \E i \in DOMAIN StateOf(h).messages : Mutate(h, "deleted", i)

\* retry(): the last prompt, when the state has one, is submitted again.
Retry(h) ==
  /\ \E i \in DOMAIN StateOf(h).messages : StateOf(h).messages[i].role = "user"
  /\ Mutate(h, "prompt", 0)

HandleStep(h) ==
  \/ Load(h) \/ Prompt(h) \/ AddText(h) \/ AddToolCall(h) \/ WriteOther(h)
  \/ Revert(h) \/ EditMessage(h) \/ DeleteMessage(h) \/ Retry(h)
-----------------------------------------------------------------------------
(***************************************************************************)
(* Compactor.compact, called by POST /compact, by _auto_compact after a    *)
(* chat and by the truncate tool.                                          *)
(***************************************************************************)
\* Mutant of ReadForCompaction: the baseline is the number of the next event.
ReadForCompactionPast(c) ==
  /\ compacting[c] = "new"
  /\ compacting' = [compacting EXCEPT ![c] = "read"]
  /\ baseline' = [baseline EXCEPT ![c] = ReadEvents + 1]
  /\ UNCHANGED <<log, views, handle, seen, nextEpoch, epochs>>

\* The events are read; the baseline is the last of them.
ReadForCompaction(c) ==
  /\ compacting[c] = "new"
  /\ compacting' = [compacting EXCEPT ![c] = "read"]
  /\ baseline' = [baseline EXCEPT ![c] = ReadEvents]
  /\ UNCHANGED <<log, views, handle, seen, nextEpoch, epochs>>

AppendCompaction(c) ==
  /\ compacting[c] = "read"
  /\ AppendEvent(Event("compaction", baseline[c], NoHandle, baseline[c]))
  /\ compacting' = [compacting EXCEPT ![c] = "wrote"]
  /\ UNCHANGED <<handle, seen, baseline, nextEpoch, epochs>>

\* SELECT MAX(epoch).
NumberEpoch(c) ==
  /\ compacting[c] = "wrote"
  /\ compacting' = [compacting EXCEPT ![c] = "numbered"]
  /\ nextEpoch' = [nextEpoch EXCEPT ![c] = Len(epochs) + 1]
  /\ UNCHANGED <<log, views, handle, seen, baseline, epochs>>

\* Mutant of InsertEpoch: the row replaces one that has its number.
ReplaceEpoch(c) ==
  /\ compacting[c] = "numbered"
  /\ epochs' = IF nextEpoch[c] \in DOMAIN epochs
               THEN [epochs EXCEPT ![nextEpoch[c]] = baseline[c]]
               ELSE Append(epochs, baseline[c])
  /\ compacting' = [compacting EXCEPT ![c] = "done"]
  /\ UNCHANGED <<log, views, handle, seen, baseline, nextEpoch>>

\* INSERT and commit; a row with this number violates the primary key.
InsertEpoch(c) ==
  /\ compacting[c] = "numbered"
  /\ \/ /\ nextEpoch[c] = Len(epochs) + 1
        /\ epochs' = Append(epochs, baseline[c])
        /\ compacting' = [compacting EXCEPT ![c] = "done"]
     \/ /\ nextEpoch[c] <= Len(epochs)
        /\ compacting' = [compacting EXCEPT ![c] = "failed"]
        /\ UNCHANGED epochs
  /\ UNCHANGED <<log, views, handle, seen, baseline, nextEpoch>>

CompactionStep(c) ==
  ReadForCompaction(c) \/ AppendCompaction(c) \/ NumberEpoch(c) \/ InsertEpoch(c)

Next ==
  \/ \E h \in Handles : HandleStep(h)
  \/ \E c \in Compactions : CompactionStep(c)

Spec == Init /\ [][Next]_vars
-----------------------------------------------------------------------------
(***************************************************************************)
(* What a history is.                                                      *)
(***************************************************************************)
\* The projection of the whole log.
Current == views[Len(log) + 1]

IsMessage(n) == log[n].kind \in {"prompt", "text"}

\* Event k takes message n out of the history: a revert to before it, a
\* compaction with a later baseline, or a deletion that hits it.
Removes(k, n) ==
  \/ log[k].kind = "reverted" /\ log[k].arg < n
  \/ log[k].kind = "compaction" /\ n < log[k].arg
  \/ log[k].kind = "deleted" /\ views[k].messages[log[k].arg].seq = n
                             /\ views[k].messages[log[k].arg].role # "system"

\* The history is what no later event took away, in the order in which it was
\* written, with at most one snapshot, which stands in front; the tool rounds
\* counted are those no revert took away.  Replays of reverts, deletions and
\* overlapping compactions neither lose nor repeat nor reorder a message.
HistoryIsWhatRemains ==
  Current.ok =>
    LET ms     == Current.messages
        spoken == {i \in DOMAIN ms : ms[i].role # "system"}
    IN  /\ {ms[i].seq : i \in spoken} =
             {n \in DOMAIN log : IsMessage(n) /\ \A k \in (n + 1)..Len(log) : ~Removes(k, n)}
        /\ \A i, j \in spoken : i < j => ms[i].seq < ms[j].seq
        /\ \A i \in DOMAIN ms \ spoken : i = 1
        /\ Current.tools =
             {n \in DOMAIN log : log[n].kind = "tool" /\
                \A k \in (n + 1)..Len(log) : log[k].kind = "reverted" => n <= log[k].arg}

\* A session becomes unreadable (every later load() raises) only by an edit or
\* a deletion that its handle decided on a state that was out of date.
BrokenOnlyByStaleHandle ==
  \A n \in DOMAIN log :
    views[n].ok /\ ~views[n + 1].ok => log[n].by # NoHandle /\ log[n].basis < n - 1

\* A row of context_epochs stands for a compaction that is in the log: the
\* event is written first, and the row of another one is never overwritten.
EpochsFollowLog ==
  \A c \in Compactions :
    compacting[c] = "done" =>
      /\ epochs[nextEpoch[c]] = baseline[c]
      /\ \E n \in DOMAIN log : log[n].kind = "compaction" /\ log[n].arg = baseline[c]

\* "Session state is reconstructed by replaying events": after a mutation the
\* state of the handle has the event that the mutation wrote, and everything
\* before it, as far as read() goes: beyond its limit the session stands still
\* while the log goes on.
SeesItsOwnWrites ==
  \A h \in Handles : handle[h] = "ready" =>
    \A n \in DOMAIN log : log[n].by = h /\ n <= ReadLimit => n <= seen[h]

\* SessionV2 objects are interchangeable, and so are compactions.
Symmetry == Permutations(Handles) \cup Permutations(Compactions)
=============================================================================
