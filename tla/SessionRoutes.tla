--------------------------- MODULE SessionRoutes ---------------------------
(***************************************************************************)
(* The requests on sessions (server/routes/sessions.py, the import of      *)
(* server/app.py, the fork of acp/server.py).  A request loads the         *)
(* session, that is, it projects the events that it reads, checks what it  *)
(* has loaded, and then appends; other requests append between the two.  A *)
(* read takes the first RouteReadLimit events.                             *)
(*                                                                         *)
(* The instruction, the workspace, the model, the agent and the reminders  *)
(* are set in the same way, by the operation "set".  A revert, an edit and  *)
(* the removal of a message have no route; they are operations of the      *)
(* session (core/session.py) for those who use it as a library.            *)
(***************************************************************************)
EXTENDS Integers, Sequences, SequencesExt, Lists

CONSTANTS
  RouteSessions,  \* session ids; the first is in use, the others are new
  UsedSession,
  MaxRouteCalls,  \* bound of the model: requests, numbered as they come
  RouteReadLimit, \* the default limit of EventStore.read
  RunMarks        \* the statuses that requests ask for, not all of them valid

ASSUME RoutesAssumption ==
  UsedSession \in RouteSessions /\ RouteReadLimit \in Nat \ {0} /\ MaxRouteCalls \in Nat

RouteCalls  == 1..MaxRouteCalls
NoRouteCall == 0

VARIABLES
  streams,  \* the events of every session
  request,  \* where every request is
  exported  \* the messages of the last export

routeVars == <<streams, request, exported>>

RunStatuses == {"running", "stopped", "errored", "completed"}
Unchecked   == {"patch", "delete"}
Checked     == {"get", "set", "mark", "retry", "export", "compact", "fork"}
Edits       == {"revert", "edit", "remove"}
Operations  == Unchecked \cup Checked \cup Edits \cup {"stop", "import"}

\* An event: arg is the status of a run mark, the baseline of a compaction, the
\* number that a revert goes back to, the place of an edited or removed message.
EventBy(kind, arg, q) == [kind |-> kind, arg |-> arg, by |-> q]
-----------------------------------------------------------------------------
(***************************************************************************)
(* SessionProjector.project, but for the fields that "set" stands for.     *)
(***************************************************************************)
\* A message: the number it is kept under, and the event that its text is of.
Spoken(role, n) == [role |-> role, number |-> n, text |-> n]

\* known says whether the state has a session_id, broken whether the projection
\* has raised, which it then does at every later event as well.
NothingRead == [number |-> 0, known |-> FALSE, gone |-> FALSE, broken |-> FALSE,
                run |-> "idle", talk |-> <<>>]

\* Mutant of IsGone: an update of a deleted session brings it back.
IsGoneUntilUpdated(v, e) == e.kind = "deleted" \/ (v.gone /\ e.kind # "updated")

IsGone(v, e) == e.kind = "deleted" \/ v.gone

\* Messages before the baseline are dropped; when there were any, a snapshot
\* takes their place in front of the rest.
Compacted(talk, base) ==
  LET kept == ItemsAt(talk, {k \in DOMAIN talk : talk[k].number >= base}) IN
  IF Len(kept) < Len(talk) THEN <<Spoken("system", base)>> \o kept ELSE kept

\* The messages up to the one that the session is reverted to.
Reverted(talk, target) == ItemsAt(talk, {k \in DOMAIN talk : talk[k].number <= target})

\* An edit or a removal names a message by its place, which raises when there is none.
Misses(v, e) == e.kind \in {"edited", "removed"} /\ e.arg \notin DOMAIN v.talk

TalkAfter(v, e) ==
  LET n == v.number + 1 IN
  CASE e.kind = "prompt"     -> Append(v.talk, Spoken("user", n))
    [] e.kind = "text"       -> Append(v.talk, Spoken("assistant", n))
    [] e.kind = "compaction" -> Compacted(v.talk, e.arg)
    [] e.kind = "reverted"   -> Reverted(v.talk, e.arg)
    [] e.kind = "edited" /\ ~Misses(v, e)  -> [v.talk EXCEPT ![e.arg].text = n]
    [] e.kind = "removed" /\ ~Misses(v, e) -> ItemsAt(v.talk, DOMAIN v.talk \ {e.arg})
    [] OTHER                 -> v.talk

Applied(v, e) ==
  [number |-> v.number + 1,
   known  |-> v.known \/ e.kind = "created",
   gone   |-> IsGone(v, e),
   broken |-> v.broken \/ Misses(v, e),
   run    |-> IF e.kind = "run" THEN e.arg ELSE v.run,
   talk   |-> TalkAfter(v, e)]

\* What the first events, any number of them, project to.
Views(events) ==
  LET seen[k \in 0..Len(events)] ==
        IF k = 0 THEN NothingRead ELSE Applied(seen[k - 1], events[k])
  IN  seen

ReadOf(events) == SubSeq(events, 1, IF Len(events) < RouteReadLimit THEN Len(events) ELSE RouteReadLimit)
ViewOf(events) == LET read == ReadOf(events) IN Views(read)[Len(read)]

Shown(v) == v.number > 0 /\ ~v.gone /\ ~v.broken
-----------------------------------------------------------------------------
Used == <<EventBy("created", 0, NoRouteCall), EventBy("prompt", 0, NoRouteCall)>>

Unused == [at |-> "idle", op |-> "none", on |-> UsedSession, view |-> NothingRead,
           arg |-> "none", body |-> <<>>, sent |-> 0, answer |-> "none"]

RoutesInit ==
  /\ streams = [s \in RouteSessions |-> IF s = UsedSession THEN Used ELSE <<>>]
  /\ request = [q \in RouteCalls |-> Unused]
  /\ exported = <<>>

RoutesTypeOK ==
  /\ \A s \in RouteSessions : \A k \in DOMAIN streams[s] :
       streams[s][k].by \in RouteCalls \cup {NoRouteCall}
  /\ \A q \in RouteCalls :
       /\ request[q].at \in {"idle", "loaded", "wrote", "read", "forked", "done"}
       /\ request[q].on \in RouteSessions
       /\ request[q].op \in Operations \cup {"none"} /\ request[q].sent <= Len(request[q].body)
  /\ \A k \in DOMAIN exported : exported[k].role \in {"system", "user", "assistant"}

\* The request is answered with ans, and forgotten but for what the
\* properties are about.
AnswerTo(q, ans) ==
  request' = [request EXCEPT ![q] = IF @.op \in {"mark", "import", "fork"}
                                    THEN [@ EXCEPT !.at = "done", !.answer = ans]
                                    ELSE [Unused EXCEPT !.at = "done", !.answer = ans]]

\* Only a compaction uses what was loaded once it has been checked.
LoadedBy(op, s, arg) ==
  [Unused EXCEPT !.at = "loaded", !.op = op, !.on = s, !.arg = arg,
                 !.view = IF op = "compact" THEN ViewOf(streams[s]) ELSE NothingRead]

\* A session that cannot be projected fails every request but get, which says
\* that there is none.  Some routes refuse a session without events; a deleted
\* one is refused by get alone.
Refusal(op, v, arg) ==
  IF v.broken THEN IF op = "get" THEN "404" ELSE "500"
  ELSE IF op \in Checked /\ v.number = 0 THEN "404"
  ELSE CASE op = "get"  -> IF v.gone THEN "404" ELSE "200"
         [] op = "mark" -> IF arg \notin RunStatuses THEN "400" ELSE "none"
         [] op = "retry" -> IF \A k \in DOMAIN v.talk : v.talk[k].role # "user" THEN "400" ELSE "none"
         [] op = "stop" -> IF v.number = 0 THEN "200" ELSE "none"
         [] op = "fork" -> IF ~v.known THEN "404" ELSE "none"
         [] OTHER       -> "none"

Comes(q) == request[q].at = "idle" /\ \A p \in 1..q - 1 : request[p].at # "idle"

\* What a request can ask for that is not refused for what it asks: a revert
\* goes back to an earlier event, an edit or a removal is of a message there is.
Asked(op, v) ==
  CASE op = "mark"   -> RunMarks
    [] op = "revert" -> 1..v.number - 1
    [] op \in {"edit", "remove"} -> DOMAIN v.talk
    [] OTHER         -> {"none"}

\* A request comes and loads its session.
LoadSession(q) ==
  /\ Comes(q)
  /\ \E op \in Operations \ {"import"}, s \in RouteSessions :
     \E arg \in Asked(op, ViewOf(streams[s])) :
          LET refusal == Refusal(op, ViewOf(streams[s]), arg) IN
          request' = [request EXCEPT ![q] =
                        IF refusal = "none" THEN LoadedBy(op, s, arg)
                        ELSE [Unused EXCEPT !.at = "done", !.answer = refusal]]
  /\ UNCHANGED <<streams, exported>>

EventFor(q) ==
  LET r == request[q] IN
  CASE r.op = "set"     -> EventBy("set", 0, q)
    [] r.op = "patch"   -> EventBy("updated", 0, q)
    [] r.op = "delete"  -> EventBy("deleted", 0, q)
    [] r.op = "stop"    -> EventBy("run", "stopped", q)
    [] r.op = "mark"    -> EventBy("run", r.arg, q)
    [] r.op = "retry"   -> EventBy("prompt", 0, q)
    [] r.op = "compact" -> EventBy("compaction", r.view.number, q)
    [] r.op = "revert"  -> EventBy("reverted", r.arg, q)
    [] r.op = "edit"    -> EventBy("edited", r.arg, q)
    [] r.op = "remove"  -> EventBy("removed", r.arg, q)

AppendTo(s, e) == streams' = [streams EXCEPT ![s] = Append(@, e)]

\* The event of the request; the session is then projected once more.  The route
\* of run marks answers with what it finds when it has loaded the session again.
AppendEvent(q) ==
  /\ request[q].at = "loaded" /\ request[q].op \notin {"export", "import", "fork"}
  /\ AppendTo(request[q].on, EventFor(q))
  /\ IF request[q].op = "mark"
     THEN request' = [request EXCEPT ![q].at = "wrote"]
     ELSE AnswerTo(q, IF ViewOf(Append(streams[request[q].on], EventFor(q))).broken THEN "500" ELSE "200")
  /\ UNCHANGED exported

\* The state of the run as it is loaded once more.
ReportedRun(q) ==
  LET v == ViewOf(streams[request[q].on]) IN IF v.broken THEN "500" ELSE v.run

ReportRun(q) ==
  /\ request[q].at = "wrote"
  /\ AnswerTo(q, ReportedRun(q))
  /\ UNCHANGED <<streams, exported>>

\* An export reads the events again.
Export(q) ==
  /\ request[q].at = "loaded" /\ request[q].op = "export"
  /\ LET v == ViewOf(streams[request[q].on]) IN
     /\ exported' = IF v.broken THEN exported ELSE v.talk
     /\ AnswerTo(q, IF v.broken THEN "500" ELSE "200")
  /\ UNCHANGED streams

\* A session id that nobody has used.
IsNew(s) == streams[s] = <<>> /\ \A p \in RouteCalls : request[p].at = "loaded" => request[p].on # s

\* An import takes a new session id.
StartImport(q) ==
  /\ Comes(q) /\ exported # <<>>
  /\ \E s \in RouteSessions :
       /\ IsNew(s)
       /\ AppendTo(s, EventBy("created", 0, q))
       /\ request' = [request EXCEPT ![q] = [Unused EXCEPT !.at = "loaded", !.op = "import",
                                                          !.on = s, !.body = exported]]
  /\ UNCHANGED exported

ImportedKind(role) ==
  CASE role = "user" -> "prompt" [] role = "assistant" -> "text" [] OTHER -> "none"

\* The messages are appended one by one; others can append between them.
ImportMessage(q) ==
  LET r == request[q]
      kind == ImportedKind(r.body[r.sent + 1].role) IN
  /\ r.at = "loaded" /\ r.op = "import" /\ r.sent < Len(r.body)
  /\ IF kind = "none" THEN UNCHANGED streams ELSE AppendTo(r.on, EventBy(kind, 0, q))
  /\ request' = [request EXCEPT ![q].sent = @ + 1]
  /\ UNCHANGED exported

FinishImport(q) ==
  /\ request[q].at = "loaded" /\ request[q].op = "import" /\ request[q].sent = Len(request[q].body)
  /\ AnswerTo(q, "200")
  /\ UNCHANGED <<streams, exported>>

\* A fork has loaded its source, and reads the events once more.
ReadSource(q) ==
  /\ request[q].at = "loaded" /\ request[q].op = "fork"
  /\ request' = [request EXCEPT ![q].at = "read", ![q].body = ReadOf(streams[request[q].on])]
  /\ UNCHANGED <<streams, exported>>

CreateFork(q) ==
  /\ request[q].at = "read"
  /\ \E s \in RouteSessions :
       /\ IsNew(s)
       /\ AppendTo(s, EventBy("created", 0, q))
       /\ request' = [request EXCEPT ![q].at = "forked", ![q].on = s]
  /\ UNCHANGED exported

\* All events of the source in one append, its creation among them; they get
\* new numbers, and a baseline stays what it was.
ReplaySource(q) ==
  LET r == request[q] IN
  /\ r.at = "forked"
  /\ streams' = [streams EXCEPT ![r.on] =
                   @ \o [k \in DOMAIN r.body |-> EventBy(r.body[k].kind, r.body[k].arg, q)]]
  /\ AnswerTo(q, "200")
  /\ UNCHANGED exported

\* The agent of a running stream answers in the used session.
AgentWrites ==
  /\ Last(streams[UsedSession]).kind = "prompt"
  /\ AppendTo(UsedSession, EventBy("text", 0, NoRouteCall))
  /\ UNCHANGED <<request, exported>>

RoutesNext ==
  \/ AgentWrites
  \/ \E q \in RouteCalls : \/ LoadSession(q) \/ AppendEvent(q) \/ ReportRun(q) \/ Export(q)
                           \/ StartImport(q) \/ ImportMessage(q) \/ FinishImport(q)
                           \/ ReadSource(q) \/ CreateFork(q) \/ ReplaySource(q)

RoutesSpec == RoutesInit /\ [][RoutesNext]_routeVars
-----------------------------------------------------------------------------
(***************************************************************************)
(* A session whose deletion was answered is neither listed nor served      *)
(* again, whatever is appended to it afterwards, by routes that do not     *)
(* look at its status (all but get) or by a stream that still runs: unless *)
(* the deletion comes after the events that a read takes.                  *)
(***************************************************************************)
GoneStaysGone ==
  \A q \in RouteCalls, s \in RouteSessions :
    LET mine == {k \in DOMAIN streams[s] : streams[s][k] = EventBy("deleted", 0, q)} IN
    \A k \in mine : k <= RouteReadLimit => ~Shown(ViewOf(streams[s]))

(***************************************************************************)
(* A request that marks the run is answered with its own mark, or with one *)
(* that was appended after it; with an older one only beyond the events    *)
(* that a read takes.                                                      *)
(***************************************************************************)
MarkIsAnswered ==
  \A q \in RouteCalls :
    LET r == request[q] IN
    r.op = "mark" /\ r.at = "done" /\ r.answer \in RunStatuses \cup {"idle"} =>
      \E k \in DOMAIN streams[r.on] :
        /\ streams[r.on][k] = EventBy("run", r.arg, q)
        /\ k <= RouteReadLimit =>
             \E j \in k..Len(streams[r.on]) : streams[r.on][j].kind = "run" /\ streams[r.on][j].arg = r.answer

(***************************************************************************)
(* An import that was answered has carried over the user's and the         *)
(* assistant's messages of the export in their order, each once, behind    *)
(* the creation of its session; what others append there meanwhile only    *)
(* comes in between.  The snapshot of a compaction is not carried over.    *)
(***************************************************************************)
ImportCarriesTalk ==
  \A q \in RouteCalls :
    LET r     == request[q]
        mine  == ItemsAt(streams[r.on], {k \in DOMAIN streams[r.on] : streams[r.on][k].by = q})
        heard == ItemsAt(r.body, {k \in DOMAIN r.body : r.body[k].role # "system"}) IN
    r.op = "import" /\ r.at = "done" =>
      /\ mine[1] = EventBy("created", 0, q) /\ streams[r.on][1] = mine[1]
      /\ Len(mine) = Len(heard) + 1
      /\ \A k \in 1..Len(heard) :
           mine[k + 1].kind = IF heard[k].role = "user" THEN "prompt" ELSE "text"

\* The messages but for snapshots, and one as it is a number further on.
HeardIn(talk) == {k \in DOMAIN talk : talk[k].role # "system"}
Heard(talk)   == {talk[k] : k \in HeardIn(talk)}
Later(m)      == [m EXCEPT !.number = @ + 1, !.text = @ + 1]

(***************************************************************************)
(* A fork that was answered is deleted and marked as its source was when   *)
(* it was read, its messages are in the order of their numbers, and they   *)
(* are those of the source.  Without reverts and compactions, whatever was *)
(* edited: each with the next number, and unreadable when the source was.  *)
(* Reverts and compactions go by numbers, which the fork has one higher:   *)
(* without edits and removals, a message that the fork lacks is one that a *)
(* revert of the source went back to, and one that it has too many is one  *)
(* right before the baseline of a compaction of the source.                *)
(* Left out are forks in which others have appended between their creation *)
(* and the replay, and sources that are longer than a read of the fork.    *)
(***************************************************************************)
ForkShowsSource ==
  \A q \in RouteCalls :
    LET r       == request[q]
        mine    == SubSeq(streams[r.on], 1, Len(r.body) + 1)
        from    == ViewOf(r.body)
        to      == ViewOf(mine)
        same    == {Later(m) : m \in Heard(from.talk)}
        shown   == Heard(to.talk)
        NoneOf(kinds) == \A k \in DOMAIN r.body : r.body[k].kind \notin kinds
        OneOf(kind, arg) == \E k \in DOMAIN r.body : r.body[k].kind = kind /\ r.body[k].arg = arg IN
    /\ r.op = "fork" /\ r.at = "done" /\ r.body # <<>> /\ Len(r.body) < RouteReadLimit
    /\ \A k \in 1..Len(mine) : mine[k].by = q
    => /\ to.gone = from.gone /\ to.run = from.run
       /\ \A i, j \in HeardIn(to.talk) : i < j => to.talk[i].number < to.talk[j].number
       /\ NoneOf({"compaction", "reverted"}) =>
            /\ to.talk = [k \in DOMAIN from.talk |-> Later(from.talk[k])]
            /\ to.broken = from.broken
       /\ NoneOf({"edited", "removed"}) =>
            /\ \A m \in same \ shown : OneOf("reverted", m.number - 1)
            /\ \A m \in shown \ same : OneOf("compaction", m.number)
=============================================================================
