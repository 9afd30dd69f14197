------------------------------ MODULE PlainChat ------------------------------
(***************************************************************************)
(* A chat that is answered as a whole: POST /chat and the chat messages of *)
(* a WebSocket (chat, _handle_chat, _ws_chat_handler in server/app.py).    *)
(* Nothing serializes these calls: they run beside each other, beside the  *)
(* streams of ChatStream.tla and beside the requests of SessionRoutes.tla, *)
(* and interleave wherever one of them awaits.                             *)
(*                                                                         *)
(* The agent is the loop "agent" of AgentLoop.tla with an async on_event;  *)
(* its events that end up in the store are those it reports while the      *)
(* model answers, since it awaits no others.  Projection, compaction and   *)
(* what the context is built from are MessageTable.tla, SessionHistory.tla *)
(* and TurnContext.tla.                                                    *)
(***************************************************************************)
EXTENDS Integers, Sequences, SequencesExt, FiniteSets

CONSTANTS
  PlainCalls,      \* the calls of the chat
  SocketCalls,     \* those that come through a WebSocket
  MaxPlainRounds,  \* max_tool_rounds
  PlainReadLimit,  \* 1000: the events that read() returns at most
  MaxRenames       \* bound of the model: titles that the user gives

Existing  == "existing"   \* a session that has been created
ByUser    == "user"

ASSUME PlainAssumption ==
  /\ SocketCalls \subseteq PlainCalls /\ {Existing, ByUser} \cap PlainCalls = {}
  /\ {MaxPlainRounds, PlainReadLimit} \subseteq Nat \ {0} /\ MaxRenames \in Nat

SessionKeys == {Existing} \cup PlainCalls   \* a call without an id creates a session

VARIABLES
  journal,   \* [SessionKeys -> the events of the session]
  plain,     \* [PlainCalls -> what the handler of the call holds]
  replies      \* [PlainCalls -> the messages its client has received]

plainVars == <<journal, plain, replies>>

Entered(kind, by) == [kind |-> kind, by |-> by]

Unasked == [at |-> "new", session |-> Existing, seen |-> 0, named |-> FALSE,
            round |-> 0, text |-> FALSE, calls |-> FALSE, told |-> FALSE]

PlainInit ==
  /\ journal = [s \in SessionKeys |-> IF s = Existing THEN <<Entered("created", ByUser)>> ELSE <<>>]
  /\ plain = [c \in PlainCalls |-> Unasked]
  /\ replies = [c \in PlainCalls |-> <<>>]

\* A title, and one that counts as none: "", "New Session", "New Chat".  A
\* session is created with such a one; one with a title is renamed at once here.
Titles == {"title", "default"}
StoredEvents == [kind : {"created", "prompt", "text", "error"} \cup Titles, by : PlainCalls \cup {ByUser}]

PlainTypeOK ==
  /\ journal \in [SessionKeys -> Seq(StoredEvents)]
  /\ plain \in [PlainCalls -> [at : {"new", "checked", "loaded", "asking", "titling", "returned"},
                               session : SessionKeys, seen : Nat,
                               named : BOOLEAN, round : 0..MaxPlainRounds, text : BOOLEAN,
                               calls : BOOLEAN, told : BOOLEAN]]
  /\ replies \in [PlainCalls -> Seq({"ack", "200", "400", "404", "500"})]
-----------------------------------------------------------------------------
Moves(c, held) == plain' = [plain EXCEPT ![c] = held]
Hears(c, what) == replies' = [replies EXCEPT ![c] = Append(@, what)]

\* The handler is over, its local state is gone.
Ends(c) ==
  Moves(c, [plain[c] EXCEPT !.at = "returned", !.round = 0, !.text = FALSE, !.calls = FALSE, !.named = FALSE])

\* _project_events: to the end of the session that the handler has loaded.
Enters(c, kind) == journal' = [journal EXCEPT ![plain[c].session] = Append(@, Entered(kind, c))]

(***************************************************************************)
(* The request.                                                            *)
(***************************************************************************)
\* An empty message is refused by the endpoint, and accepted from a
\* WebSocket; an id that no event belongs to is refused by _handle_chat.  A
\* WebSocket is told of its answer, or of an error, behind an ack.
Acked(c) == IF c \in SocketCalls THEN <<"ack">> ELSE <<>>

Refused4xx(c, status) ==
  /\ plain[c].at = "new"
  /\ status = "400" => c \notin SocketCalls
  /\ Ends(c)
  /\ replies' = [replies EXCEPT ![c] = Append(Acked(c), status)]
  /\ UNCHANGED journal

\* With the id of a session, or without one.
BeginsChat(c, s) ==
  /\ plain[c].at = "new" /\ s \in {Existing, c}
  /\ Moves(c, [plain[c] EXCEPT !.at = "checked", !.session = s])
  /\ replies' = [replies EXCEPT ![c] = Acked(c)]
  /\ UNCHANGED journal

\* The first n events, as far as they are read, leave the session with a title.
Named(events, n) ==
  \E i \in 1..n : /\ i <= PlainReadLimit /\ events[i].kind = "title"
                 /\ \A k \in 1..n : k <= PlainReadLimit /\ events[k].kind \in Titles => k <= i

\* _get_or_create_session.  The title is looked at in this state only.
LoadsSession(c) ==
  LET events == journal[plain[c].session] IN
  /\ plain[c].at = "checked"
  /\ IF events = <<>> THEN Enters(c, "created") ELSE UNCHANGED journal
  /\ Moves(c, [plain[c] EXCEPT !.at = "loaded", !.seen = Len(events),
                               !.named = Named(events, Len(events))])
  /\ UNCHANGED replies

\* The messages for the model are built before the prompt is stored.
AdmitsPrompt(c) ==
  /\ plain[c].at = "loaded"
  /\ Enters(c, "prompt")
  /\ Moves(c, [plain[c] EXCEPT !.at = "asking"])
  /\ UNCHANGED replies

(***************************************************************************)
(* The events of the agent that on_event stores.                           *)
(***************************************************************************)
ModelSpeaks(c) ==
  /\ plain[c].at = "asking" /\ ~plain[c].text
  /\ Enters(c, "text")
  /\ Moves(c, [plain[c] EXCEPT !.text = TRUE, !.told = TRUE])
  /\ UNCHANGED replies

\* step.started and the calls are stored in the same way; the model leaves
\* their events out.
ModelCalls(c) ==
  /\ plain[c].at = "asking" /\ ~plain[c].calls
  /\ Moves(c, [plain[c] EXCEPT !.calls = TRUE])
  /\ UNCHANGED <<journal, replies>>

\* The stream of the model breaks: the response is the error's text.
ModelFails(c) ==
  /\ plain[c].at = "asking"
  /\ Enters(c, "error")
  /\ Moves(c, [plain[c] EXCEPT !.at = "titling"])
  /\ UNCHANGED replies

\* The end of a round: calls are settled, or the model is asked once more
\* without a stream if it said nothing.  Neither the results nor that answer
\* are stored, since on_event is not awaited for them.
RoundEnds(c) ==
  LET settles == plain[c].calls IN
  /\ plain[c].at = "asking"
  /\ Moves(c, [plain[c] EXCEPT
                 !.at = IF settles /\ plain[c].round + 1 < MaxPlainRounds THEN "asking" ELSE "titling",
                 !.round = IF settles THEN @ + 1 ELSE @, !.text = FALSE, !.calls = FALSE])
  /\ UNCHANGED <<journal, replies>>

(***************************************************************************)
(* The end.                                                                *)
(***************************************************************************)
\* A session without a title gets one, by the model or from the message, and
\* the client its answer.
Answers(c) ==
  /\ plain[c].at = "titling"
  /\ IF plain[c].named THEN UNCHANGED journal ELSE \E title \in Titles : Enters(c, title)
  /\ Ends(c) /\ Hears(c, "200")

\* Whatever raises on the way, the store, the configuration or the agent.
HandlerFails(c) ==
  /\ plain[c].at \notin {"new", "returned"}
  /\ Ends(c) /\ Hears(c, "500")
  /\ UNCHANGED journal

\* PATCH of a session by its user.
Renames ==
  /\ Cardinality({i \in DOMAIN journal[Existing] : /\ journal[Existing][i].by = ByUser
                                                  /\ journal[Existing][i].kind \in Titles}) < MaxRenames
  /\ \E title \in Titles : journal' = [journal EXCEPT ![Existing] = Append(@, Entered(title, ByUser))]
  /\ UNCHANGED <<plain, replies>>

PlainNext ==
  \/ \E c \in PlainCalls :
       \/ \E status \in {"400", "404"} : Refused4xx(c, status)
       \/ \E s \in SessionKeys : BeginsChat(c, s)
       \/ LoadsSession(c) \/ AdmitsPrompt(c) \/ ModelSpeaks(c) \/ ModelCalls(c) \/ ModelFails(c)
       \/ RoundEnds(c) \/ Answers(c) \/ HandlerFails(c)
  \/ Renames

PlainSpec == PlainInit /\ [][PlainNext]_plainVars
-----------------------------------------------------------------------------
\* The places of the events of a call in a session, and of those of one kind.
EventsBy(c, events)     == {i \in DOMAIN events : events[i].by = c}
OfKind(c, events, kind) == {i \in EventsBy(c, events) : events[i].kind = kind}

\* An answer that was streamed is in the session that the client asked about,
\* behind the prompt it answers, and nothing of the call is anywhere else; a
\* refused call leaves nothing behind; a client hears of one outcome.
AnswersAreKept ==
  \A c \in PlainCalls :
    LET events == journal[plain[c].session]
        own    == EventsBy(c, events) IN
    /\ \A s \in SessionKeys \ {plain[c].session} : EventsBy(c, journal[s]) = {}
    /\ Last(<<"none">> \o replies[c]) = "200" =>
         /\ \E p \in own : /\ OfKind(c, events, "prompt") = {p}
                           /\ \A i \in own : i < p => events[i].kind = "created"
         /\ plain[c].told <=> OfKind(c, events, "text") # {}
    /\ Last(<<"none">> \o replies[c]) \in {"400", "404"} => own = {}
    /\ Cardinality({k \in DOMAIN replies[c] : replies[c][k] # "ack"}) = IF plain[c].at = "returned" THEN 1 ELSE 0

\* A title that the session had when the call loaded it is not replaced by a
\* generated one, if read() returned its event and it does not count as none.
UserTitleKept ==
  \A c \in PlainCalls : \A i \in DOMAIN journal[plain[c].session] :
    LET events == journal[plain[c].session] IN
    events[i].by = c /\ events[i].kind \in Titles => ~Named(events, plain[c].seen)
=============================================================================
