---------------------------- MODULE Permissions ----------------------------
(***************************************************************************)
(* Permission rules and the questions behind them: the table saved_rules   *)
(* with its global and its session rules (SavedRules), the queue of        *)
(* requests a user replies to (SessionPermission), and the questions whose *)
(* answer may carry always_allow (QuestionRegistry and its endpoints).     *)
(*                                                                         *)
(* A rule is about everything, about the resource the requests are about,  *)
(* or about something else; its place in the table stands for its id,      *)
(* which the database never reuses and an update keeps.  The statement of  *)
(* a save and its commit are one step when nothing fails: a reader on the  *)
(* same connection sees the row from the statement on.                     *)
(***************************************************************************)
EXTENDS Integers, SequencesExt, Lists

CONSTANTS
  PermSessions,   \* sessions
  Asks,           \* the requests and questions of a run
  MaxRules        \* bound of the model: rows of the table

Global  == "global"
Effects == {"allow", "deny"}

\* A rule without a session is global.
ASSUME PermAssumption == Global \notin PermSessions

Rules   == [session : PermSessions \cup {Global}, about : {"all", "it", "else"}, effect : Effects]

VARIABLES
  rules,     \* the rows in the order of their ids
  asked,     \* [Asks -> where the request or question stands]
  asker,     \* [Asks -> its session]
  waiter,    \* [Asks -> what became of the task that awaits the question]
  ruling     \* [PermSessions -> the effect of the last reply that was stored]

permVars == <<rules, asked, asker, waiter, ruling>>

PermInit ==
  /\ rules = <<>>
  /\ asked = [a \in Asks |-> "new"] /\ asker \in [Asks -> PermSessions]
  /\ waiter = [a \in Asks |-> "none"]
  /\ ruling = [s \in PermSessions |-> "none"]

PermTypeOK ==
  /\ rules \in Seq(Rules)
  /\ asked \in [Asks -> {"new", "request", "question", "replying", "storing", "done", "lost"}]
  /\ asker \in [Asks -> PermSessions]
  /\ waiter \in [Asks -> {"none", "waiting", "resolved", "answered", "rejected", "cancelled"}]
  /\ ruling \in [PermSessions -> Effects \cup {"none"}]
-----------------------------------------------------------------------------
(***************************************************************************)
(* Evaluation: the global rules first, then those of the session; the last *)
(* that matches decides.                                                   *)
(***************************************************************************)
Matching(rows, scope) ==
  {i \in DOMAIN rows : rows[i].session = scope /\ rows[i].about \in {"all", "it"}}

\* Mutant of InForce: all matching rows in the order of the table.
InForceByAge(rows, s) == Matching(rows, s) \cup Matching(rows, Global)

\* The rows of which the last decides: those of the session stand behind the
\* global ones.
InForce(rows, s) ==
  IF Matching(rows, s) # {} THEN Matching(rows, s) ELSE Matching(rows, Global)

Evaluate(s) ==
  LET places == InForce(rules, s) IN
  IF places = {} THEN "none" ELSE rules[Max(places)].effect
-----------------------------------------------------------------------------
(***************************************************************************)
(* SavedRules and the endpoints of permission-rules.  What a user does to  *)
(* the rules of a session by hand takes back the word of earlier replies.  *)
(***************************************************************************)
Unsettle(ss) == ruling' = [s \in PermSessions |-> IF s \in ss THEN "none" ELSE ruling[s]]

Save(rule) == Len(rules) < MaxRules /\ rules' = Append(rules, rule)

CreateRule ==
  /\ \E r \in Rules : r.session = Global /\ Save(r)
  /\ UNCHANGED <<asked, asker, waiter, ruling>>

\* delete_by_id, and update of any of the three fields, of the i-th row.
ChangeRule ==
  /\ \E i \in DOMAIN rules :
       /\ \/ rules' = ItemsAt(rules, DOMAIN rules \ {i})
          \/ \E r \in Rules : r.session = rules[i].session /\ rules' = [rules EXCEPT ![i] = r]
       /\ Unsettle({rules[i].session})
  /\ UNCHANGED <<asked, asker, waiter>>

\* clear_session_rules, and clear of everything.
ClearRules ==
  /\ \/ \E s \in PermSessions : /\ rules' = ItemsAt(rules, {i \in DOMAIN rules : rules[i].session # s})
                                /\ Unsettle({s})
     \/ rules' = <<>> /\ Unsettle(PermSessions)
  /\ UNCHANGED <<asked, asker, waiter>>
-----------------------------------------------------------------------------
(***************************************************************************)
(* SessionPermission.  reply() takes the request off the queue before it   *)
(* saves the rule, so a save that fails leaves neither.                    *)
(***************************************************************************)
AskPermission(a) ==
  /\ asked[a] = "new"
  /\ asked' = [asked EXCEPT ![a] = "request"]
  /\ UNCHANGED <<rules, asker, waiter, ruling>>

Reply(a) ==
  /\ asked[a] = "request"
  /\ \/ asked' = [asked EXCEPT ![a] = "done"]        \* ONCE
     \/ asked' = [asked EXCEPT ![a] = "replying"]    \* ALWAYS, REJECT
  /\ UNCHANGED <<rules, asker, waiter, ruling>>

\* save_session_rule of reply() has come to its end.
StoreReply(a) ==
  /\ asked[a] = "replying"
  /\ \E effect \in Effects :
       /\ Save([session |-> asker[a], about |-> "it", effect |-> effect])
       /\ ruling' = [ruling EXCEPT ![asker[a]] = effect]
  /\ asked' = [asked EXCEPT ![a] = "done"]
  /\ UNCHANGED <<asker, waiter>>

\* It raises: before the row is there, or at the commit, when the row stays in
\* the open transaction of the connection.
StoreFails(a) ==
  /\ asked[a] = "replying"
  /\ \/ UNCHANGED <<rules, ruling>>
     \/ \E effect \in Effects :
          /\ Save([session |-> asker[a], about |-> "it", effect |-> effect])
          /\ Unsettle({asker[a]})
  /\ asked' = [asked EXCEPT ![a] = "lost"]
  /\ UNCHANGED <<asker, waiter>>
-----------------------------------------------------------------------------
(***************************************************************************)
(* QuestionRegistry: one entry per question and the future a tool awaits.  *)
(***************************************************************************)
Register(a) ==
  /\ asked[a] = "new"
  /\ asked' = [asked EXCEPT ![a] = "question"]
  /\ waiter' = [waiter EXCEPT ![a] = "waiting"]
  /\ UNCHANGED <<rules, asker, ruling>>

\* resolve(): the entry is popped and the future gets its result.  The endpoint
\* saves the rule of always_allow afterwards and swallows what goes wrong.
Resolve(a) ==
  /\ asked[a] = "question"
  /\ \E next \in {"done", "storing"} : asked' = [asked EXCEPT ![a] = next]
  /\ waiter' = [waiter EXCEPT ![a] = IF @ = "waiting" THEN "resolved" ELSE @]
  /\ UNCHANGED <<rules, asker, ruling>>

StoreAlwaysAllow(a) ==
  /\ asked[a] = "storing"
  /\ \/ Save([session |-> Global, about |-> "all", effect |-> "allow"])
     \/ UNCHANGED rules
  /\ asked' = [asked EXCEPT ![a] = "done"]
  /\ UNCHANGED <<asker, waiter, ruling>>

\* The entries go, and their futures get a CancelledError.
Ended(as) ==
  /\ asked' = [a \in Asks |-> IF a \in as THEN "done" ELSE asked[a]]
  /\ waiter' = [a \in Asks |-> IF a \in as /\ waiter[a] = "waiting" THEN "rejected" ELSE waiter[a]]

\* reject() of one question, cancel_session() for all of a session.
Reject ==
  /\ \/ \E a \in Asks : asked[a] = "question" /\ Ended({a})
     \/ \E s \in PermSessions :
          LET mine == {a \in Asks : asked[a] = "question" /\ asker[a] = s} IN
          mine # {} /\ Ended(mine)
  /\ UNCHANGED <<rules, asker, ruling>>

\* The task that waits is cancelled: its future is, and register() drops the
\* entry.  When the result is there already it gets lost.
CancelWaiter(a) ==
  /\ waiter[a] \in {"waiting", "resolved"}
  /\ waiter' = [waiter EXCEPT ![a] = "cancelled"]
  /\ asked' = [asked EXCEPT ![a] = IF @ = "question" THEN "done" ELSE @]
  /\ UNCHANGED <<rules, asker, ruling>>

Resume(a) ==
  /\ waiter[a] = "resolved"
  /\ waiter' = [waiter EXCEPT ![a] = "answered"]
  /\ UNCHANGED <<rules, asked, asker, ruling>>
-----------------------------------------------------------------------------
PermNext ==
  \/ CreateRule \/ ChangeRule \/ ClearRules \/ Reject
  \/ \E a \in Asks : \/ AskPermission(a) \/ Reply(a) \/ StoreReply(a) \/ StoreFails(a)
                     \/ Register(a) \/ Resolve(a) \/ StoreAlwaysAllow(a)
                     \/ CancelWaiter(a) \/ Resume(a)

PermSpec == PermInit /\ [][PermNext]_permVars
-----------------------------------------------------------------------------
(***************************************************************************)
(* The last reply that was stored for a session decides its requests until *)
(* somebody edits the rules of the session: no global rule saved before or *)
(* after it, an always_allow of another session's question included,       *)
(* overrides it.                                                           *)
(***************************************************************************)
LastReplyDecides ==
  \A s \in PermSessions : ruling[s] # "none" => Evaluate(s) = ruling[s]

(***************************************************************************)
(* A task that waits for an answer has an entry a user can see and answer; *)
(* whichever of reply, rejection, interrupt and cancellation comes first.  *)
(***************************************************************************)
WaitersAreListed ==
  \A a \in Asks : waiter[a] = "waiting" => asked[a] = "question"
=============================================================================
