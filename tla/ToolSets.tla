------------------------------ MODULE ToolSets ------------------------------
(***************************************************************************)
(* Which tools an agent has and what becomes of a call: the registry with  *)
(* its two scopes (ToolRegistryV2), the agents built from it with the      *)
(* saved rules of the moment (app/factory.py, AgentV2), the mentions of    *)
(* tools in a user's text (SubAgentOrchestrator), and the older registries *)
(* behind the adapter of the old providers and SessionRunner.              *)
(*                                                                         *)
(* Settling a call changes nothing here, so it is an operator; the rounds  *)
(* of an agent are AgentLoop.tla, the tools in Terminals.tla and others.   *)
(***************************************************************************)
EXTENDS Integers, Sequences, FiniteSetsExt, Lists

CONSTANTS
  ToolNames,       \* the tools there are
  StandardTools,   \* those of create_tool_registry
  ToolAgents,      \* agents
  MaxSaved,        \* bound of the model: rules that are saved
  MaxDraft         \* bound of the model: words and mentions in a user's text

ASSUME ToolSetsAssumption == StandardTools \subseteq ToolNames /\ MaxSaved \in Nat /\ MaxDraft \in Nat

VARIABLES
  toolbox,   \* [ToolNames -> the scope of the tool, or "none"]
  savedRules, \* the global rules, in the order of their ids
  crew,      \* [ToolAgents -> what the agent was built with]
  draft      \* the text of a user: words, and mentions by the length of their results

toolVars == <<toolbox, savedRules, crew, draft>>

SavedRule == [about : ToolNames \cup {"*"}, effect : {"allow", "deny"}]

Unbuilt == [at |-> "none", rules |-> <<>>, tools |-> {}, denied |-> {}, mentioned |-> {}]

ToolInit ==
  /\ toolbox = [t \in ToolNames |-> IF t \in StandardTools THEN "application" ELSE "none"]
  /\ savedRules = <<>>
  /\ crew = [g \in ToolAgents |-> Unbuilt]
  /\ draft = <<>>

ToolTypeOK ==
  /\ toolbox \in [ToolNames -> {"none", "application", "location"}]
  /\ savedRules \in Seq(SavedRule) /\ Len(savedRules) <= MaxSaved
  /\ \A g \in ToolAgents :
       /\ crew[g].at \in {"none", "loaded", "built"} /\ crew[g].rules \in Seq(SavedRule)
       /\ crew[g].tools \cup crew[g].denied \cup crew[g].mentioned \subseteq ToolNames
  /\ draft \in Seq(0..3)
-----------------------------------------------------------------------------
(***************************************************************************)
(* The registry.  A name that any scope has raises; what discovers tools   *)
(* of plugins skips such a tool.                                           *)
(***************************************************************************)
ListTools == {t \in ToolNames : toolbox[t] # "none"}

RegisterTool(t, scope) ==
  /\ toolbox[t] = "none"
  /\ toolbox' = [toolbox EXCEPT ![t] = scope]
  /\ UNCHANGED <<savedRules, crew, draft>>

\* evaluate and is_allowed of PermissionV2, about the resource "*".
IsAllowed(rules, t) ==
  LET matching == {k \in DOMAIN rules : rules[k].about \in {t, "*"}} IN
  matching # {} /\ rules[Max(matching)].effect = "allow"

\* Without rules nothing is filtered.
Permitted(rules, names) == IF rules = <<>> THEN names ELSE {t \in names : IsAllowed(rules, t)}

(***************************************************************************)
(* The rules, and the agents.  A chat loads the rules and awaits the saved *)
(* configuration before it builds its agent; a stream, a title and the     *)
(* command line build theirs without rules.                                *)
(***************************************************************************)
SaveRule ==
  /\ Len(savedRules) < MaxSaved
  /\ \E r \in SavedRule : savedRules' = Append(savedRules, r)
  /\ UNCHANGED <<toolbox, crew, draft>>

ClearSaved == savedRules' = <<>> /\ UNCHANGED <<toolbox, crew, draft>>

\* load_permission_rules: None if there are none, which filters nothing either.
LoadRules(g) ==
  /\ crew[g].at = "none"
  /\ \E rules \in {savedRules, <<>>} : crew' = [crew EXCEPT ![g].at = "loaded", ![g].rules = rules]
  /\ UNCHANGED <<toolbox, savedRules, draft>>

\* The agent materializes its tools once, and those of mentions without rules.
Materialize(g) ==
  /\ crew[g].at = "loaded"
  /\ crew' = [crew EXCEPT ![g].at = "built",
                          ![g].tools = Permitted(crew[g].rules, ListTools),
                          ![g].denied = ListTools \ Permitted(crew[g].rules, ListTools),
                          ![g].mentioned = ListTools]
  /\ UNCHANGED <<toolbox, savedRules, draft>>
-----------------------------------------------------------------------------
(***************************************************************************)
(* What becomes of a call: args is what validation and the tool make of    *)
(* its arguments, "invalid", "raises" or the success of its result.        *)
(***************************************************************************)
Arguments == {"invalid", "raises", "fails", "succeeds"}

Executed(args) == IF args = "raises" THEN "error" ELSE args

SettleIn(tools, denied, t, args) ==
  CASE t \in denied                      -> "denied"
    [] t \notin denied /\ t \notin tools -> "unknown"
    [] t \notin denied /\ t \in tools    -> Executed(args)

Settle(g, t, args)        == SettleIn(crew[g].tools, crew[g].denied, t, args)
SettleMention(g, t, args) == SettleIn(crew[g].mentioned, {}, t, args)

\* ToolRegistry.materialize, for the names asked for, and its settle.
SettleSubset(names, t, args) == IF t \in names \cap ListTools THEN Executed(args) ELSE "unknown"

\* _settle_one of the adapter: a failing validation is formatted as an error
\* of the tool.
SettleOne(t, args) ==
  IF t \notin ListTools THEN "unknown" ELSE IF args = "invalid" THEN "error" ELSE Executed(args)

\* ToolRuntime: handlers take any arguments, and what they return is a result.
Dispatch(t, args) ==
  IF t \notin ListTools THEN "unknown"
  ELSE IF args \in {"invalid", "raises"} THEN "error" ELSE "succeeds"

(***************************************************************************)
(* A call as a provider writes it.  Its arguments are an object, the JSON  *)
(* of an object, of something else, or none, a blank or broken text, or a  *)
(* value of another type.                                                  *)
(***************************************************************************)
Written == {"object", "json", "json-other", "missing", "blank", "broken", "other"}
RawCalls == [function : {"object", "none"}, name : ToolNames \cup {"none"}, arguments : Written]

ParsedCall(name, args, error) == [name |-> name, args |-> args, error |-> error]

\* The fields of a call without a function are its own.
ParseToolCall(raw) ==
  CASE raw.name = "none" -> ParsedCall("none", "none", "no name")
    [] raw.name # "none" /\ raw.arguments \in {"missing", "blank"} -> ParsedCall(raw.name, "empty", "none")
    [] raw.name # "none" /\ raw.arguments \in {"object", "json"}   -> ParsedCall(raw.name, "given", "none")
    [] OTHER -> ParsedCall(raw.name, "none", "bad arguments")

\* Broken arguments become arguments themselves, those of another type none.
ToolCallFromResult(raw) ==
  [name |-> IF raw.function = "object" THEN raw.name ELSE "none",
   args |-> CASE raw.function = "none" \/ raw.arguments \in {"missing", "blank", "other"} -> "empty"
              [] OTHER -> IF raw.arguments = "broken" THEN "wrapped"
                          ELSE IF raw.arguments = "json-other" THEN "other" ELSE "given"]
-----------------------------------------------------------------------------
(***************************************************************************)
(* Mentions of tools in a text.  The text is a sequence of places: a word  *)
(* has one and is 0 in draft, a mention two, its result what draft says.   *)
(* The mentions are replaced from the last to the first, at their places   *)
(* shifted by what the replacements so far have added.                     *)
(***************************************************************************)
IsMention(k) == draft[k] # 0

Place(k, what) == [item |-> k, what |-> what]

PlacesOf(k)  == IF IsMention(k) THEN <<Place(k, "mention"), Place(k, "mention")>> ELSE <<Place(k, "word")>>
ResultOf(k)  == [i \in 1..draft[k] |-> Place(k, "result")]
TextBefore(k) == Joined([i \in 1..(k - 1) |-> PlacesOf(i)])

\* An index of a slice: negative ones count from the end.
SliceIndex(text, i) == IF i < 0 THEN Max({0, Len(text) + i}) ELSE Min({i, Len(text)})

Spliced(text, from, to, new) ==
  SubSeq(text, 1, SliceIndex(text, from)) \o new \o SubSeq(text, SliceIndex(text, to) + 1, Len(text))

ReplaceMention(k, done) ==
  IF ~IsMention(k) THEN done
  ELSE LET start == Len(TextBefore(k)) + done.offset IN
       [text |-> Spliced(done.text, start, start + 2, ResultOf(k)),
        offset |-> done.offset + draft[k] - 2]

\* What there is when the last j items have been looked at.
Replaced ==
  LET done[j \in 0..Len(draft)] ==
        IF j = 0 THEN [text |-> TextBefore(Len(draft) + 1), offset |-> 0]
        ELSE ReplaceMention(Len(draft) + 1 - j, done[j - 1]) IN
  done

ProcessMentions == Replaced[Len(draft)].text

Write(item) ==
  /\ Len(draft) < MaxDraft
  /\ draft' = Append(draft, item)
  /\ UNCHANGED <<toolbox, savedRules, crew>>
-----------------------------------------------------------------------------
ToolNext ==
  \/ SaveRule \/ ClearSaved
  \/ \E t \in ToolNames : \E scope \in {"application", "location"} : RegisterTool(t, scope)
  \/ \E g \in ToolAgents : LoadRules(g) \/ Materialize(g)

MentionNext == \E item \in 0..3 : Write(item)

ToolSpec == ToolInit /\ [][ToolNext \/ MentionNext]_toolVars
-----------------------------------------------------------------------------
\* Whatever is saved, cleared and registered between the load of the rules and
\* the end of the run: a tool is executed for the model if it was told of it,
\* a tool that the loaded rules deny is not, an allowed one that existed is,
\* and a call of one that came later or never existed is answered as well.
CallsObeyRules ==
  \A g \in ToolAgents : crew[g].at = "built" =>
    \A t \in ToolNames :
      LET rules   == crew[g].rules
          about   == {k \in DOMAIN rules : rules[k].about \in {t, "*"}}
          allowed == rules = <<>> \/ \E k \in about : /\ rules[k].effect = "allow"
                                                     /\ \A j \in about : j <= k IN
      /\ \A args \in Arguments :
           /\ Settle(g, t, args) \in {"succeeds", "fails", "error", "invalid"} =>
                t \in crew[g].tools /\ allowed /\ t \in ListTools
           /\ Settle(g, t, args) = "denied" => ~allowed /\ t \in ListTools
           /\ allowed => SettleMention(g, t, args) = Settle(g, t, args)
      /\ crew[g].tools \cap crew[g].denied = {}

\* The old registries answer as an agent without rules does, but that the
\* adapter and the runtime call a failed validation an error, and that the
\* runtime takes every answer of a handler for a success; and the two parsers
\* agree on the calls of a function that both can read.
RegistriesAgree ==
  /\ \A g \in ToolAgents : crew[g].at = "built" /\ crew[g].rules = <<>> =>
       \A t \in crew[g].tools, args \in Arguments :
         LET answer == Settle(g, t, args) IN
         /\ SettleSubset(crew[g].tools, t, args) = answer
         /\ SettleOne(t, args) = IF answer = "invalid" THEN "error" ELSE answer
         /\ Dispatch(t, args) \in {"succeeds", "error"}
         /\ answer = "succeeds" => Dispatch(t, args) = "succeeds"
  /\ \A raw \in RawCalls :
       LET call == ParseToolCall(raw) IN
       raw.function = "object" /\ call.error = "none" =>
         ToolCallFromResult(raw) = [name |-> call.name, args |-> call.args]

\* A mention is replaced where it stands and nothing around it changes, as
\* long as it is the only one or every result is as long as its mention.
MentionsInPlace ==
  LET mentions == {k \in DOMAIN draft : IsMention(k)} IN
  Cardinality(mentions) <= 1 \/ (\A k \in mentions : draft[k] = 2) =>
    ProcessMentions = Joined([k \in DOMAIN draft |-> IF IsMention(k) THEN ResultOf(k) ELSE PlacesOf(k)])
=============================================================================
