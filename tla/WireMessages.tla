---------------------------- MODULE WireMessages ----------------------------
(***************************************************************************)
(* What the four adapters make of the messages of a turn when they build   *)
(* the request: _build_request and _serialize_* of llm/protocols/*.py and  *)
(* _to_old_messages of llm/adapters/legacy.py.                             *)
(*                                                                         *)
(* A message is a role and parts, a part is a type and what it is about:   *)
(* the number of a text, a medium or a call.  An entry of a request is the *)
(* role it is sent under and the parts that it carries.                    *)
(***************************************************************************)
EXTENDS Integers, Sequences, Functions, Lists

CONSTANT MaxMessages  \* bound of the model: messages in a turn

ASSUME WireAssumption == MaxMessages \in Nat

VARIABLE conversation  \* the messages of the turn, as the agent loop collects them

wireVars == conversation

PartOf(type, n)     == [type |-> type, n |-> n]
Message(role, ps)   == [role |-> role, parts |-> ps]
Entry(role, ps)     == [role |-> role, parts |-> ps]

TextTypes == {"system", "text", "reasoning"}
PartTypes == TextTypes \cup {"image", "file", "tool-call", "tool-result"}

IsMedium(p) == p.type \in {"image", "file"}
IsCall(p)   == p.type = "tool-call"
IsResult(p) == p.type = "tool-result"

\* The parts of some types.
Those(types) == [type : types, n : Nat]

WireInit == conversation = <<>>

WireTypeOK ==
  /\ Len(conversation) <= MaxMessages
  /\ \A i \in DOMAIN conversation :
       /\ conversation[i].role \in {"system", "user", "assistant", "tool"}
       /\ \A k \in DOMAIN conversation[i].parts :
            conversation[i].parts[k] \in [type : PartTypes, n : 1..(2 * MaxMessages)]
-----------------------------------------------------------------------------
(***************************************************************************)
(* How a conversation grows: the constructors of schema/messages.py, the   *)
(* attachments of a user, and the agent loop, which answers every call.    *)
(***************************************************************************)
NextNumber == 2 * Len(conversation) + 1    \* two numbers for every message

Unanswered ==
  {p \in UNION {Range(conversation[i].parts) : i \in DOMAIN conversation} :
     IsCall(p) /\ \A i \in DOMAIN conversation : PartOf("tool-result", p.n) \notin Range(conversation[i].parts)}

Speak(role, ps) ==
  /\ Len(conversation) < MaxMessages
  /\ conversation' = Append(conversation, Message(role, ps))

SystemSays == Unanswered = {} /\ Speak("system", <<PartOf("system", NextNumber)>>)

UserSays ==
  /\ Unanswered = {}
  /\ \/ Speak("user", <<PartOf("text", NextNumber)>>)
     \/ \E type \in {"image", "file"} : Speak("user", <<PartOf("text", NextNumber), PartOf(type, NextNumber + 1)>>)

\* Calls with or without a text before them.
AssistantSays ==
  /\ Unanswered = {}
  /\ \/ Speak("assistant", <<PartOf("text", NextNumber)>>)
     \/ Speak("assistant", <<PartOf("text", NextNumber), PartOf("tool-call", NextNumber + 1)>>)
     \/ Speak("assistant", <<PartOf("tool-call", NextNumber), PartOf("tool-call", NextNumber + 1)>>)

\* The calls of a message are settled in their order.
ToolSays ==
  \E p \in Unanswered :
    /\ \A q \in Unanswered : p.n <= q.n
    /\ Speak("tool", <<PartOf("tool-result", p.n)>>)

WireNext == SystemSays \/ UserSays \/ AssistantSays \/ ToolSays
WireSpec == WireInit /\ [][WireNext]_wireVars
-----------------------------------------------------------------------------
(***************************************************************************)
(* Chat completions.  A file that is no image is only mentioned.           *)
(***************************************************************************)
Content(m) == Only(m.parts, Those(TextTypes))    \* Message.content

SerializeUser(m) == Entry("user", Only(m.parts, Those({"text", "image"})))

SerializeAssistant(m) == Entry("assistant", Content(m) \o Only(m.parts, Those({"tool-call"})))

\* Every result of a message is an entry of its own.
ResultEntries(role, m) ==
  LET results == Only(m.parts, Those({"tool-result"})) IN
  [k \in DOMAIN results |-> Entry(role, <<results[k]>>)]

ChatEntries(m) ==
  CASE m.role = "system"    -> <<Entry("system", Content(m))>>
    [] m.role = "user"      -> <<SerializeUser(m)>>
    [] m.role = "assistant" -> <<SerializeAssistant(m)>>
    [] m.role = "tool"      -> ResultEntries("tool", m)

(***************************************************************************)
(* Anthropic: the system messages are joined into one field of the request *)
(* (here an entry before the others), results are messages of the user.    *)
(***************************************************************************)
ExtractSystem(ms) ==
  Joined([i \in DOMAIN ms |-> IF ms[i].role = "system" THEN Content(ms[i]) ELSE <<>>])

AnthropicEntries(m) ==
  CASE m.role = "system"    -> <<>>
    [] m.role = "user"      -> <<Entry("user", Only(m.parts, Those({"text", "image", "file"})))>>
    [] m.role = "assistant" -> <<Entry("assistant", Only(m.parts, Those({"text", "tool-call"})))>>
    [] m.role = "tool"      -> ResultEntries("user", m)

(***************************************************************************)
(* Responses: with a medium or a reasoning the parts are carried one by    *)
(* one, else the texts are joined.  The types it looks for are written tool_call and     *)
(* tool_result, those of the parts tool-call and tool-result, so that such *)
(* a part is left out.                                                     *)
(***************************************************************************)
ResponsesEntry(m) ==
  LET apart == \E k \in DOMAIN m.parts : IsMedium(m.parts[k]) \/ m.parts[k].type = "reasoning" IN
  Entry(m.role, IF apart THEN m.parts ELSE Content(m))

(***************************************************************************)
(* Legacy: the text parts and the calls; a system part is no text part.    *)
(***************************************************************************)
OldMessage(m) == Entry(m.role, Only(m.parts, Those({"text", "tool-call"})))

ChatPayload(ms)      == Joined([i \in DOMAIN ms |-> ChatEntries(ms[i])])
AnthropicPayload(ms) == <<Entry("system", ExtractSystem(ms))>>
                          \o Joined([i \in DOMAIN ms |-> AnthropicEntries(ms[i])])
ResponsesPayload(ms) == [i \in DOMAIN ms |-> ResponsesEntry(ms[i])]
OldMessages(ms)      == [i \in DOMAIN ms |-> OldMessage(ms[i])]

RequestOf(protocol, ms) ==
  CASE protocol = "chat"      -> ChatPayload(ms)
    [] protocol = "anthropic" -> AnthropicPayload(ms)
    [] protocol = "responses" -> ResponsesPayload(ms)
    [] protocol = "legacy"    -> OldMessages(ms)

Carried(entries) == Joined([i \in DOMAIN entries |-> entries[i].parts])
-----------------------------------------------------------------------------
AllParts == Joined([i \in DOMAIN conversation |-> conversation[i].parts])

\* What the model must see, but for the files, which chat only mentions, and
\* in the order of the conversation: with anthropic behind the system texts.
\* The adapters of the responses API and of the old providers keep what is
\* said, and no results; the old providers are not told the system's texts.
PartsReachModel ==
  /\ Carried(RequestOf("chat", conversation)) = Only(AllParts, Those(PartTypes \ {"file"}))
  /\ Carried(RequestOf("anthropic", conversation)) =
       Only(AllParts, Those({"system"})) \o Only(AllParts, Those(PartTypes \ {"system"}))
  /\ \A protocol \in {"responses", "legacy"} :
       Only(Carried(RequestOf(protocol, conversation)), Those({"text"})) = Only(AllParts, Those({"text"}))

\* A result is sent after the call that it answers, under a role of its own,
\* and once; the apis refuse a request in which it is not.
ResultsAnswerCalls ==
  \A protocol \in {"chat", "anthropic"} :
    LET entries == RequestOf(protocol, conversation) IN
    \A i \in DOMAIN entries : \A k \in DOMAIN entries[i].parts :
      LET p == entries[i].parts[k] IN
      IsResult(p) =>
        /\ entries[i] = Entry(IF protocol = "chat" THEN "tool" ELSE "user", <<p>>)
        /\ \E j \in 1..(i - 1) : entries[j].role = "assistant"
                                   /\ PartOf("tool-call", p.n) \in Range(entries[j].parts)
        /\ \A j \in DOMAIN entries : p \in Range(entries[j].parts) => j = i
=============================================================================
