---------------------------- MODULE ModelStream ----------------------------
(***************************************************************************)
(* From the bytes of a provider to the events of the agent loop: the       *)
(* stream() of the four adapters.                                          *)
(*                                                                         *)
(*   chat       llm/protocols/openai_chat.py, an event stream              *)
(*   anthropic  llm/protocols/anthropic_messages.py                        *)
(*   responses  llm/protocols/openai_responses.py                          *)
(*   legacy     llm/adapters/legacy.py, on a completed answer              *)
(*                                                                         *)
(* The provider is external: it may send anything its protocol allows, in  *)
(* any order, after a finish reason too, and hang up at any point.  Every  *)
(* adapter translates what arrives in one step; a text is counted in its   *)
(* chunks, a call has the number in which the provider opened it.          *)
(***************************************************************************)
EXTENDS Integers, Sequences

CONSTANTS
  MaxChunks,      \* bound of the model: chunks of text in a stream
  MaxStreamCalls  \* bound of the model: tool calls in a stream

ASSUME ModelStreamAssumption == MaxChunks \in Nat /\ MaxStreamCalls \in Nat

Protocols == {"chat", "anthropic", "responses", "legacy"}

VARIABLES
  protocol,
  wireAt,    \* "request", then "open" until the provider or the adapter is done,
             \* or "finished": a finish reason came, and the adapter goes on
  chunks,    \* chunks of text received (accumulated_text)
  markers,   \* the text holds tool calls in Kimi's markers
  opened,    \* tool calls the provider has opened
  block,     \* the block it is sending: none, text, or the number of a call
  tcState,   \* tc_state of the anthropic adapter: none, or the call it is about
  mixed,     \* anthropic: a text block came after a call
  events     \* the LLMEvents that a loop of the agent takes

streamVars == <<protocol, wireAt, chunks, markers, opened, block, tcState, mixed, events>>

None == 0
Text == -1

\* of is the number of a call, the chunks of a full text, or, only for the
\* properties, the chunks that were received when Finish was yielded.
LLMEvent(type, of) == [type |-> type, of |-> of]

IsSending == wireAt \in {"open", "finished"}

\* Every loop (app/agent.py, core/runner.py) breaks at Finish: what an adapter
\* has to yield after it, nobody takes.
Yield(es) == events' = IF wireAt = "finished" THEN events ELSE events \o es

StreamInit ==
  /\ protocol \in Protocols /\ wireAt = "request"
  /\ chunks = 0 /\ markers = FALSE /\ opened = 0 /\ block = None /\ tcState = None
  /\ mixed = FALSE /\ events = <<>>

EventTypes == {"TextStarted", "TextDelta", "TextEnded", "ToolCallStarted", "ToolCallDelta",
               "ToolCallEnded", "ToolResult", "Finish", "Error"}

StreamTypeOK ==
  /\ protocol \in Protocols /\ wireAt \in {"request", "open", "finished", "closed"}
  /\ chunks \in 0..MaxChunks /\ markers \in BOOLEAN /\ mixed \in BOOLEAN
  /\ opened \in 0..MaxStreamCalls /\ block \in Text..MaxStreamCalls
  /\ tcState \in 0..MaxStreamCalls
  /\ \A i \in DOMAIN events : events[i].type \in EventTypes
                              /\ events[i].of \in 0..(MaxChunks + MaxStreamCalls)
-----------------------------------------------------------------------------
(***************************************************************************)
(* The request.                                                            *)
(***************************************************************************)
\* A refused request raises, in legacy inside the generator's own try block;
\* LLMClient.stream makes an Error event of it.
Refused ==
  /\ wireAt = "request" /\ wireAt' = "closed"
  /\ Yield(<<LLMEvent("Error", 0)>>)
  /\ UNCHANGED <<protocol, chunks, markers, opened, block, tcState, mixed>>

Connected ==
  /\ wireAt = "request" /\ wireAt' = "open" /\ protocol # "legacy"
  /\ Yield(IF protocol \in {"chat", "anthropic"} THEN <<LLMEvent("TextStarted", 0)>> ELSE <<>>)
  /\ UNCHANGED <<protocol, chunks, markers, opened, block, tcState, mixed>>

\* What the legacy adapter says of n calls, each settled before the next.
CallsSettled(n) ==
  [i \in 1..(4 * n) |->
     LLMEvent(<<"ToolCallStarted", "ToolCallDelta", "ToolCallEnded", "ToolResult">>[((i - 1) % 4) + 1],
              ((i - 1) \div 4) + 1)]

\* An answer of the chat API that is no event stream holds only text; the
\* legacy adapter has the whole answer before it yields anything, and settles
\* every call itself.
WholeAnswer(n, calls) ==
  /\ wireAt = "request" /\ wireAt' = "closed"
  /\ protocol \in {"chat", "legacy"} /\ (protocol = "chat" => calls = 0)
  /\ chunks' = n /\ opened' = calls
  /\ LET said == IF n > 0 THEN <<LLMEvent("TextDelta", 0), LLMEvent("TextEnded", n)>> ELSE <<>>
         head == IF protocol = "chat" \/ n > 0 THEN <<LLMEvent("TextStarted", 0)>> ELSE <<>>
     IN  Yield(head \o said \o CallsSettled(calls) \o <<LLMEvent("Finish", n)>>)
  /\ UNCHANGED <<protocol, markers, block, tcState, mixed>>
-----------------------------------------------------------------------------
(***************************************************************************)
(* Text.                                                                   *)
(***************************************************************************)
\* A text block opens (anthropic) or a message item is added (responses), and
\* its first chunk comes.
TextBlock ==
  /\ IsSending /\ block = None /\ protocol \in {"anthropic", "responses"}
  /\ chunks < MaxChunks
  /\ block' = Text /\ chunks' = chunks + 1
  /\ mixed' = (mixed \/ (protocol = "anthropic" /\ opened > 0))
  /\ Yield((IF protocol = "responses" THEN <<LLMEvent("TextStarted", 0)>> ELSE <<>>)
             \o <<LLMEvent("TextDelta", 0)>>)
  /\ UNCHANGED <<protocol, wireAt, markers, opened, tcState>>

\* A chunk of text, which in chat may be or hold Kimi's markers of a call.
TextChunk ==
  /\ IsSending /\ chunks < MaxChunks
  /\ protocol = "chat" \/ block = Text
  /\ chunks' = chunks + 1
  /\ markers' \in IF protocol = "chat" /\ MaxStreamCalls > 0 THEN BOOLEAN ELSE {FALSE}
  /\ markers => markers'
  /\ Yield(<<LLMEvent("TextDelta", 0)>>)
  /\ UNCHANGED <<protocol, wireAt, opened, block, tcState, mixed>>
-----------------------------------------------------------------------------
(***************************************************************************)
(* Tool calls.                                                             *)
(***************************************************************************)
\* Mutant of OpenCall: the adapter does not announce it.
OpenCallSilently ==
  /\ IsSending /\ opened < MaxStreamCalls
  /\ protocol # "chat" => block = None
  /\ opened' = opened + 1
  /\ block' = IF protocol = "chat" THEN None ELSE opened + 1
  /\ tcState' = IF protocol = "anthropic" THEN opened + 1 ELSE tcState
  /\ UNCHANGED <<protocol, wireAt, chunks, markers, mixed, events>>

\* chat: an index not in tool_calls_in_progress; anthropic: a tool_use block,
\* which resets tc_state; responses: an item of type tool_call.
OpenCall ==
  /\ IsSending /\ opened < MaxStreamCalls
  /\ protocol # "chat" => block = None
  /\ opened' = opened + 1
  /\ block' = IF protocol = "chat" THEN None ELSE opened + 1
  /\ tcState' = IF protocol = "anthropic" THEN opened + 1 ELSE tcState
  /\ Yield(<<LLMEvent("ToolCallStarted", opened + 1)>>)
  /\ UNCHANGED <<protocol, wireAt, chunks, markers, mixed>>

\* The end of a block.  anthropic: content_block_stop ends the call of
\* tc_state, which nothing clears, or else a text, with an empty event.
BlockStops ==
  /\ IsSending /\ block # None
  /\ block' = None
  /\ Yield(IF protocol = "anthropic"
           THEN IF tcState # None THEN <<LLMEvent("ToolCallEnded", tcState)>>
                                  ELSE <<LLMEvent("TextEnded", 0)>>
           ELSE IF block # Text THEN <<LLMEvent("ToolCallEnded", block)>> ELSE <<>>)
  /\ UNCHANGED <<protocol, wireAt, chunks, markers, opened, tcState, mixed>>
-----------------------------------------------------------------------------
(***************************************************************************)
(* The end.                                                                *)
(***************************************************************************)
CallsEnded(n) == [i \in 1..n |-> LLMEvent("ToolCallEnded", i)]

\* chat: with finish_reason the text and then the calls are ended; calls that
\* are only written into the text are taken out of it when there are no others.
\* responses: the text is ended before the Finish, when there was any.
Closing ==
  CASE protocol = "chat" ->
         (IF markers /\ opened = 0
          THEN <<LLMEvent("ToolCallStarted", 1), LLMEvent("ToolCallEnded", 1)>> ELSE <<>>)
         \o <<LLMEvent("TextEnded", chunks)>> \o CallsEnded(opened) \o <<LLMEvent("Finish", chunks)>>
    [] protocol = "responses" /\ chunks > 0 -> <<LLMEvent("TextEnded", chunks),
                                                 LLMEvent("Finish", chunks)>>
    [] OTHER -> <<LLMEvent("Finish", chunks)>>

\* finish_reason, message_delta, response.completed.  The adapter reads on.
Finished ==
  /\ IsSending /\ block = None
  /\ wireAt' = "finished"
  /\ Yield(Closing)
  /\ UNCHANGED <<protocol, chunks, markers, opened, block, tcState, mixed>>

\* The provider hangs up ([DONE] without finish_reason, or the end of the
\* body), and the adapters just stop; or what arrived cannot be decoded, which
\* raises through LLMClient.stream.
HangsUp ==
  /\ IsSending /\ wireAt' = "closed"
  /\ UNCHANGED <<protocol, chunks, markers, opened, block, tcState, mixed, events>>

\* The connection breaks: an Error event of LLMClient.stream.
Breaks ==
  /\ IsSending /\ wireAt' = "closed"
  /\ Yield(<<LLMEvent("Error", 0)>>)
  /\ UNCHANGED <<protocol, chunks, markers, opened, block, tcState, mixed>>

StreamNext ==
  \/ Refused \/ Connected \/ TextBlock \/ TextChunk \/ OpenCall \/ BlockStops
  \/ Finished \/ HangsUp \/ Breaks
  \/ \E n \in 0..1, c \in 0..MaxStreamCalls : WholeAnswer(n, c)

StreamSpec == StreamInit /\ [][StreamNext]_streamVars
-----------------------------------------------------------------------------
Has(type, i) == {k \in DOMAIN events : events[k].type = type /\ events[k].of = i}

\* A call is reported started before it is ended, and ended once: the agent
\* loop executes it for every ToolCallEnded.  The anthropic adapter keeps this
\* only until a text block follows a call; there it ends the call again.
CallsEndOnce ==
  ~mixed => \A k \in DOMAIN events : events[k].type = "ToolCallEnded" =>
              /\ \E j \in 1..(k - 1) : events[j] = LLMEvent("ToolCallStarted", events[k].of)
              /\ Has("ToolCallEnded", events[k].of) = {k}

\* A loop, which stops reading at the first Finish, has then got the end of
\* every call that was started before it and, from a provider that sends full
\* texts, the whole text as it was then, whatever the provider sends later.
FinishIsComplete ==
  \A k \in DOMAIN events : events[k].type = "Finish" =>
    /\ k = Len(events)
    /\ \A c \in 1..MaxStreamCalls :
         Has("ToolCallStarted", c) # {} => Has("ToolCallEnded", c) # {}
    /\ protocol # "anthropic" /\ events[k].of > 0 => Has("TextEnded", events[k].of) # {}
=============================================================================
