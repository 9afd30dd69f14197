----------------------------- MODULE AgentLoop -----------------------------
(***************************************************************************)
(* One turn of an agent: ask the model, collect the text and the tool      *)
(* calls of its answer, settle the calls, ask again.  The loop is written  *)
(* six times in the code, and the model follows each of them:              *)
(*                                                                         *)
(*   agent         AgentV2._run_loop (app/agent.py), the one of the server *)
(*   agentStream   AgentV2.run_stream                                      *)
(*   runner        SessionRunner.run (core/runner.py)                      *)
(*   runnerStream  SessionRunner.run_stream                                *)
(*   execution     SessionRunner.run_with_execution, inside the life cycle *)
(*                 of SessionExecution.execute (core/execution.py)         *)
(*   legacy        LegacyProviderAdapter.generate (llm/adapters/legacy.py) *)
(*                                                                         *)
(* Texts are present or absent; a call is named by its round and place.    *)
(***************************************************************************)
EXTENDS Integers, Sequences

CONSTANTS
  MaxToolRounds,  \* max_tool_rounds
  MaxCalls        \* bound of the model: tool calls in one answer

ASSUME AgentLoopAssumption == MaxToolRounds \in Nat \ {0} /\ MaxCalls \in Nat

Loops == {"agent", "agentStream", "runner", "runnerStream", "execution", "legacy"}

\* These put the tool calls into the assistant's message; the others only its text.
KeepsCalls == {"agent", "runner", "legacy"}

\* These pass everything on by yielding it, or return all of it at the end; the
\* others call on_event.
Yields == Loops \ {"agent", "runner"}

Outcomes == {"none", "returned", "error", "raised", "cancelled", "interrupted", "notAdmitted"}

VARIABLES
  loop,       \* which of the loops runs
  callback,   \* on_event: an ordinary function or a coroutine function
  agentAt,    \* where the loop is
  toolRound,
  context,    \* the messages of the next request
  text,       \* the answer has text
  parts,      \* the assistant's message has a text part
  calls,      \* the tool calls of the answer
  spoken,     \* the rounds whose text is in full_content
  saved,      \* the rounds whose text the session has
  reported,   \* the calls whose result the caller has got
  runStatus,  \* of the session, for "execution"
  markLost,   \* a mark_run_* failed
  cancelSet,  \* the cancel_event of SessionExecution
  outcome

agentVars == <<loop, callback, agentAt, toolRound, context, text, parts, calls, spoken,
               saved, reported, runStatus, markLost, cancelSet, outcome>>

agentSetup == <<loop, callback>>
answer     == <<text, parts, calls>>
kept       == <<spoken, saved, reported>>
runVars    == <<runStatus, markLost, cancelSet>>

User == [role |-> "user", calls |-> <<>>]
Assistant(cs) == [role |-> "assistant", calls |-> cs]
Result(c) == [role |-> "tool", calls |-> <<c>>]

AgentInit ==
  /\ loop \in Loops /\ callback \in {"plain", "async"}
  /\ agentAt = "start" /\ toolRound = 0 /\ context = <<User>>
  /\ text = FALSE /\ parts = FALSE /\ calls = <<>>
  /\ spoken = {} /\ saved = {} /\ reported = {}
  /\ runStatus = "idle" /\ markLost = FALSE /\ cancelSet = FALSE /\ outcome = "none"

AgentTypeOK ==
  LET Call == (0..MaxToolRounds) \X (1..MaxCalls) IN
  /\ loop \in Loops /\ callback \in {"plain", "async"}
  /\ agentAt \in {"start", "admit", "ask", "stream", "streamed", "settle", "leaving", "over"}
  /\ toolRound \in 0..MaxToolRounds
  /\ \A i \in DOMAIN context : context[i].role \in {"user", "assistant", "tool"}
                               /\ \A k \in DOMAIN context[i].calls : context[i].calls[k] \in Call
  /\ {text, parts, markLost, cancelSet} \subseteq BOOLEAN
  /\ \A k \in DOMAIN calls : calls[k] \in Call
  /\ spoken \cup saved \subseteq 0..MaxToolRounds /\ reported \subseteq Call
  /\ runStatus \in {"idle", "running", "completed", "errored", "stopped"}
  /\ outcome \in Outcomes
-----------------------------------------------------------------------------
(***************************************************************************)
(* Leaving the loop.                                                       *)
(***************************************************************************)
\* Every way out of execute()'s try block marks the run.
LeaveLoop(how) ==
  /\ agentAt' = IF loop = "execution" THEN "leaving" ELSE "over"
  /\ outcome' = how

\* mark_run_complete, mark_run_stop, mark_run_error.  An error or a
\* cancellation in the try block leads to the mark of its handler; in a
\* handler it is raised.
MarkRun ==
  /\ agentAt = "leaving"
  /\ \/ /\ runStatus' = CASE outcome \in {"returned", "error"}          -> "completed"
                          [] outcome = "raised"                        -> "errored"
                          [] outcome \in {"cancelled", "interrupted"}  -> "stopped"
        /\ agentAt' = "over"
        /\ UNCHANGED <<outcome, markLost>>
     \/ /\ outcome \in {"returned", "error", "interrupted"}
        /\ outcome' \in {"raised", "cancelled"}
        /\ UNCHANGED <<agentAt, runStatus, markLost>>
     \/ /\ outcome \in {"raised", "cancelled"}
        /\ agentAt' = "over" /\ markLost' = TRUE
        /\ UNCHANGED <<outcome, runStatus>>
  /\ UNCHANGED <<agentSetup, answer, kept, toolRound, context, cancelSet>>

\* An exception (of the provider, of the store, of a callback) or the
\* cancellation of the task, wherever the loop awaits.
BreakOff ==
  /\ agentAt \in {"stream", "streamed", "settle"}
  /\ \E how \in {"raised", "cancelled"} : LeaveLoop(how)
  /\ UNCHANGED <<agentSetup, answer, kept, runVars, toolRound, context>>

\* The cancel_event is set.
SetCancelEvent ==
  /\ loop = "execution" /\ ~cancelSet /\ agentAt # "over"
  /\ cancelSet' = TRUE
  /\ UNCHANGED <<agentSetup, answer, kept, agentAt, toolRound, context, runStatus, markLost, outcome>>

\* execute() looks at it before it handles an event of the generator.
Interrupted == loop = "execution" /\ cancelSet

SeesCancelEvent ==
  /\ Interrupted /\ agentAt \in {"stream", "settle"}
  /\ LeaveLoop("interrupted")
  /\ UNCHANGED <<agentSetup, answer, kept, runVars, toolRound, context>>
-----------------------------------------------------------------------------
(***************************************************************************)
(* Admission and the stream of an answer.                                  *)
(***************************************************************************)
\* The runners append the prompt, execute() marks the run before; an error
\* here is outside its try block.
Admit ==
  /\ \/ /\ agentAt = "start"
        /\ agentAt' = IF loop = "execution" THEN "admit" ELSE "ask"
        /\ runStatus' = IF loop = "execution" THEN "running" ELSE runStatus
        /\ UNCHANGED outcome
     \/ /\ agentAt = "admit"
        /\ agentAt' = "ask"
        /\ UNCHANGED <<runStatus, outcome>>
     \/ /\ agentAt \in {"start", "admit"}
        /\ agentAt' = "over" /\ outcome' = "notAdmitted"
        /\ UNCHANGED runStatus
  /\ UNCHANGED <<agentSetup, answer, kept, toolRound, context, markLost, cancelSet>>

\* The next request, unless the rounds are used up; "legacy" looks at them
\* when it has the answer.
Ask ==
  /\ agentAt = "ask"
  /\ \/ /\ toolRound < MaxToolRounds \/ loop = "legacy"
        /\ agentAt' = "stream"
        /\ text' = FALSE /\ parts' = FALSE /\ calls' = <<>>
        /\ UNCHANGED outcome
     \/ /\ toolRound >= MaxToolRounds /\ loop # "legacy"
        /\ LeaveLoop("returned")
        /\ UNCHANGED <<answer>>
  /\ UNCHANGED <<agentSetup, kept, runVars, toolRound, context>>

Streaming == agentAt = "stream" /\ ~Interrupted

\* execute() adds the deltas to full_content as they come.
TextDelta ==
  /\ Streaming /\ ~text
  /\ text' = TRUE
  /\ spoken' = IF loop = "execution" THEN spoken \cup {toolRound} ELSE spoken
  /\ UNCHANGED <<agentSetup, runVars, agentAt, toolRound, context, parts, calls, saved, reported, outcome>>

\* full says whether the event has the text; some providers send it empty.
TextEnded(full) ==
  /\ Streaming /\ ~parts
  /\ \/ loop = "agent" /\ text' = (text \/ full) /\ parts' = TRUE
     \/ loop = "runner" /\ text' = full /\ parts' = TRUE
     \/ loop \notin {"agent", "runner"} /\ UNCHANGED <<text, parts>>
  /\ UNCHANGED <<agentSetup, kept, runVars, agentAt, toolRound, context, calls, outcome>>

ToolCallEnded ==
  /\ Streaming /\ Len(calls) < MaxCalls
  /\ calls' = Append(calls, <<toolRound, Len(calls) + 1>>)
  /\ UNCHANGED <<agentSetup, kept, runVars, agentAt, toolRound, context, text, parts, outcome>>

\* Finish, or the stream just ends.
StreamEnds ==
  /\ Streaming
  /\ agentAt' = "streamed"
  /\ UNCHANGED <<agentSetup, answer, kept, runVars, toolRound, context, outcome>>

\* LLMClient.stream turns errors of the provider and of the transport into an
\* event, with which every loop returns.
StreamError ==
  /\ Streaming
  /\ LeaveLoop("error")
  /\ UNCHANGED <<agentSetup, answer, kept, runVars, toolRound, context>>
-----------------------------------------------------------------------------
(***************************************************************************)
(* The answer and its tool calls.                                          *)
(***************************************************************************)
\* An empty answer is asked for once more, without streaming.
Fallback ==
  /\ agentAt = "streamed" /\ loop = "agent" /\ ~text /\ calls = <<>>
  /\ text' = TRUE /\ parts' = TRUE
  /\ UNCHANGED <<agentSetup, kept, runVars, agentAt, toolRound, context, calls, outcome>>

\* Mutant of AnswerMessage: the assistant's message holds its text only.
AnswerText == IF parts \/ text THEN <<Assistant(<<>>)>> ELSE <<>>

\* The message of the assistant, when there is something to put into it.
AnswerMessage ==
  IF loop = "legacy" THEN <<Assistant(calls)>>
  ELSE IF loop \in KeepsCalls
  THEN IF parts \/ calls # <<>> THEN <<Assistant(calls)>> ELSE <<>>
  ELSE IF text THEN <<Assistant(<<>>)>> ELSE <<>>

\* Without calls the loop is done.
LastAnswer == calls = <<>> \/ (loop = "legacy" /\ toolRound >= MaxToolRounds)

\* The message and its text are kept.
Answer ==
  /\ agentAt = "streamed"
  /\ context' = IF LastAnswer /\ loop = "legacy" THEN context ELSE context \o AnswerMessage
  /\ spoken' = IF text THEN spoken \cup {toolRound} ELSE spoken
  /\ saved' = IF text /\ loop # "legacy" /\ (loop = "runner" => AnswerMessage # <<>>)
              THEN saved \cup {toolRound} ELSE saved
  /\ IF LastAnswer THEN LeaveLoop("returned") ELSE agentAt' = "settle" /\ UNCHANGED outcome
  /\ UNCHANGED <<agentSetup, answer, runVars, toolRound, reported>>

\* The calls of this round that have a result.
Settled == {i \in DOMAIN calls : Result(calls[i]) \in {context[k] : k \in DOMAIN context}}

\* hasattr(on_event, "__await__") is false for a coroutine function: it is
\* called and its coroutine is dropped.
Reported(c) ==
  IF loop \in Yields \/ callback = "plain" THEN reported \cup {c} ELSE reported

\* The settle of ToolRegistryV2 and the dispatch of ToolRuntime: a tool that
\* is unknown or denied, wrong arguments and an exception of the tool give a
\* result as well.
SettleNext ==
  LET i == CHOOSE n \in 1..Len(calls) + 1 : n \notin Settled /\ \A k \in 1..(n - 1) : k \in Settled
  IN  /\ agentAt = "settle" /\ i <= Len(calls) /\ ~Interrupted
      /\ context' = Append(context, Result(calls[i]))
      /\ reported' = Reported(calls[i])
      /\ UNCHANGED <<agentSetup, answer, runVars, agentAt, toolRound, spoken, saved, outcome>>

NextRound ==
  /\ agentAt = "settle" /\ Settled = DOMAIN calls
  /\ agentAt' = "ask" /\ toolRound' = toolRound + 1
  /\ UNCHANGED <<agentSetup, answer, kept, runVars, context, outcome>>

AgentAdvances ==
  \/ Admit \/ Ask \/ StreamEnds \/ StreamError \/ Answer \/ SettleNext \/ NextRound
  \/ MarkRun \/ SeesCancelEvent

AgentNext ==
  \/ AgentAdvances \/ TextDelta \/ \E full \in BOOLEAN : TextEnded(full)
  \/ ToolCallEnded \/ Fallback \/ BreakOff \/ SetCancelEvent

AgentSpec == AgentInit /\ [][AgentNext]_agentVars
-----------------------------------------------------------------------------
\* A request that providers accept: the results that follow a message of the
\* assistant answer its calls, each once and in order, and the next message
\* comes when all are answered.  For the loops that keep the calls at all.
CallsAnswered ==
  loop \in KeepsCalls /\ agentAt \in {"ask", "stream"} =>
    \A i \in DOMAIN context :
      LET cs == context[i].calls IN
      /\ context[i].role = "assistant" =>
           /\ i + Len(cs) <= Len(context)
           /\ \A k \in DOMAIN cs : context[i + k] = Result(cs[k])
           /\ i + Len(cs) < Len(context) => context[i + Len(cs) + 1].role # "tool"
      /\ context[i].role = "tool" => context[i - 1].role \in {"assistant", "tool"}

\* A turn that comes to its end has saved the text that it returns, round by
\* round.  Left out are SessionRunner.run, in which an empty TextEnded erases
\* the text, and the legacy adapter, which has no session.
TextKept ==
  agentAt = "over" /\ outcome = "returned" /\ loop \notin {"runner", "legacy"} => saved = spoken

\* An admitted prompt does not leave the session running: however execute()
\* ends, it has marked the run, unless the store refused the mark itself.
RunIsMarked ==
  agentAt = "over" /\ loop = "execution" /\ outcome # "notAdmitted" /\ ~markLost =>
    runStatus \in {"completed", "errored", "stopped"}

\* Who runs a turn to its end is told the result of every call, if the loop
\* yields its events or takes a plain function for them.
ResultsReported ==
  agentAt = "over" /\ outcome = "returned" /\ (loop \in Yields \/ callback = "plain") =>
    \A i \in DOMAIN context : context[i].role = "tool" => context[i].calls[1] \in reported
=============================================================================
