---------------------------- MODULE TurnContext ----------------------------
(***************************************************************************)
(* What a turn sends to the model: the messages of the session with the    *)
(* instruction and the text of the plugins before them                     *)
(* (SessionProjector.build_context), the attached files within a limit,    *)
(* the system prompt if nothing else is one (_build_context_messages in    *)
(* server/app.py), and all of it compressed to a note and the last         *)
(* messages when it is too long (core/compression.py).                     *)
(*                                                                         *)
(* A message is its role, its size in tokens and where it comes from; a    *)
(* file is its size.                                                       *)
(***************************************************************************)
EXTENDS Integers, Sequences, SequencesExt, FiniteSets, Lists

CONSTANTS
  TurnSizes,      \* sizes of messages and files
  BufferTokens,   \* compression starts above
  KeepTokens,     \* budget of what is kept
  FileLimit,      \* FILE_CONTEXT_MAX
  MaxTalk, MaxAttached    \* bounds of the model

ASSUME TurnAssumption == /\ TurnSizes \subseteq Nat
                         /\ {BufferTokens, KeepTokens, FileLimit, MaxTalk, MaxAttached} \subseteq Nat

VARIABLES
  talk,         \* the messages of the session
  instruction,  \* the session has an instruction
  pluginText,   \* the plugins have a text
  attached      \* sizes of the files of the request

turnVars == <<talk, instruction, pluginText, attached>>

Roles == {"system", "user"}    \* answers and results count as the user's do
MessageOf(role, size, of) == [role |-> role, size |-> size, of |-> of]

TurnInit == talk = <<>> /\ attached = <<>> /\ instruction = FALSE /\ pluginText = FALSE

TurnTypeOK ==
  /\ talk \in Seq([role : Roles, size : TurnSizes, of : {"session"}]) /\ Len(talk) <= MaxTalk
  /\ attached \in Seq(TurnSizes) /\ Len(attached) <= MaxAttached
  /\ instruction \in BOOLEAN /\ pluginText \in BOOLEAN
-----------------------------------------------------------------------------
Say ==
  /\ Len(talk) < MaxTalk
  /\ \E role \in Roles, size \in TurnSizes : talk' = Append(talk, MessageOf(role, size, "session"))
  /\ UNCHANGED <<instruction, pluginText, attached>>

AttachFile ==
  /\ Len(attached) < MaxAttached
  /\ \E size \in TurnSizes : attached' = Append(attached, size)
  /\ UNCHANGED <<talk, instruction, pluginText>>

SetInstruction == instruction' = TRUE /\ UNCHANGED <<talk, pluginText, attached>>
PluginsTalk    == pluginText' = TRUE /\ UNCHANGED <<talk, instruction, attached>>

TurnNext == Say \/ AttachFile \/ SetInstruction \/ PluginsTalk
TurnSpec == TurnInit /\ [][TurnNext]_turnVars
-----------------------------------------------------------------------------
(***************************************************************************)
(* The files: how much of each is in the text, and of all of them.         *)
(***************************************************************************)
TakeFile(taken, size) ==
  LET left == FileLimit - taken.total
      part == IF left <= 0 THEN 0 ELSE IF size > left THEN left ELSE size IN
  [parts |-> Append(taken.parts, part), total |-> taken.total + part]

NoFiles == [parts |-> <<>>, total |-> 0]

TakenFiles ==
  LET taken[k \in 0..Len(attached)] ==
        IF k = 0 THEN NoFiles ELSE TakeFile(taken[k - 1], attached[k])
  IN  taken[Len(attached)]

FilesTaken == TakenFiles.parts

(***************************************************************************)
(* The messages.  An instruction goes before the text of the plugins.      *)
(***************************************************************************)
SystemOf(of, there) == IF there THEN <<MessageOf("system", 0, of)>> ELSE <<>>

BuildContext == SystemOf("instruction", instruction) \o SystemOf("plugins", pluginText) \o talk

UserMessage == MessageOf("user", 1, "request")

\* The files are part of the system prompt, or a message of their own.
ContextMessages ==
  LET built == BuildContext
      files == MessageOf("system", SumOf(FilesTaken), "files") IN
  IF built = <<>> \/ Head(built).role # "system"
    THEN <<MessageOf("system", SumOf(FilesTaken), "prompt")>> \o built \o <<UserMessage>>
    ELSE built \o (IF attached = <<>> THEN <<>> ELSE <<files>>) \o <<UserMessage>>

TotalTokens(messages) == SumOf([k \in DOMAIN messages |-> messages[k].size])

\* _split_head_recent(): from the end on as long as the budget lasts, and at
\* least the last message.
NoneRecent == [count |-> 0, tokens |-> 0, open |-> TRUE]

TakeRecent(acc, m) ==
  IF ~acc.open \/ (acc.tokens + m.size > KeepTokens /\ acc.count > 0)
    THEN [count |-> acc.count, tokens |-> acc.tokens, open |-> FALSE]
    ELSE [count |-> acc.count + 1, tokens |-> acc.tokens + m.size, open |-> TRUE]

RecentLength(messages) ==
  LET recent[k \in 0..Len(messages)] ==
        IF k = 0 THEN NoneRecent ELSE TakeRecent(recent[k - 1], messages[Len(messages) - k + 1])
  IN  recent[Len(messages)].count

\* compress(), with a note or with a summary of the head.
Compress(messages) ==
  LET recent == SubSeq(messages, Len(messages) - RecentLength(messages) + 1, Len(messages))
      systems == ItemsAt(messages, {k \in DOMAIN messages : messages[k].role = "system"}) IN
  IF TotalTokens(messages) <= BufferTokens \/ Len(recent) = Len(messages) THEN messages
  ELSE SubSeq(systems, 1, 1) \o <<MessageOf("system", 0, "note")>> \o recent
-----------------------------------------------------------------------------
Suffix(messages, k) == SubSeq(messages, Len(messages) - k + 1, Len(messages))

(***************************************************************************)
(* The request of the user is the last message whatever is cut, what comes *)
(* first is a system message, and what is left of the conversation is its  *)
(* longest end within the budget, or the last message alone; nothing is    *)
(* cut without a note.                                                     *)
(***************************************************************************)
TailIsKept ==
  LET all  == ContextMessages
      sent == Compress(all)
      fits(k) == k = 1 \/ TotalTokens(Suffix(all, k)) <= KeepTokens
      cut  == \E k \in DOMAIN sent : sent[k].of = "note" IN
  /\ Last(sent) = UserMessage /\ Head(sent).role = "system"
  /\ ~cut => sent = all
  /\ cut => /\ Head(sent) = Head(all)
            /\ LET k == Len(sent) - 2 IN
               /\ Suffix(sent, k) = Suffix(all, k)
               /\ fits(k) /\ \A j \in (k + 1)..Len(all) : ~fits(j)

(***************************************************************************)
(* The files take no more than the limit, each in full or up to it, and    *)
(* none is cut while the next one is not.                                  *)
(***************************************************************************)
FilesFit ==
  /\ SumOf(FilesTaken) <= FileLimit /\ Len(FilesTaken) = Len(attached)
  /\ \A k \in DOMAIN attached :
       FilesTaken[k] < attached[k] => SumOf(FilesTaken) = FileLimit
                                      /\ \A j \in (k + 1)..Len(attached) : FilesTaken[j] = 0
=============================================================================
