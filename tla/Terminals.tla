----------------------------- MODULE Terminals -----------------------------
(***************************************************************************)
(* PTYSessionManager (tools2/pty.py): shells behind pseudo terminals.  An  *)
(* exec() takes the lock of the session, writes its command and an echo of *)
(* a marker to the descriptor, and reads until it has a marker.  read()    *)
(* takes what comes without the lock, chunk by chunk, each in a thread;    *)
(* close() closes the descriptor, whose number the next session may get    *)
(* while an exec() or a read() still has it.                               *)
(*                                                                         *)
(* A command's output is two pieces, the text and the marker behind it.  A *)
(* shell runs what it is sent in order, and a read takes any number of     *)
(* pieces of what is there.                                                *)
(***************************************************************************)
EXTENDS Integers, SequencesExt, FifoPermits

CONSTANTS
  Terms,          \* sessions, each created once
  Fds,            \* numbers of descriptors
  Execs,          \* calls of exec(), each with a command of its own
  Readers,        \* calls of read()
  MaxTerms        \* max_sessions

NoTerminal == "none"

ASSUME TerminalsAssumption == MaxTerms \in Nat /\ Cardinality(Fds) >= 1 /\ NoTerminal \notin Terms

VARIABLES
  term,       \* [Terms -> stage of the session]
  masterFd,   \* [Terms -> its descriptor]
  fdOwner,    \* [Fds -> the session whose terminal it is, or NoTerminal]
  shellIn,    \* [Terms -> the pieces that the shell has still to write]
  shellOut,   \* [Terms -> output nobody has read]
  line,       \* [Terms -> calls in the lock: the first has it]
  execAt,     \* [Execs -> where the call is]
  execTerm,   \* [Execs -> its session]
  got,        \* [Execs -> the output it has read]
  spoilt,     \* sessions where a call got no answer, or met a foreign descriptor
  readAt,     \* [Readers -> where the call is]
  readTerm,   \* [Readers -> its session]
  seized      \* the pieces that a read() took; kept for the properties

termState == <<term, masterFd, fdOwner>>
execState == <<line, execAt, execTerm, got, spoilt>>
readState == <<readAt, readTerm, seized>>
termVars  == <<termState, shellIn, shellOut, execState, readState>>

Pieces == Execs \X {"text", "marker"}
OutputOf(e) == <<<<e, "text">>, <<e, "marker">>>>

TermInit ==
  /\ term = [t \in Terms |-> "new"] /\ masterFd = [t \in Terms |-> NoTerminal]
  /\ fdOwner = [f \in Fds |-> NoTerminal]
  /\ shellIn = [t \in Terms |-> <<>>] /\ shellOut = [t \in Terms |-> <<>>]
  /\ line = [t \in Terms |-> <<>>]
  /\ execAt = [e \in Execs |-> "new"] /\ execTerm = [e \in Execs |-> NoTerminal]
  /\ got = [e \in Execs |-> <<>>] /\ spoilt = {}
  /\ readAt = [r \in Readers |-> "new"] /\ readTerm = [r \in Readers |-> NoTerminal] /\ seized = {}

TermTypeOK ==
  /\ term \in [Terms -> {"new", "creating", "open", "closing", "closed"}]
  /\ masterFd \in [Terms -> Fds \cup {NoTerminal}] /\ fdOwner \in [Fds -> Terms \cup {NoTerminal}]
  /\ \A t \in Terms : Range(shellIn[t]) \cup Range(shellOut[t]) \subseteq Pieces /\ Range(line[t]) \subseteq Execs
  /\ execAt \in [Execs -> {"new", "locking", "reading", "returned", "failed", "timedOut"}]
  /\ execTerm \in [Execs -> Terms \cup {NoTerminal}]
  /\ \A e \in Execs : Range(got[e]) \subseteq Pieces
  /\ spoilt \subseteq Terms /\ seized \subseteq Pieces
  /\ readAt \in [Readers -> {"new", "reading", "over"}] /\ readTerm \in [Readers -> Terms \cup {NoTerminal}]

Sessions == {t \in Terms : term[t] = "open"}    \* _sessions

\* The session whose terminal the call's descriptor is by now.
Reaches(e) == fdOwner[masterFd[execTerm[e]]]
-----------------------------------------------------------------------------
\* create() up to the start of the shell.  The new session counts afterwards.
OpenPty(t) ==
  /\ term[t] = "new" /\ Cardinality(Sessions) < MaxTerms
  /\ \E f \in Fds :
       /\ fdOwner[f] = NoTerminal
       /\ fdOwner' = [fdOwner EXCEPT ![f] = t] /\ masterFd' = [masterFd EXCEPT ![t] = f]
  /\ term' = [term EXCEPT ![t] = "creating"]
  /\ UNCHANGED <<shellIn, shellOut, execState, readState>>

\* The shell runs; or it is not found, and the descriptors are closed; or the
\* caller is cancelled or another error comes up, and the descriptors leak.
ShellStarts(t) ==
  /\ term[t] = "creating"
  /\ \/ term' = [term EXCEPT ![t] = "open"] /\ UNCHANGED fdOwner
     \/ /\ term' = [term EXCEPT ![t] = "closed"]
        /\ \/ fdOwner' = [fdOwner EXCEPT ![masterFd[t]] = NoTerminal]
           \/ UNCHANGED fdOwner
  /\ UNCHANGED <<masterFd, shellIn, shellOut, execState, readState>>

\* close() takes the session off the table and tells the shell to exit.
ClosePty(t) ==
  /\ term[t] = "open"
  /\ term' = [term EXCEPT ![t] = "closing"]
  /\ UNCHANGED <<masterFd, fdOwner, shellIn, shellOut, execState, readState>>

\* The shell is terminated and the descriptor closed.
PtyClosed(t) ==
  /\ term[t] = "closing"
  /\ term' = [term EXCEPT ![t] = "closed"]
  /\ fdOwner' = [fdOwner EXCEPT ![masterFd[t]] = NoTerminal]
  /\ shellIn' = [shellIn EXCEPT ![t] = <<>>] /\ shellOut' = [shellOut EXCEPT ![t] = <<>>]
  /\ UNCHANGED <<masterFd, execState, readState>>

\* The shell writes its next piece.
ShellRuns(t) ==
  /\ shellIn[t] # <<>>
  /\ shellIn' = [shellIn EXCEPT ![t] = Tail(@)]
  /\ shellOut' = [shellOut EXCEPT ![t] = Append(@, Head(shellIn[t]))]
  /\ UNCHANGED <<termState, execState, readState>>
-----------------------------------------------------------------------------
\* exec() looks the session up and queues for its lock.
Exec(e, t) ==
  /\ execAt[e] = "new" /\ term[t] = "open"
  /\ execAt' = [execAt EXCEPT ![e] = "locking"] /\ execTerm' = [execTerm EXCEPT ![e] = t]
  /\ line' = [line EXCEPT ![t] = Append(@, e)]
  /\ UNCHANGED <<termState, shellIn, shellOut, got, spoilt, readState>>

Leaves(e, how) ==
  /\ execAt' = [execAt EXCEPT ![e] = how]
  /\ line' = [line EXCEPT ![execTerm[e]] = StepOut(@, e)]

Spoil(e) == spoilt' = spoilt \cup ({execTerm[e], Reaches(e)} \cap Terms)

PutsCommand(e) ==
  /\ execAt[e] = "locking" /\ Reaches(e) # NoTerminal
  /\ execAt' = [execAt EXCEPT ![e] = "reading"]
  /\ shellIn' = [shellIn EXCEPT ![Reaches(e)] = @ \o OutputOf(e)]
  /\ IF Reaches(e) # execTerm[e] THEN Spoil(e) ELSE UNCHANGED spoilt
  /\ UNCHANGED <<termState, shellOut, line, execTerm, got, readState>>

\* Mutant of WriteCommand: the session has no lock.
WriteUnlocked(e) == PutsCommand(e)

\* With the lock, the command is written; nobody looks at _closed again.
WriteCommand(e) == execAt[e] = "locking" /\ Head(line[execTerm[e]]) = e /\ PutsCommand(e)

\* The write fails: the descriptor is closed, the shell is gone, or it takes no
\* more input.
ExecFails(e) ==
  /\ execAt[e] = "locking" /\ Head(line[execTerm[e]]) = e
  /\ Leaves(e, "failed")
  /\ UNCHANGED <<termState, shellIn, shellOut, execTerm, got, spoilt, readState>>

\* A chunk of what is there; the call is over when it has a marker.
ReadChunk(e) ==
  /\ execAt[e] = "reading" /\ Reaches(e) # NoTerminal
  /\ LET out == shellOut[Reaches(e)] IN
       \E k \in DOMAIN out :
         /\ got' = [got EXCEPT ![e] = @ \o SubSeq(out, 1, k)]
         /\ shellOut' = [shellOut EXCEPT ![Reaches(e)] = SubSeq(out, k + 1, Len(out))]
  /\ IF Reaches(e) # execTerm[e] THEN Spoil(e) ELSE UNCHANGED spoilt
  /\ IF \E i \in DOMAIN got'[e] : got'[e][i][2] = "marker"
     THEN Leaves(e, "returned") ELSE UNCHANGED <<execAt, line>>
  /\ UNCHANGED <<termState, shellIn, execTerm, readState>>

\* No marker in time, nothing to read from any more, or the caller is
\* cancelled; the command runs on.
GiveUp(e) ==
  /\ execAt[e] \in {"locking", "reading"}
  /\ IF execAt[e] = "reading" THEN Spoil(e) ELSE UNCHANGED spoilt
  /\ Leaves(e, "timedOut")
  /\ UNCHANGED <<termState, shellIn, shellOut, execTerm, got, readState>>
-----------------------------------------------------------------------------
\* read() of a session that is in the table.
Read(r, t) ==
  /\ readAt[r] = "new" /\ term[t] = "open"
  /\ readAt' = [readAt EXCEPT ![r] = "reading"] /\ readTerm' = [readTerm EXCEPT ![r] = t]
  /\ UNCHANGED <<termState, shellIn, shellOut, execState, seized>>

\* The session whose terminal the descriptor of the read() is by now.
ReadsFrom(r) == fdOwner[masterFd[readTerm[r]]]

\* A chunk is read; nobody looks whether the session is closed.
ReadOutput(r) ==
  /\ readAt[r] = "reading" /\ ReadsFrom(r) # NoTerminal
  /\ LET out == shellOut[ReadsFrom(r)] IN
       \E k \in DOMAIN out :
         /\ shellOut' = [shellOut EXCEPT ![ReadsFrom(r)] = SubSeq(out, k + 1, Len(out))]
         /\ seized' = seized \cup {out[i] : i \in 1..k}
  /\ UNCHANGED <<termState, shellIn, execState, readAt, readTerm>>

\* Nothing is there, a thread takes too long, the descriptor is closed, or the
\* caller is cancelled.
ReadEnds(r) ==
  /\ readAt[r] = "reading"
  /\ readAt' = [readAt EXCEPT ![r] = "over"]
  /\ UNCHANGED <<termState, shellIn, shellOut, execState, readTerm, seized>>
-----------------------------------------------------------------------------
TermNext ==
  \/ \E t \in Terms : OpenPty(t) \/ ShellStarts(t) \/ ClosePty(t) \/ PtyClosed(t) \/ ShellRuns(t)
  \/ \E e \in Execs : \/ \E t \in Terms : Exec(e, t)
                      \/ WriteCommand(e) \/ ExecFails(e) \/ ReadChunk(e) \/ GiveUp(e)
  \/ \E r \in Readers : (\E t \in Terms : Read(r, t)) \/ ReadOutput(r) \/ ReadEnds(r)

TermSpec == TermInit /\ [][TermNext]_termVars
-----------------------------------------------------------------------------
\* What is left of the output when a read() has taken the text.
LeftOf(e) == IF <<e, "text">> \in seized THEN <<<<e, "marker">>>> ELSE OutputOf(e)

(***************************************************************************)
(* In a session where every earlier call got its answer and none has met   *)
(* the descriptor of another session, exec() returns the output of its own *)
(* command and of no other, without what a read() took from it meanwhile;  *)
(* and only calls of a closed session ever meet a foreign descriptor.      *)
(***************************************************************************)
AnswersMatch ==
  /\ \A e \in Execs :
       /\ execAt[e] = "returned" /\ execTerm[e] \notin spoilt =>
            got[e] = LeftOf(e)
       /\ execAt[e] \in {"locking", "reading"} /\ term[execTerm[e]] \in {"open", "closing"}
            => Reaches(e) = execTerm[e]
  /\ \A r \in Readers :
       readAt[r] = "reading" /\ term[readTerm[r]] \in {"open", "closing"} => ReadsFrom(r) = readTerm[r]
=============================================================================
