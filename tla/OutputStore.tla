----------------------------- MODULE OutputStore -----------------------------
(***************************************************************************)
(* Outputs of tools that are kept for later turns                          *)
(* (tools2/output_store.py): one table for the whole process, stores that  *)
(* write to it, some of them with a directory for outputs that are too     *)
(* long, and the preview that a call gets back.  No call awaits anything,  *)
(* so each is one step; the file system may refuse in the middle of it.    *)
(*                                                                         *)
(* Keys come from the language model.  A key is a sequence of names, the   *)
(* parts that colons separate, so that it may look like one of a session,  *)
(* and it is used as a path as it is: "../s/n" is a name that leads to a   *)
(* file of session s.                                                      *)
(***************************************************************************)
EXTENDS Integers, Sequences, Lists

CONSTANTS
  StoreSessions, OutputNames,
  FileOf,               \* the file that data_dir/session/key.out is
  MaxLines, MaxBytes,   \* MAX_LINES, MAX_BYTES
  MaxSaves              \* bound of the model

StoreKinds == {"memory", "disk"}             \* without a directory, and with one
Scopes == StoreSessions \cup {"_global"} \* "_global": without a session
OutputKeys == {<<n>> : n \in OutputNames} \cup (StoreSessions \X OutputNames)
Paths == (Scopes \cup {"elsewhere"}) \X OutputKeys   \* a directory and a file in it

\* Any two keys may lead to one file, and to any directory.
ASSUME OutputAssumption ==
  /\ {"_global"} \cap StoreSessions = {}
  /\ FileOf \in [Scopes \X OutputKeys -> Paths]
  /\ MaxLines \in Nat \ {0} /\ {MaxBytes, MaxSaves} \subseteq Nat

VARIABLES
  outputs,   \* _STORE: [OutputKeys, with the session in front -> output]
  onDisk,    \* [Paths -> the number of the save whose content the file holds]
  saves,     \* how often save() has been called
  refused    \* the paths that could not be written; kept for the properties

outputVars == <<outputs, onDisk, saves, refused>>

Absent  == 0
Garbled == -1   \* a part of some output

NoOutput == [save |-> Absent, scope |-> "_global", managed |-> FALSE, path |-> CHOOSE p \in Paths : TRUE]

\* A key with its session in front; keys have at most two parts here.
FullKey(s, key) == IF s = "_global" THEN key ELSE <<s>> \o key
FullKeys == {FullKey(s, key) : s \in Scopes, key \in OutputKeys}

OutputInit ==
  /\ outputs = [k \in FullKeys |-> NoOutput]
  /\ onDisk = [p \in Paths |-> Absent]
  /\ saves = 0 /\ refused = {}

OutputTypeOK ==
  /\ \A k \in FullKeys : outputs[k].save \in 0..saves /\ outputs[k].scope \in Scopes
                         /\ outputs[k].path \in Paths /\ outputs[k].managed \in BOOLEAN
  /\ onDisk \in [Paths -> {Garbled} \cup 0..saves] /\ saves \in 0..MaxSaves /\ refused \subseteq Paths
-----------------------------------------------------------------------------
(***************************************************************************)
(* _truncate_content.  A character is the number of its bytes, 0 for a     *)
(* line feed, which has one byte too.                                      *)
(***************************************************************************)
BytesOf(content) == SumOf([i \in DOMAIN content |-> IF content[i] = 0 THEN 1 ELSE content[i]])

Feeds(content)   == {i \in DOMAIN content : content[i] = 0}
LinesOf(content) == 1 + Cardinality(Feeds(content))

\* The feed that ends a line.
LineEnd(line, content) ==
  CHOOSE i \in Feeds(content) : Cardinality({j \in Feeds(content) : j <= i}) = line

\* What remains of the first lines and, of that, of the first bytes: whole
\* characters, and one of three bytes for a character that is cut in two.
FirstLines(content) ==
  IF LinesOf(content) > MaxLines THEN SubSeq(content, 1, LineEnd(MaxLines, content) - 1) ELSE content

FirstBytes(content) ==
  LET n == CHOOSE k \in 0..Len(content) : /\ BytesOf(SubSeq(content, 1, k)) <= MaxBytes
                                          /\ k < Len(content) => BytesOf(SubSeq(content, 1, k + 1)) > MaxBytes
      whole == SubSeq(content, 1, n) IN
  IF n < Len(content) /\ BytesOf(whole) < MaxBytes THEN Append(whole, 3) ELSE whole

Preview(content)   == FirstBytes(FirstLines(content))
Truncated(content) == LinesOf(content) > MaxLines \/ BytesOf(FirstLines(content)) > MaxBytes
-----------------------------------------------------------------------------
\* An output that is kept as it is, and one that is too long.
Samples == {<<1>>, [i \in 1..MaxBytes + 1 |-> 1]}

\* The entry is set when the file is written; an older file at the path stays
\* when the new output is short or the store has no directory.
SaveOutput(store, s, key, content) ==
  LET managed == Truncated(content) /\ store = "disk"
      file    == FileOf[<<s, key>>] IN
  /\ saves < MaxSaves /\ saves' = saves + 1
  /\ onDisk' = IF managed THEN [onDisk EXCEPT ![file] = saves'] ELSE onDisk
  /\ refused' = IF managed THEN refused \ {file} ELSE refused
  /\ outputs' = [outputs EXCEPT ![FullKey(s, key)] =
                   [save |-> saves', scope |-> s, managed |-> managed, path |-> file]]

\* The directory or the file cannot be written; the entry is not touched.
SaveFails(s, key) ==
  LET file == FileOf[<<s, key>>] IN
  /\ saves < MaxSaves /\ saves' = saves + 1
  /\ \E held \in {Garbled, onDisk[file]} : onDisk' = [onDisk EXCEPT ![file] = held]
  /\ refused' = refused \cup {file}
  /\ UNCHANGED outputs

OfSession(k, s) == Len(k) > 1 /\ k[1] = s

\* The entries that cleanup() takes for those of the session.
Forgotten(s) == {k \in FullKeys : outputs[k].save # Absent /\ OfSession(k, s)}

\* cleanup: the entries go, their files and the directory of the session if the
\* store has one.  An unlink that fails is passed over for the files of
\* entries, and ends the call in the directory.
CleanupOutputs(store, s) ==
  LET theirs == {p \in Paths : \/ p[1] = s
                               \/ \E k \in Forgotten(s) : outputs[k].managed /\ outputs[k].path = p} IN
  /\ outputs' = [k \in FullKeys |-> IF k \in Forgotten(s) THEN NoOutput ELSE outputs[k]]
  /\ IF store = "memory" THEN UNCHANGED onDisk
     ELSE \E gone \in SUBSET theirs : onDisk' = [p \in Paths |-> IF p \in gone THEN Absent ELSE onDisk[p]]
  /\ UNCHANGED <<saves, refused>>

ClearOutputs ==
  /\ outputs' = [k \in FullKeys |-> NoOutput]
  /\ UNCHANGED <<onDisk, saves, refused>>

OutputNext ==
  \/ \E s \in Scopes, key \in OutputKeys :
       \/ \E store \in StoreKinds, content \in Samples : SaveOutput(store, s, key, content)
       \/ SaveFails(s, key)
  \/ \E store \in StoreKinds, s \in StoreSessions : CleanupOutputs(store, s)
  \/ ClearOutputs

OutputSpec == OutputInit /\ [][OutputNext]_outputVars
-----------------------------------------------------------------------------
\* get(): in the session, or else the key by itself.
Found(s, key) ==
  IF outputs[FullKey(s, key)].save # Absent THEN outputs[FullKey(s, key)] ELSE outputs[key]

\* Only this key leads to the file, and it is in the directory of the session.
OwnFile(s, key) ==
  /\ FileOf[<<s, key>>][1] = s
  /\ \A x \in Scopes \X OutputKeys : FileOf[x] = FileOf[<<s, key>>] => x = <<s, key>>

(***************************************************************************)
(* An output that was too long is in the file that its entry names, until  *)
(* a later output cannot be written there: stores with and without a       *)
(* directory, colons in keys, and the clean-up of one session do not take  *)
(* the file of an entry that stays.  Where a key leads to the file of      *)
(* another one, or out of its directory, the file may be gone or hold a    *)
(* later output, but it never holds an earlier one.                        *)
(***************************************************************************)
FilesHoldOutputs ==
  \A k \in FullKeys :
    LET o == outputs[k] IN
    o.save # Absent /\ o.managed =>
      \/ onDisk[o.path] = o.save \/ o.path \in refused
      \/ /\ onDisk[o.path] = Absent \/ onDisk[o.path] > o.save
         /\ \A s \in Scopes, key \in OutputKeys : FileOf[<<s, key>>] = o.path => ~OwnFile(s, key)

(***************************************************************************)
(* What a session gets under a name without a colon was saved in the       *)
(* session or without one.                                                 *)
(***************************************************************************)
SessionsAreApart ==
  \A s \in StoreSessions, n \in OutputNames : Found(s, <<n>>).scope \in {s, "_global"}

(***************************************************************************)
(* A preview keeps the first lines, says so when it leaves something out,  *)
(* and exceeds its limit by two bytes at most, those of the character that *)
(* stands for one that was cut.  Looked at once, for all contents that go  *)
(* beyond the limits a little.                                             *)
(***************************************************************************)
PreviewFits ==
  saves = 0 =>
    \A content \in UNION {[1..n -> 0..2] : n \in 0..MaxBytes + 1} :
      LET p == Preview(content) IN
      /\ LinesOf(p) <= MaxLines /\ BytesOf(p) <= MaxBytes + 2
      /\ ~Truncated(content) <=> p = content
      /\ \A i \in DOMAIN p : p[i] = content[i] \/ (i = Len(p) /\ p[i] = 3)
=============================================================================
