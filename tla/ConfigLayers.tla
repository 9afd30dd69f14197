---------------------------- MODULE ConfigLayers ----------------------------
(***************************************************************************)
(* The configuration: layers of files, environment and database merged in  *)
(* the order of their priority (core/config.py, core/config_scanner.py,    *)
(* and the structured core/config_v2.py), and the requests that save the   *)
(* one layer in the database and the key in the keychain (server/app.py).  *)
(*                                                                         *)
(* A layer says of every field what it holds: a value, the empty string,   *)
(* or nothing.  PUT reads the row, and other requests come in before it    *)
(* writes the row back; the key is stored before.                          *)
(***************************************************************************)
EXTENDS Integers, Sequences, SequencesExt, FiniteSets

CONSTANTS
  ConfigFields,
  ModelFields,     \* those of the section "model" of ConfigV2
  ListFields,      \* its lists: permissions, mcp and plugin
  PromptFields,    \* its agent "default", the prompt of the environment
  FileLayers,      \* sequence of the configuration files, lowest priority first
  ConfigCalls      \* requests, each of which writes its own name

ASSUME ConfigAssumption ==
  /\ ModelFields \subseteq ConfigFields
  /\ ListFields \subseteq ConfigFields \ ModelFields
  /\ PromptFields \subseteq ConfigFields \ (ModelFields \cup ListFields)
  /\ FileLayers \in Seq(Range(FileLayers))   \* it is a sequence, of any layers

Unset   == "unset"
Empty   == "empty"
Default == "default"
NoKey   == "no key"

Layers(name) == [ConfigFields -> {Unset, Empty, name}]
Nothing      == [f \in ConfigFields |-> Unset]
NoRow        == [f \in ConfigFields |-> "no row"]
Defaults     == [f \in ConfigFields |-> Default]

VARIABLES
  files,      \* [DOMAIN FileLayers -> layer]
  environ,    \* the layer of the CSCODE_ variables; empty ones do not count
  configRow,  \* the row user_config, or NoRow
  keychain,   \* who stored the API key, or NoKey
  configCall, \* [ConfigCalls -> [at, updates, read]]
  askedRow,      \* the row, had the requests been done one after the other
  disturbed   \* a save failed, or wrote over the one of another request

configVars == <<files, environ, configRow, keychain, configCall, askedRow, disturbed>>

NewCall  == [at |-> "new", updates |-> Nothing, read |-> Nothing]
Answered == [NewCall EXCEPT !.at = "done"]

ConfigInit ==
  /\ files \in {g \in [DOMAIN FileLayers -> UNION {Layers(n) : n \in Range(FileLayers)}] :
                  \A k \in DOMAIN FileLayers : g[k] \in Layers(FileLayers[k])}
  /\ environ \in [ConfigFields -> {Unset, "environ"}]
  /\ configRow = NoRow /\ askedRow = NoRow /\ keychain = NoKey /\ disturbed = FALSE
  /\ configCall = [c \in ConfigCalls |-> NewCall]

Rows == [ConfigFields -> {Unset, Empty, Default} \cup ConfigCalls]

ConfigTypeOK ==
  /\ \A k \in DOMAIN FileLayers : files[k] \in Layers(FileLayers[k])
  /\ environ \in Layers("environ")
  /\ {configRow, askedRow} \subseteq Rows \cup {NoRow} /\ keychain \in ConfigCalls \cup {NoKey}
  /\ configCall \in [ConfigCalls -> [at : {"new", "saving", "done"}, updates : Rows, read : Rows]]
  /\ disturbed \in BOOLEAN
-----------------------------------------------------------------------------
(***************************************************************************)
(* Config: what a layer sets explicitly, and is not empty, counts.         *)
(***************************************************************************)
Explicit(layer) == {f \in ConfigFields : layer[f] \notin {Unset, Empty}}

MergeConfig(base, over) ==
  [f \in ConfigFields |-> IF f \in Explicit(over) THEN over[f] ELSE base[f]]

\* The layers, lowest first, merged one after the other.
Merged(layers) ==
  LET merged[k \in 0..Len(layers)] ==
        IF k = 0 THEN Defaults ELSE MergeConfig(merged[k - 1], layers[k])
  IN  merged[Len(layers)]

RowLayer(row) == IF row = NoRow THEN <<>> ELSE <<row>>

\* load_config(): files, database, environment.
LoadConfig(row) == Merged(files \o RowLayer(row) \o <<environ>>)

\* load_config_from_layers(): files, environment, database.
LoadFromLayers(row) == Merged(files \o <<environ>> \o RowLayer(row))

(***************************************************************************)
(* ConfigV2.  The sections "shell" and "attachment" and every entry of     *)
(* "agent" and "provider" are fields that a layer replaces as a whole, an  *)
(* empty one too, for that is a section with its defaults.  A list that is *)
(* empty does not replace.  The model section is never missing, for the    *)
(* configuration starts with a default one and so does every layer.        *)
(***************************************************************************)
FromDict(layer) == [f \in ConfigFields |-> IF layer[f] = Unset THEN Default ELSE layer[f]]

\* What a layer says of a field that leaves the one below it in place.
Silent(f) == IF f \in ListFields THEN {Unset, Empty} ELSE {Unset}

\* Mutant of MergeV2: an empty list replaces, as the docstring has it.
MergeV2Whole(base, over) ==
  [f \in ConfigFields |-> IF f \in ModelFields \/ over[f] # Unset THEN FromDict(over)[f] ELSE base[f]]

MergeV2(base, over) ==
  [f \in ConfigFields |->
     IF f \in ModelFields \/ over[f] \notin Silent(f) THEN FromDict(over)[f] ELSE base[f]]

\* The environment is left out when it is empty.  It fills the model section and,
\* with its system prompt, the agent "default".
OfEnviron    == [f \in ConfigFields |-> IF f \in ModelFields \cup PromptFields THEN environ[f] ELSE Unset]
EnvironLayer == IF environ = Nothing THEN <<>> ELSE <<OfEnviron>>

MergedV2(layers) ==
  LET merged[k \in 0..Len(layers)] ==
        IF k = 0 THEN Defaults ELSE MergeV2(merged[k - 1], layers[k])
  IN  merged[Len(layers)]

\* load() of ConfigV2: files, environment, and the row unless there is nothing in it.
RowLayerV2(row) == IF row = Nothing THEN <<>> ELSE RowLayer(row)
LayersV2(row)   == files \o EnvironLayer \o RowLayerV2(row)
LoadV2(row)     == MergedV2(LayersV2(row))
-----------------------------------------------------------------------------
(***************************************************************************)
(* The requests.                                                           *)
(***************************************************************************)
\* The statement or the commit may fail.
Saves(row) == \/ configRow' = row /\ UNCHANGED disturbed
              \/ disturbed' = TRUE /\ UNCHANGED configRow

\* With no keyring, or when it raises, both do nothing and say nothing.
StoreKey(c) == keychain' \in {c, keychain}
DeleteKey   == keychain' \in {NoKey, keychain}

\* What a partial update leaves of a row.
Updated(row, updates) ==
  LET base == IF row = NoRow THEN Nothing ELSE row IN
  [f \in ConfigFields |-> IF updates[f] = Unset THEN base[f] ELSE updates[f]]

\* POST /config: the key is stored or deleted; every field is written, with its
\* default when the request leaves it out.
SaveConfig(c) ==
  /\ configCall[c].at = "new"
  /\ StoreKey(c) \/ DeleteKey
  /\ \E fields \in SUBSET ConfigFields :
       LET row == [f \in ConfigFields |-> IF f \in fields THEN c ELSE Default] IN
       Saves(row) /\ askedRow' = row
  /\ configCall' = [configCall EXCEPT ![c] = Answered]
  /\ UNCHANGED <<files, environ>>

\* PUT /config: the key is touched only when the request names it; the row is read.
UpdateConfig(c) ==
  /\ configCall[c].at = "new"
  /\ StoreKey(c) \/ DeleteKey \/ UNCHANGED keychain
  /\ \E updates \in Layers(c) :
       configCall' = [configCall EXCEPT ![c] =
         [at |-> "saving", updates |-> updates, read |-> Updated(configRow, Nothing)]]
  /\ UNCHANGED <<files, environ, configRow, askedRow, disturbed>>

\* Mutant of WriteUpdate: the request replaces the row.
WriteReplacement(c) ==
  LET call == configCall[c] IN
  /\ call.at = "saving"
  /\ configRow' = call.updates
  /\ askedRow' = Updated(askedRow, call.updates)
  /\ disturbed' = (disturbed \/ call.read # Updated(configRow, Nothing))
  /\ configCall' = [configCall EXCEPT ![c] = Answered]
  /\ UNCHANGED <<files, environ, keychain>>

\* The updated row is written, whatever has become of the row meanwhile.
WriteUpdate(c) ==
  LET call == configCall[c] IN
  /\ call.at = "saving"
  /\ \/ /\ configRow' = Updated(call.read, call.updates)
        /\ disturbed' = (disturbed \/ call.read # Updated(configRow, Nothing))
     \/ disturbed' = TRUE /\ UNCHANGED configRow
  /\ askedRow' = Updated(askedRow, call.updates)
  /\ configCall' = [configCall EXCEPT ![c] = Answered]
  /\ UNCHANGED <<files, environ, keychain>>

ConfigNext == \E c \in ConfigCalls : SaveConfig(c) \/ UpdateConfig(c) \/ WriteUpdate(c)

ConfigSpec == ConfigInit /\ [][ConfigNext]_configVars
-----------------------------------------------------------------------------
\* The last of the layers that says something of a field: none of silent.
LastSaying(f, layers, silent) ==
  LET having == {k \in DOMAIN layers : layers[k][f] \notin silent} IN
  IF having = {} THEN Default ELSE layers[CHOOSE k \in having : \A j \in having : j <= k][f]

(***************************************************************************)
(* "merge() only overrides [explicit fields] and never clobbers lower-     *)
(* priority values with dataclass defaults": whatever was saved and        *)
(* however often, a field has the value of the highest layer that sets it. *)
(* In ConfigV2 the same holds of its sections, lists and entries, where an *)
(* empty list says nothing; of the environment only the prompt is among    *)
(* them.  The model section is that of the last layer alone, whatever the  *)
(* layers below it set.                                                    *)
(***************************************************************************)
HighestLayerWins ==
  LET row == RowLayer(configRow) IN
  \A f \in ConfigFields :
    /\ LoadConfig(configRow)[f] = LastSaying(f, files \o row \o <<environ>>, {Unset, Empty})
    /\ LoadFromLayers(configRow)[f] = LastSaying(f, files \o <<environ>> \o row, {Unset, Empty})
    /\ f \in PromptFields =>
         LoadV2(configRow)[f] = LastSaying(f, files \o <<environ>> \o row, {Unset})
    /\ f \in ListFields =>
         LoadV2(configRow)[f] = LastSaying(f, files \o row, {Unset, Empty})
    /\ f \notin ModelFields \cup PromptFields \cup ListFields =>
         LoadV2(configRow)[f] = LastSaying(f, files \o row, {Unset})
    /\ f \in ModelFields =>
         LET layers == LayersV2(configRow) IN
         LoadV2(configRow)[f] = IF layers = <<>> \/ Last(layers)[f] = Unset THEN Default
                                ELSE Last(layers)[f]

(***************************************************************************)
(* As long as no save fails and none writes over another's, the row is     *)
(* what the requests ask for in the order in which they are answered; an   *)
(* update keeps the fields it does not name.                               *)
(***************************************************************************)
SavedAsAsked == ~disturbed => configRow = askedRow
=============================================================================
