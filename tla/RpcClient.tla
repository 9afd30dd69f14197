----------------------------- MODULE RpcClient -----------------------------
(***************************************************************************)
(* A client of a server process behind two pipes: MCPClient                *)
(* (mcp/client.py) and LSPClient (lsp/client.py), which differ in the      *)
(* order of their ends.  A request leaves a future under its id and awaits *)
(* it; the read loop takes the answers and completes the futures.  When it *)
(* ends, for whatever reason, nobody completes those that are left.        *)
(*                                                                         *)
(* LSPManager (lsp/manager.py) keeps one client per language; it looks     *)
(* before it starts a server and stores the client afterwards.             *)
(***************************************************************************)
EXTENDS Integers, FiniteSets

CONSTANTS
  Requests,     \* the calls of request(), after the handshake
  Handshake,    \* the "initialize" request of connect() or start()
  LspCallers    \* calls of LSPManager.get_client() for one language

ASSUME RpcAssumption == Handshake \notin Requests

Ids == Requests \cup {Handshake}

VARIABLES
  rpcKind,     \* "mcp" or "lsp"
  process,     \* of the server: none, up, exited (returncode is set)
  readLoop,    \* _reader_task: none, running, ended
  owner,       \* the task that connects and disconnects
  initialized, \* _initialized
  rpcCall,     \* [Ids -> new, waiting, answered, error, cancelled, refused]
  pendingIds,  \* _pending
  inServer,    \* requests the server has got and not answered
  inPipe,      \* answers nobody has read
  lost,        \* requests that the server had when it went; kept for the property
  hurt,        \* the read loop broke off before the end of the answers
  getAt,       \* [LspCallers -> stage of get_client()]
  table,       \* _clients for the language: whose client is in it, or "none"
  servers      \* the callers whose server process runs

clientVars  == <<rpcKind, process, readLoop, owner, initialized, rpcCall, pendingIds,
                 inServer, inPipe, lost, hurt>>
managerVars == <<getAt, table, servers>>
rpcVars     == <<clientVars, managerVars>>

RpcInit ==
  /\ rpcKind \in {"mcp", "lsp"} /\ process = "none" /\ readLoop = "none"
  /\ owner = "idle" /\ initialized = FALSE
  /\ rpcCall = [i \in Ids |-> "new"] /\ pendingIds = {}
  /\ inServer = {} /\ inPipe = {} /\ lost = {} /\ hurt = FALSE
  /\ getAt = [c \in LspCallers |-> "new"] /\ table = "none" /\ servers = {}

RpcTypeOK ==
  /\ rpcKind \in {"mcp", "lsp"} /\ process \in {"none", "up", "exited"}
  /\ readLoop \in {"none", "running", "ended"}
  /\ owner \in {"idle", "handshake", "connected", "closing", "terminating", "over"}
  /\ initialized \in BOOLEAN /\ hurt \in BOOLEAN
  /\ rpcCall \in [Ids -> {"new", "waiting", "answered", "error", "cancelled", "refused"}]
  /\ pendingIds \cup inServer \cup inPipe \cup lost \subseteq Ids
  /\ getAt \in [LspCallers -> {"new", "starting", "got", "stopped"}]
  /\ table \in LspCallers \cup {"none"} /\ servers \subseteq LspCallers
-----------------------------------------------------------------------------
(***************************************************************************)
(* Requests and their answers.                                             *)
(***************************************************************************)
\* A request with the pipe open, or with one that turns out to be closed while
\* the server counts as running: then the send raises and the id stays in
\* _pending.
Sent(i) ==
  /\ pendingIds' = pendingIds \cup {i}
  /\ \/ rpcCall' = [rpcCall EXCEPT ![i] = "waiting"] /\ inServer' = inServer \cup {i}
     \/ rpcCall' = [rpcCall EXCEPT ![i] = "error"] /\ UNCHANGED inServer

Request(i) ==
  /\ i \in Requests /\ rpcCall[i] = "new" /\ owner # "idle"
  /\ IF process = "up" THEN Sent(i)
     ELSE rpcCall' = [rpcCall EXCEPT ![i] = "refused"] /\ UNCHANGED <<pendingIds, inServer>>
  /\ UNCHANGED <<rpcKind, process, readLoop, owner, initialized, inPipe, lost, hurt, managerVars>>

ServerAnswers(i) ==
  /\ process = "up" /\ i \in inServer
  /\ inServer' = inServer \ {i} /\ inPipe' = inPipe \cup {i}
  /\ UNCHANGED <<rpcKind, process, readLoop, owner, initialized, rpcCall, pendingIds, lost, hurt, managerVars>>

\* The read loop takes an answer.  A future that was cancelled cannot be
\* completed: the error ends the loop.
Receive(i) ==
  /\ readLoop = "running" /\ i \in inPipe
  /\ inPipe' = inPipe \ {i} /\ pendingIds' = pendingIds \ {i}
  /\ IF rpcCall[i] = "waiting"
       THEN /\ \E how \in {"answered", "error"} : rpcCall' = [rpcCall EXCEPT ![i] = how]
            /\ UNCHANGED <<readLoop, hurt>>
       ELSE readLoop' = "ended" /\ hurt' = TRUE /\ UNCHANGED rpcCall
  /\ UNCHANGED <<rpcKind, process, owner, initialized, inServer, lost, managerVars>>

\* The caller is cancelled; its id stays in _pending.
CancelCall(i) ==
  /\ i \in Requests /\ rpcCall[i] = "waiting"
  /\ rpcCall' = [rpcCall EXCEPT ![i] = "cancelled"]
  /\ UNCHANGED <<rpcKind, process, readLoop, owner, initialized, pendingIds, inServer, inPipe, lost, hurt, managerVars>>

ServerExits ==
  /\ process = "up"
  /\ process' = "exited" /\ inServer' = {} /\ lost' = lost \cup inServer
  /\ UNCHANGED <<rpcKind, readLoop, owner, initialized, rpcCall, pendingIds, inPipe, hurt, managerVars>>

\* End of file behind the last answer, or a message that cannot be parsed.
LoopEnds ==
  /\ readLoop = "running"
  /\ \/ process = "exited" /\ inPipe = {} /\ UNCHANGED hurt
     \/ hurt' = TRUE
  /\ readLoop' = "ended"
  /\ UNCHANGED <<rpcKind, process, owner, initialized, rpcCall, pendingIds, inServer, inPipe, lost, managerVars>>
-----------------------------------------------------------------------------
(***************************************************************************)
(* connect() and disconnect(), start() and stop().                         *)
(***************************************************************************)
Launch ==
  /\ owner = "idle" /\ process # "up"
  /\ process' = "up" /\ readLoop' = "running" /\ owner' = "handshake"
  /\ rpcCall' = [rpcCall EXCEPT ![Handshake] = "waiting"]
  /\ pendingIds' = {Handshake} /\ inServer' = {Handshake}
  /\ UNCHANGED <<rpcKind, initialized, inPipe, lost, hurt, managerVars>>

\* The handshake is answered and "initialized" sent; a refused one is raised and
\* leaves the process running.
HandshakeEnds ==
  /\ owner = "handshake" /\ rpcCall[Handshake] \in {"answered", "error"}
  /\ initialized' = (rpcKind = "lsp" /\ rpcCall[Handshake] = "answered")
  /\ owner' = "connected"
  /\ UNCHANGED <<rpcKind, process, readLoop, rpcCall, pendingIds, inServer, inPipe, lost, hurt, managerVars>>

\* MCPClient ends the read loop first and then tells the server; LSPClient tells
\* it first, if the handshake came through.
StopReading == readLoop' = "ended" /\ hurt' = TRUE

CloseBegins ==
  /\ owner = "connected"
  /\ IF rpcKind = "mcp" \/ ~initialized
       THEN StopReading /\ owner' = "terminating" /\ UNCHANGED initialized
       ELSE owner' = "closing" /\ initialized' = FALSE /\ UNCHANGED <<readLoop, hurt>>
  /\ UNCHANGED <<rpcKind, process, rpcCall, pendingIds, inServer, inPipe, lost, managerVars>>

\* LSPClient's "shutdown" is sent, or raises LSPError as the process is gone; an
\* error of the pipe itself leaves stop() and everything as it is.
ShutdownSent ==
  /\ owner = "closing"
  /\ \/ StopReading /\ owner' = "terminating"
     \/ process = "exited" /\ owner' = "over" /\ UNCHANGED <<readLoop, hurt>>
  /\ UNCHANGED <<rpcKind, process, initialized, rpcCall, pendingIds, inServer, inPipe, lost, managerVars>>

\* terminate(), and kill() five seconds later: the fields are cleared.
Terminated ==
  /\ owner = "terminating"
  /\ process' = IF process = "up" THEN "none" ELSE process
  /\ owner' = "over" /\ inServer' = {} /\ lost' = lost \cup inServer
  /\ UNCHANGED <<rpcKind, readLoop, initialized, rpcCall, pendingIds, inPipe, hurt, managerVars>>
-----------------------------------------------------------------------------
(***************************************************************************)
(* LSPManager.                                                             *)
(***************************************************************************)
GetClient(c) ==
  /\ getAt[c] = "new"
  /\ getAt' = [getAt EXCEPT ![c] = IF table # "none" THEN "got" ELSE "starting"]
  /\ servers' = IF table # "none" THEN servers ELSE servers \cup {c}
  /\ UNCHANGED <<clientVars, table>>

\* start() returned, and the client replaces whatever is in the table; or it
\* raised, and the process, if there is one, stays.
ClientStarts(c) ==
  /\ getAt[c] = "starting"
  /\ \/ table' = c
     \/ UNCHANGED table
  /\ getAt' = [getAt EXCEPT ![c] = "got"]
  /\ UNCHANGED <<clientVars, servers>>

\* close_all() stops what is in the table.
CloseAll ==
  /\ table # "none"
  /\ servers' = servers \ {table} /\ table' = "none"
  /\ UNCHANGED <<clientVars, getAt>>
-----------------------------------------------------------------------------
ClientNext ==
  \/ \E i \in Ids : Request(i) \/ ServerAnswers(i) \/ Receive(i) \/ CancelCall(i)
  \/ ServerExits \/ LoopEnds
  \/ Launch \/ HandshakeEnds \/ CloseBegins \/ ShutdownSent \/ Terminated

ManagerNext == CloseAll \/ \E c \in LspCallers : GetClient(c) \/ ClientStarts(c)

RpcSpec == RpcInit /\ [][ClientNext \/ ManagerNext]_rpcVars
-----------------------------------------------------------------------------
(***************************************************************************)
(* No answer of a call that waits is lost: the loop still knows the call,  *)
(* and its answer is with the server, in the pipe, or gone with a server   *)
(* that exited or was terminated.  As long as the loop did not break off,  *)
(* by a close, a message that cannot be parsed, or an answer that met a    *)
(* cancelled call, only those calls wait in vain that the server took with *)
(* it; and these do for ever, as the calls have no time limit.             *)
(***************************************************************************)
WaitersAreHeard ==
  \A i \in Ids : rpcCall[i] = "waiting" =>
    /\ i \in pendingIds
    /\ i \in inServer \cup inPipe \cup lost
    /\ hurt \/ readLoop = "running" \/ i \in lost
=============================================================================
