---------------------------- MODULE OAuthTokens ----------------------------
(***************************************************************************)
(* The OAuth tokens of an MCP server (mcp/auth.py): clients share one      *)
(* provider, which keeps one token in its store and works on it under a    *)
(* lock; a request that is refused asks for the token again and is sent    *)
(* once more.                                                              *)
(*                                                                         *)
(* Tokens are numbered as they are issued.  The authorization server is    *)
(* external: it may refuse to refresh or to authorize, issue tokens with   *)
(* or without a refresh token, and revoke a token before it expires.       *)
(***************************************************************************)
EXTENDS Integers, FifoPermits

CONSTANTS
  OAuthClients,   \* MCPOAuthClients
  MaxTokens,      \* bound of the model: tokens issued
  MaxCleared      \* bound of the model: calls of clear_auth and revocations

ASSUME OAuthAssumption == {MaxTokens, MaxCleared} \subseteq Nat

VARIABLES
  storedToken, \* the number of the token in the store, 0 for none
  refreshable, \* the tokens that came with a refresh token
  expired,     \* the tokens that are over, or over within the buffer
  revoked,     \* the tokens that the server takes no more before that
  refreshed,   \* how often the refresh token of each token has brought a new one
  lockQueue,   \* who waits for the provider's lock, its holder first
  oauth,       \* where each client is, its token and whether it has retried
  cleared      \* calls of clear_auth and revocations

oauthVars == <<storedToken, refreshable, expired, revoked, refreshed, lockQueue, oauth, cleared>>

Issued == Len(refreshed)
Tokens == 1..Issued

Outside == [at |-> "out", token |-> 0, retried |-> FALSE, from |-> 0]

OAuthInit ==
  /\ storedToken = 0 /\ refreshable = {} /\ expired = {} /\ revoked = {} /\ refreshed = <<>>
  /\ lockQueue = <<>> /\ cleared = 0
  /\ oauth = [c \in OAuthClients |-> Outside]

OAuthTypeOK ==
  /\ storedToken \in 0..Issued /\ Issued <= MaxTokens
  /\ refreshable \subseteq Tokens /\ expired \subseteq Tokens /\ revoked \subseteq Tokens
  /\ \A k \in Tokens : refreshed[k] \in Nat
  /\ cleared \in 0..MaxCleared
  /\ \A c \in OAuthClients :
       /\ oauth[c].at \in {"out", "waiting", "refreshing", "authorizing", "clearing", "ready", "sent"}
       /\ oauth[c].token \in 0..Issued /\ oauth[c].from \in 0..Issued
-----------------------------------------------------------------------------
Waits(c)    == lockQueue' = Append(lockQueue, c)
Releases(c) == lockQueue' = StepOut(lockQueue, c)

HasLock(c) == lockQueue # <<>> /\ Head(lockQueue) = c

\* The client is entered, or leaves.
EnterClient(c) ==
  /\ oauth[c].at = "out"
  /\ Waits(c)
  /\ oauth' = [oauth EXCEPT ![c].at = "waiting"]
  /\ UNCHANGED <<storedToken, refreshable, expired, revoked, refreshed, cleared>>

LeaveClient(c) ==
  /\ oauth[c].at = "ready"
  /\ oauth' = [oauth EXCEPT ![c] = Outside]
  /\ UNCHANGED <<storedToken, refreshable, expired, revoked, refreshed, lockQueue, cleared>>

\* get_token() has its token: the client is entered, or sends its request
\* again.
Gets(c, k) ==
  /\ Releases(c)
  /\ oauth' = [oauth EXCEPT ![c].token = k, ![c].from = 0,
                            ![c].at = IF oauth[c].retried THEN "sent" ELSE "ready"]

\* get_token() reads the store under the lock.
ReadToken(c) ==
  /\ oauth[c].at = "waiting" /\ HasLock(c)
  /\ IF storedToken # 0 /\ storedToken \notin expired THEN Gets(c, storedToken)
     ELSE /\ oauth' = [oauth EXCEPT ![c].from = storedToken,
                         ![c].at = IF storedToken \in refreshable THEN "refreshing" ELSE "authorizing"]
          /\ UNCHANGED lockQueue
  /\ UNCHANGED <<storedToken, refreshable, expired, revoked, refreshed, cleared>>

\* The answer of the token endpoint is stored before the lock is released.
StoresToken(c, grown) ==
  LET k == Issued + 1 IN
  /\ Issued < MaxTokens
  /\ refreshed' = Append(grown, 0)
  /\ storedToken' = k
  /\ refreshable' \in {refreshable, refreshable \cup {k}}
  /\ Gets(c, k)
  /\ UNCHANGED <<expired, revoked, cleared>>

RefreshToken(c) ==
  /\ oauth[c].at = "refreshing"
  /\ StoresToken(c, [refreshed EXCEPT ![oauth[c].from] = @ + 1])

\* A refresh that fails leads to an authorization.
RefreshFails(c) ==
  /\ oauth[c].at = "refreshing"
  /\ oauth' = [oauth EXCEPT ![c].at = "authorizing"]
  /\ UNCHANGED <<storedToken, refreshable, expired, revoked, refreshed, lockQueue, cleared>>

Authorize(c) == oauth[c].at = "authorizing" /\ StoresToken(c, refreshed)

\* No grant, a wrong state, or the task is cancelled at any await: get_token()
\* raises and leaves the store alone.
AuthorizeFails(c) ==
  /\ oauth[c].at \in {"waiting", "refreshing", "authorizing"}
  /\ Releases(c)
  /\ oauth' = [oauth EXCEPT ![c] = Outside]
  /\ UNCHANGED <<storedToken, refreshable, expired, revoked, refreshed, cleared>>

\* clear_auth(), by the user of a client.
AskToClear(c) ==
  /\ oauth[c].at = "out" /\ cleared < MaxCleared
  /\ Waits(c)
  /\ oauth' = [oauth EXCEPT ![c].at = "clearing"]
  /\ cleared' = cleared + 1
  /\ UNCHANGED <<storedToken, refreshable, expired, revoked, refreshed>>

ClearAuth(c) ==
  /\ oauth[c].at = "clearing" /\ HasLock(c)
  /\ storedToken' = 0
  /\ Releases(c)
  /\ oauth' = [oauth EXCEPT ![c] = Outside]
  /\ UNCHANGED <<refreshable, expired, revoked, refreshed, cleared>>

SendRequest(c) ==
  /\ oauth[c].at = "ready"
  /\ oauth' = [oauth EXCEPT ![c].at = "sent", ![c].retried = FALSE]
  /\ UNCHANGED <<storedToken, refreshable, expired, revoked, refreshed, lockQueue, cleared>>

\* 401 leads to get_token(), once; every other answer ends the request.
RequestAnswered(c) ==
  LET k == oauth[c].token IN
  /\ oauth[c].at = "sent"
  /\ IF k \in expired \cup revoked /\ ~oauth[c].retried
       THEN /\ Waits(c)
            /\ oauth' = [oauth EXCEPT ![c].at = "waiting", ![c].retried = TRUE]
       ELSE /\ oauth' = [oauth EXCEPT ![c].at = "ready", ![c].retried = FALSE]
            /\ UNCHANGED lockQueue
  /\ UNCHANGED <<storedToken, refreshable, expired, revoked, refreshed, cleared>>

TokenExpires ==
  /\ \E k \in Tokens \ expired : expired' = expired \cup {k}
  /\ UNCHANGED <<storedToken, refreshable, revoked, refreshed, lockQueue, oauth, cleared>>

TokenRevoked ==
  /\ cleared < MaxCleared /\ cleared' = cleared + 1
  /\ \E k \in Tokens \ revoked : revoked' = revoked \cup {k}
  /\ UNCHANGED <<storedToken, refreshable, expired, refreshed, lockQueue, oauth>>

OAuthNext ==
  \/ TokenExpires \/ TokenRevoked
  \/ \E c \in OAuthClients :
       \/ EnterClient(c) \/ LeaveClient(c) \/ ReadToken(c) \/ RefreshToken(c) \/ RefreshFails(c)
       \/ Authorize(c) \/ AuthorizeFails(c) \/ AskToClear(c) \/ ClearAuth(c)
       \/ SendRequest(c) \/ RequestAnswered(c)

OAuthSpec == OAuthInit /\ [][OAuthNext]_oauthVars
-----------------------------------------------------------------------------
(***************************************************************************)
(* A refresh token brings a new token at most once: clients that find the  *)
(* same token over do not each refresh it, and a token that was refreshed  *)
(* never comes back to the store.                                          *)
(***************************************************************************)
RefreshedOnce ==
  \A k \in Tokens : refreshed[k] <= 1 /\ (refreshed[k] = 1 => storedToken # k)

(***************************************************************************)
(* No two clients ask the authorization server at the same time, and who   *)
(* asks has found no token that serves: a token which is stored meanwhile  *)
(* is never written over.                                                  *)
(***************************************************************************)
OneAsks ==
  \A c \in OAuthClients : oauth[c].at \in {"refreshing", "authorizing"} =>
    /\ storedToken = oauth[c].from /\ (storedToken = 0 \/ storedToken \in expired)
    /\ \A d \in OAuthClients \ {c} : oauth[d].at \notin {"refreshing", "authorizing"}
=============================================================================
