---------------------------- MODULE RequestGuards ----------------------------
(***************************************************************************)
(* What a request passes before its endpoint: the middlewares of           *)
(* server/app.py and the sliding window of RateLimiter.  The middleware    *)
(* that was added last sees a request first.  They see no WebSocket.       *)
(***************************************************************************)
EXTENDS Integers, Sequences, SequencesExt, FiniteSets

CONSTANTS
  Hosts, LocalHosts,   \* clients, and those that localhost_only lets through
  MaxRequests,         \* max_requests
  Window,              \* window_seconds
  MaxClock             \* bound of the model: how long it runs

ASSUME GuardAssumption == LocalHosts \subseteq Hosts /\ {MaxRequests, Window, MaxClock} \subseteq Nat

VARIABLES
  now,        \* the monotonic clock
  windows,    \* [Hosts -> the timestamps kept for the host]; never empty once there
  limited     \* [Hosts -> the times at which a chat of the host was let through]

guardVars == <<now, windows, limited>>

GuardInit == now = 0 /\ windows = [h \in Hosts |-> <<>>] /\ limited = [h \in Hosts |-> <<>>]

GuardTypeOK ==
  /\ now \in 0..MaxClock
  /\ windows \in [Hosts -> Seq(0..MaxClock)] /\ limited \in [Hosts -> Seq(0..MaxClock)]
-----------------------------------------------------------------------------
Tick == now < MaxClock /\ now' = now + 1 /\ UNCHANGED <<windows, limited>>

\* The timestamps that are left when those older than the window have been
\* popped from the head.
Popped(timestamps) == {k \in DOMAIN timestamps : \A j \in 1..k : timestamps[j] < now - Window}
Recent(timestamps) == SubSeq(timestamps, Cardinality(Popped(timestamps)) + 1, Len(timestamps))

UnderLimit(h) == MaxRequests > 0 /\ Len(Recent(windows[h])) < MaxRequests

\* RateLimiter.check: what is too old goes, whether the request is let through
\* or not; with a maximum of 0 not even that.
Check(h) ==
  windows' = [windows EXCEPT ![h] =
                CASE MaxRequests <= 0                     -> @
                  [] MaxRequests > 0 /\ UnderLimit(h)     -> Append(Recent(@), now)
                  [] MaxRequests > 0 /\ ~UnderLimit(h)    -> Recent(@)]

\* A request to one of the two chat endpoints.
ChatRequest(h) ==
  /\ h \in LocalHosts
  /\ Check(h)
  /\ limited' = IF UnderLimit(h) THEN [limited EXCEPT ![h] = Append(@, now)] ELSE limited
  /\ UNCHANGED now

\* Hosts without a recent request are forgotten.
Cleanup ==
  /\ windows' = [h \in Hosts |-> IF windows[h] # <<>> /\ Last(windows[h]) < now - Window
                                 THEN <<>> ELSE windows[h]]
  /\ UNCHANGED <<now, limited>>

GuardNext == Tick \/ Cleanup \/ \E h \in Hosts : ChatRequest(h)
GuardSpec == GuardInit /\ [][GuardNext]_guardVars
-----------------------------------------------------------------------------
LetThrough(h, from, to) == {i \in DOMAIN limited[h] : limited[h][i] \in from..to}

\* In no window do more chats of a host pass than the limit allows, and none
\* is turned away before: neither eviction nor cleanup forgets a timestamp too
\* early or keeps one too long.  Who is not local takes nobody's turn.
WindowIsExact ==
  \A h \in Hosts :
    /\ \A t \in 0..MaxClock : Cardinality(LetThrough(h, t - Window, t)) <= MaxRequests
    /\ UnderLimit(h) <=> Cardinality(LetThrough(h, now - Window, now)) < MaxRequests
    /\ h \notin LocalHosts => limited[h] = <<>> /\ windows[h] = <<>>
=============================================================================
