---------------------------- MODULE EventBridge ----------------------------
(***************************************************************************)
(* WebSocketManager (server/integration.py): clients, their subscriptions  *)
(* and the task that forwards the events of the store.  The bridge takes   *)
(* the set of subscribed sessions once, when it starts, and then forwards  *)
(* each of them from its first event on; an event goes to the clients one  *)
(* by one.  A client the send of which fails is disconnected.              *)
(***************************************************************************)
EXTENDS Integers, Sequences, FiniteSets

CONSTANTS
  WsClients, WsSessions,
  MaxStored,     \* bound of the model: events of a session
  MaxBridges     \* bound of the model: starts of the bridge

ASSUME EventBridgeAssumption == {MaxStored, MaxBridges} \subseteq Nat

VARIABLES
  stored,       \* [WsSessions -> number of events in the store]
  connected,    \* _clients
  subs,         \* [WsClients -> session_ids]
  bridge,       \* _event_task: none, created, forwarding, over
  bridges,      \* starts so far
  forwarded,    \* [WsSessions -> events read by its forwarding task, -1: no task]
  sendingTo,    \* [WsSessions -> clients the last of them still has to reach]
  heard         \* [WsClients -> [WsSessions -> events since it subscribed]]

bridgeVars == <<stored, connected, subs, bridge, bridges, forwarded, sendingTo, heard>>

NoTask    == [s \in WsSessions |-> -1]
NotHeard  == [s \in WsSessions |-> <<>>]

BridgeInit ==
  /\ stored = [s \in WsSessions |-> 0] /\ connected = {}
  /\ subs = [c \in WsClients |-> {}] /\ bridge = "none" /\ bridges = 0
  /\ forwarded = NoTask /\ sendingTo = [s \in WsSessions |-> {}]
  /\ heard = [c \in WsClients |-> NotHeard]

BridgeTypeOK ==
  /\ stored \in [WsSessions -> 0..MaxStored] /\ connected \subseteq WsClients
  /\ subs \in [WsClients -> SUBSET WsSessions]
  /\ bridge \in {"none", "created", "forwarding", "over"} /\ bridges \in 0..MaxBridges
  /\ forwarded \in [WsSessions -> -1..MaxStored]
  /\ sendingTo \in [WsSessions -> SUBSET WsClients]
  /\ \A c \in WsClients, s \in WsSessions : heard[c][s] \in Seq(1..MaxStored)
-----------------------------------------------------------------------------
StoreEvent(s) ==
  /\ stored[s] < MaxStored
  /\ stored' = [stored EXCEPT ![s] = @ + 1]
  /\ UNCHANGED <<connected, subs, bridge, bridges, forwarded, sendingTo, heard>>

Connect(c) ==
  /\ c \notin connected
  /\ connected' = connected \cup {c} /\ subs' = [subs EXCEPT ![c] = {}]
  /\ heard' = [heard EXCEPT ![c] = NotHeard]
  /\ UNCHANGED <<stored, bridge, bridges, forwarded, sendingTo>>

\* The client leaves, a send fails, or cleanup_stale() finds it closed.
Disconnect(c) ==
  /\ c \in connected
  /\ connected' = connected \ {c}
  /\ UNCHANGED <<stored, subs, bridge, bridges, forwarded, sendingTo, heard>>

Subscribe(c, s) ==
  /\ c \in connected /\ s \notin subs[c]
  /\ subs' = [subs EXCEPT ![c] = @ \cup {s}]
  /\ heard' = [heard EXCEPT ![c][s] = <<>>]
  /\ UNCHANGED <<stored, connected, bridge, bridges, forwarded, sendingTo>>

Unsubscribe(c, s) ==
  /\ c \in connected /\ s \in subs[c]
  /\ subs' = [subs EXCEPT ![c] = @ \ {s}]
  /\ UNCHANGED <<stored, connected, bridge, bridges, forwarded, sendingTo, heard>>

\* start_event_bridge(): nothing while there is a task, a finished one included.
StartBridge ==
  /\ bridge = "none" /\ bridges < MaxBridges
  /\ bridge' = "created" /\ bridges' = bridges + 1
  /\ heard' = [c \in WsClients |-> NotHeard]    \* a new bridge begins anew
  /\ UNCHANGED <<stored, connected, subs, forwarded, sendingTo>>

\* The task takes the sessions somebody is subscribed to, or returns.
TakeSessions ==
  LET wanted == UNION {subs[c] : c \in connected} IN
  /\ bridge = "created"
  /\ bridge' = IF wanted = {} THEN "over" ELSE "forwarding"
  /\ forwarded' = [s \in WsSessions |-> IF s \in wanted THEN 0 ELSE -1]
  /\ UNCHANGED <<stored, connected, subs, bridges, sendingTo, heard>>

\* The next event of the session, and the clients there are.
Forward(s) ==
  /\ bridge = "forwarding" /\ forwarded[s] \in 0..(stored[s] - 1) /\ sendingTo[s] = {}
  /\ forwarded' = [forwarded EXCEPT ![s] = @ + 1]
  /\ sendingTo' = [sendingTo EXCEPT ![s] = connected]
  /\ UNCHANGED <<stored, connected, subs, bridge, bridges, heard>>

\* One client's turn in broadcast(): it is left out unless it is subscribed now.
SendTo(s, c) ==
  /\ c \in sendingTo[s]
  /\ sendingTo' = [sendingTo EXCEPT ![s] = @ \ {c}]
  /\ heard' = IF c \in connected /\ s \in subs[c]
                THEN [heard EXCEPT ![c][s] = Append(@, forwarded[s])] ELSE heard
  /\ UNCHANGED <<stored, connected, subs, bridge, bridges, forwarded>>

StopBridge ==
  /\ bridge # "none"
  /\ bridge' = "none" /\ forwarded' = NoTask
  /\ sendingTo' = [s \in WsSessions |-> {}]
  /\ UNCHANGED <<stored, connected, subs, bridges, heard>>

BridgeNext ==
  \/ \E s \in WsSessions : \/ StoreEvent(s) \/ Forward(s)
                           \/ \E c \in WsClients : \/ Subscribe(c, s) \/ Unsubscribe(c, s)
                                                   \/ SendTo(s, c)
  \/ \E c \in WsClients : Connect(c) \/ Disconnect(c)
  \/ StartBridge \/ TakeSessions \/ StopBridge

BridgeSpec == BridgeInit /\ [][BridgeNext]_bridgeVars
-----------------------------------------------------------------------------
(***************************************************************************)
(* From its subscription on a client gets the events of a session in       *)
(* order, none twice and none left out, however other clients come, go and *)
(* break in the middle of a broadcast; a restarted bridge begins anew.     *)
(***************************************************************************)
HeardInOrder ==
  \A c \in WsClients, s \in WsSessions :
    LET h == heard[c][s] IN
    /\ \A k \in 1..(Len(h) - 1) : h[k + 1] = h[k] + 1
    /\ h # <<>> /\ c \in connected /\ s \in subs[c] /\ forwarded[s] >= 0 =>
         h[Len(h)] = forwarded[s] - (IF c \in sendingTo[s] THEN 1 ELSE 0)
=============================================================================
