----------------------------- MODULE PluginHost -----------------------------
(***************************************************************************)
(* The life cycle of plugins (core/plugin/host.py): the registry with a    *)
(* state per plugin, the modules, SDK instances and APIs the host keeps,   *)
(* and the handlers a plugin subscribes to the event bus.  A plugin has    *)
(* callbacks of its own or SDK instances; only the life-cycle hooks of the *)
(* latter are awaited, so only there another call can come in between.     *)
(*                                                                         *)
(* States are strings and compared as strings: "active", "discovered" and  *)
(* "inactive" are smaller than "loaded".                                   *)
(***************************************************************************)
EXTENDS Integers, FiniteSets

CONSTANTS
  Plugins,
  SdkPlugins,      \* those with SDK instances instead of callbacks
  PluginCallers,   \* tasks that call the host
  MaxSubscribed    \* bound of the model: activations that subscribe

ASSUME PluginHostAssumption == SdkPlugins \subseteq Plugins /\ MaxSubscribed \in Nat

VARIABLES
  pluginState,   \* [Plugins -> state in the registry, "unregistered"]
  modules,       \* _loaded_modules
  sdks,          \* _sdk_instances
  apis,          \* _plugin_apis
  subscribed,    \* [Plugins -> how often its handlers are on the event bus]
  hostCall,      \* [PluginCallers -> the call that awaits a hook]
  overlapped     \* plugins with a call that began while another awaited a hook

pluginVars == <<pluginState, modules, sdks, apis, subscribed, hostCall, overlapped>>

NoCall == [op |-> "none"]
Calls  == [op : {"activate", "deactivate", "uninstall"}, plugin : Plugins]

PluginInit ==
  /\ pluginState = [p \in Plugins |-> "unregistered"]
  /\ modules = {} /\ sdks = {} /\ apis = {} /\ overlapped = {}
  /\ subscribed = [p \in Plugins |-> 0]
  /\ hostCall = [c \in PluginCallers |-> NoCall]

PluginTypeOK ==
  /\ pluginState \in [Plugins -> {"unregistered", "discovered", "loaded", "active", "inactive"}]
  /\ modules \cup apis \cup overlapped \subseteq Plugins /\ sdks \subseteq SdkPlugins
  /\ subscribed \in [Plugins -> 0..MaxSubscribed]
  /\ hostCall \in [PluginCallers -> Calls \cup {NoCall}]

AtLeastLoaded(p) == pluginState[p] = "loaded"    \* state >= PluginState.LOADED
Registered(p)    == pluginState[p] # "unregistered"

SetState(p, s) == pluginState' = [pluginState EXCEPT ![p] = s]

InCall(p) == \E c \in PluginCallers : hostCall[c] # NoCall /\ hostCall[c].plugin = p

Begin(p) == overlapped' = IF InCall(p) THEN overlapped \cup {p} ELSE overlapped
-----------------------------------------------------------------------------
\* discover() registers what is new; install() does as well, and updates the
\* source of what is there, whatever its state.
Discover(p) ==
  /\ ~Registered(p)
  /\ SetState(p, "discovered")
  /\ UNCHANGED <<modules, sdks, apis, subscribed, hostCall, overlapped>>

\* What load() does when the module can be imported.
Loaded(p) ==
  /\ modules' = modules \cup {p}
  /\ sdks' = sdks \cup ({p} \cap SdkPlugins)

\* load(), which an active plugin passes: "active" is no state >= "loaded".
Load(p) ==
  /\ Registered(p) /\ ~AtLeastLoaded(p)
  /\ Loaded(p) /\ SetState(p, "loaded")
  /\ UNCHANGED <<apis, subscribed, hostCall, overlapped>>

\* activate() of a plugin with callbacks: no await.
Activate(p) ==
  /\ Registered(p) /\ pluginState[p] # "active" /\ p \notin SdkPlugins
  /\ \E n \in {subscribed[p], subscribed[p] + 1} :
       /\ n <= MaxSubscribed
       /\ subscribed' = [subscribed EXCEPT ![p] = n]
  /\ \/ /\ Loaded(p) /\ apis' = apis \cup {p} /\ SetState(p, "active")
     \/ /\ apis' = apis \ {p} /\ modules' = modules \ {p} /\ SetState(p, "inactive")
        /\ UNCHANGED sdks
  /\ Begin(p)
  /\ UNCHANGED hostCall

\* activate() of a plugin with SDK instances up to its first hook; the build
\* function may raise, which leaves the API of a plugin that is not active.
ActivateSdk(c, p) ==
  /\ hostCall[c] = NoCall
  /\ Registered(p) /\ pluginState[p] # "active" /\ p \in SdkPlugins
  /\ Loaded(p) /\ apis' = apis \cup {p} /\ SetState(p, "loaded")
  /\ \/ hostCall' = [hostCall EXCEPT ![c] = [op |-> "activate", plugin |-> p]]
     \/ UNCHANGED hostCall
  /\ Begin(p)
  /\ UNCHANGED subscribed

\* update_state() of a plugin that was uninstalled meanwhile raises KeyError.
ActivateEnds(c) ==
  /\ hostCall[c].op = "activate"
  /\ LET p == hostCall[c].plugin IN
     IF Registered(p) THEN SetState(p, "active") ELSE UNCHANGED pluginState
  /\ hostCall' = [hostCall EXCEPT ![c] = NoCall]
  /\ UNCHANGED <<modules, sdks, apis, subscribed, overlapped>>

\* deactivate(), of its own or in uninstall(), up to its hooks.
Deactivate(c, p, op) ==
  /\ hostCall[c] = NoCall
  /\ pluginState[p] = "active"
  /\ hostCall' = [hostCall EXCEPT ![c] = [op |-> op, plugin |-> p]]
  /\ Begin(p)
  /\ UNCHANGED <<pluginState, modules, sdks, apis, subscribed>>

\* The rest of deactivate(), and of uninstall(), which stops at the KeyError of a
\* plugin that is gone.  The handlers stay on the event bus.
DeactivateEnds(c) ==
  /\ hostCall[c].op \in {"deactivate", "uninstall"}
  /\ LET p == hostCall[c].plugin IN
     /\ apis' = apis \ {p} /\ modules' = modules \ {p} /\ sdks' = sdks \ {p}
     /\ pluginState' =
          [pluginState EXCEPT ![p] = IF ~Registered(p) \/ hostCall[c].op = "uninstall"
                                       THEN "unregistered" ELSE "inactive"]
  /\ hostCall' = [hostCall EXCEPT ![c] = NoCall]
  /\ UNCHANGED <<subscribed, overlapped>>

\* uninstall() of a plugin that is not active.
Uninstall(p) ==
  /\ Registered(p) /\ pluginState[p] # "active"
  /\ SetState(p, "unregistered") /\ apis' = apis \ {p}
  /\ Begin(p)
  /\ UNCHANGED <<modules, sdks, subscribed, hostCall>>

PluginNext ==
  \/ \E p \in Plugins :
       \/ Discover(p) \/ Load(p) \/ Activate(p) \/ Uninstall(p)
       \/ \E c \in PluginCallers : \/ ActivateSdk(c, p)
                                   \/ \E op \in {"deactivate", "uninstall"} : Deactivate(c, p, op)
  \/ \E c \in PluginCallers : ActivateEnds(c) \/ DeactivateEnds(c)

PluginSpec == PluginInit /\ [][PluginNext]_pluginVars
-----------------------------------------------------------------------------
(***************************************************************************)
(* A plugin that shows as active has its module and its API in the host,   *)
(* so its tools and commands are offered; unless one call for it began     *)
(* while another awaited a hook.                                           *)
(***************************************************************************)
ActiveIsServed ==
  \A p \in Plugins \ overlapped :
    pluginState[p] = "active" => p \in modules /\ p \in apis
=============================================================================
