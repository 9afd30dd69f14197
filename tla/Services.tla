------------------------------ MODULE Services ------------------------------
(***************************************************************************)
(* The components that share no state, side by side: in every behaviour    *)
(* one of them, the focus, runs and the others stay in their initial       *)
(* states, so that the states of the components add up instead of          *)
(* multiplying when they are checked.  The two queues of InputInbox and    *)
(* the two parts of RpcClient and of ToolSets are independent as well and  *)
(* have a focus each.  Another focus is "scripts": none of these runs then *)
(* (MCServices has the Interpreter do so).                                 *)
(***************************************************************************)
EXTENDS AgentLoop, ModelStream, Permissions, InputInbox, StoreSync, BackgroundJobs,
        PluginHost, Terminals, EventBridge, RpcClient, MessageTable, Records, ConfigLayers,
        ContextEpochs, TurnContext, SessionRoutes, Migrations, OAuthTokens,
        WireMessages, PlainChat, ToolSets, RequestGuards, BrowserTool, OutputStore,
        StreamSlots

VARIABLE focus

vars == <<focus, agentVars, streamVars, permVars, inputVars, syncVars, jobVars, pluginVars,
          termVars, bridgeVars, rpcVars, tableVars, recordVars, configVars, epochVars, turnVars,
          routeVars, migrationVars, oauthVars, wireVars, plainVars, toolVars,
          guardVars, browserVars, outputVars, slotVars>>

Focuses == {"agent", "stream", "permissions", "inbox", "runner", "sync", "jobs", "plugins",
            "terminals", "bridge", "rpc", "lspManager", "table", "records", "config", "epochs",
            "turn", "routes", "migrations", "oauth", "wire", "plain", "tools",
            "mentions", "guards", "browser", "outputs", "slots", "scripts"}

-----------------------------------------------------------------------------
\* The components with a choice of initial states make it when they run.
Pinned ==
  /\ focus # "agent"       => loop = "agent" /\ callback = "plain"
  /\ focus # "stream"      => protocol = "chat"
  /\ focus # "permissions" => asker = CHOOSE f \in [Asks -> PermSessions] : TRUE
  /\ focus # "rpc"         => rpcKind = "mcp"
  /\ focus # "config"      => files = [k \in DOMAIN FileLayers |-> Nothing] /\ environ = Nothing
  /\ focus # "epochs"      => offered = Blank
  /\ focus # "slots"       => slotSession = CHOOSE f \in [SlotStreams -> SlotSessions] : TRUE

Init ==
  /\ focus \in Focuses
  /\ Pinned
  /\ AgentInit /\ StreamInit /\ PermInit /\ InputInit /\ SyncInit /\ JobInit
  /\ PluginInit /\ TermInit /\ BridgeInit /\ RpcInit /\ TableInit /\ RecordInit
  /\ ConfigInit /\ EpochInit /\ TurnInit /\ RoutesInit /\ MigrationInit /\ OAuthInit
  /\ WireInit /\ PlainInit /\ ToolInit /\ GuardInit /\ BrowserInit
  /\ OutputInit /\ SlotInit
  /\ \A layer \in Range(files) \cup {environ} :            \* a bound of the model
       layer = Nothing \/ Range(layer) \cap {Unset, Empty} = {}

Rests(names, v) == focus \notin names => UNCHANGED v

Next ==
  /\ UNCHANGED focus
  /\ Rests({"agent"}, agentVars)
  /\ Rests({"stream"}, streamVars)
  /\ Rests({"permissions"}, permVars)
  /\ Rests({"inbox", "runner"}, inputVars)
  /\ Rests({"sync"}, syncVars)
  /\ Rests({"jobs"}, jobVars)
  /\ Rests({"plugins"}, pluginVars)
  /\ Rests({"terminals"}, termVars)
  /\ Rests({"bridge"}, bridgeVars)
  /\ Rests({"rpc", "lspManager"}, rpcVars)
  /\ Rests({"table"}, tableVars)
  /\ Rests({"records"}, recordVars)
  /\ Rests({"config"}, configVars)
  /\ Rests({"epochs"}, epochVars)
  /\ Rests({"turn"}, turnVars)
  /\ Rests({"routes"}, routeVars)
  /\ Rests({"migrations"}, migrationVars)
  /\ Rests({"oauth"}, oauthVars)
  /\ Rests({"wire"}, wireVars)
  /\ Rests({"plain"}, plainVars)
  /\ Rests({"tools", "mentions"}, toolVars)
  /\ Rests({"guards"}, guardVars)
  /\ Rests({"browser"}, browserVars)
  /\ Rests({"outputs"}, outputVars)
  /\ Rests({"slots"}, slotVars)
  /\ \/ focus = "agent" /\ AgentNext
     \/ focus = "stream" /\ StreamNext
     \/ focus = "permissions" /\ PermNext
     \/ focus = "inbox" /\ InputNext
     \/ focus = "runner" /\ RunnerNext
     \/ focus = "sync" /\ SyncNext
     \/ focus = "jobs" /\ JobNext
     \/ focus = "plugins" /\ PluginNext
     \/ focus = "terminals" /\ TermNext
     \/ focus = "bridge" /\ BridgeNext
     \/ focus = "rpc" /\ ClientNext
     \/ focus = "lspManager" /\ ManagerNext
     \/ focus = "table" /\ TableNext
     \/ focus = "records" /\ RecordNext
     \/ focus = "config" /\ ConfigNext
     \/ focus = "epochs" /\ EpochNext
     \/ focus = "turn" /\ TurnNext
     \/ focus = "routes" /\ RoutesNext
     \/ focus = "migrations" /\ MigrationNext
     \/ focus = "oauth" /\ OAuthNext
     \/ focus = "wire" /\ WireNext
     \/ focus = "plain" /\ PlainNext
     \/ focus = "tools" /\ ToolNext
     \/ focus = "mentions" /\ MentionNext
     \/ focus = "guards" /\ GuardNext
     \/ focus = "browser" /\ BrowserNext
     \/ focus = "outputs" /\ OutputNext
     \/ focus = "slots" /\ SlotNext

Spec == Init /\ [][Next]_vars
-----------------------------------------------------------------------------
(***************************************************************************)
(* The properties of the components, which their modules state and         *)
(* comment, by what they are about.  A component out of focus is in its    *)
(* initial state.                                                          *)
(***************************************************************************)

\* The type invariants of the components.
ServicesTypeOK ==
  /\ focus = "agent"       => AgentTypeOK
  /\ focus = "stream"      => StreamTypeOK
  /\ focus = "permissions" => PermTypeOK
  /\ focus \in {"inbox", "runner"} => InputTypeOK
  /\ focus = "sync"        => SyncTypeOK
  /\ focus = "jobs"        => JobTypeOK
  /\ focus = "plugins"     => PluginTypeOK
  /\ focus = "terminals"   => TermTypeOK
  /\ focus = "bridge"      => BridgeTypeOK
  /\ focus \in {"rpc", "lspManager"} => RpcTypeOK
  /\ focus = "table"       => TableTypeOK
  /\ focus = "records"     => RecordTypeOK
  /\ focus = "config"      => ConfigTypeOK
  /\ focus = "epochs"      => EpochTypeOK
  /\ focus = "turn"        => TurnTypeOK
  /\ focus = "routes"      => RoutesTypeOK
  /\ focus = "migrations"  => MigrationTypeOK
  /\ focus = "oauth"       => OAuthTypeOK
  /\ focus = "wire"        => WireTypeOK
  /\ focus = "plain"       => PlainTypeOK
  /\ focus \in {"tools", "mentions"} => ToolTypeOK
  /\ focus = "guards"      => GuardTypeOK
  /\ focus = "browser"     => BrowserTypeOK
  /\ focus = "outputs"     => OutputTypeOK
  /\ focus = "slots"       => SlotTypeOK

\* A turn of the agent: no call of the model stays without its answer, no text
\* is lost, its caller is told, and the run's end is marked (AgentLoop.tla).
TurnsAreKept ==
  focus = "agent" => CallsAnswered /\ TextKept /\ RunIsMarked /\ ResultsReported

\* A stream of the model: its calls end once, and it finishes with all of them
\* (ModelStream.tla).
StreamsAreWhole ==
  focus = "stream" => CallsEndOnce /\ FinishIsComplete

\* Who waits for a reply of the user is listed, and the last reply is in force
\* (Permissions.tla).
RepliesDecide ==
  focus = "permissions" => LastReplyDecides /\ WaitersAreListed

\* Answers from other processes, of shells, language servers, MCP servers and
\* authorization servers, go to who asked, and each is asked for once; the
\* browser that runs is the one that is asked (Terminals.tla, RpcClient.tla,
\* OAuthTokens.tla, BrowserTool.tla).
AnswersReachAskers ==
  /\ focus = "browser" => OneBrowser
  /\ focus = "terminals" => AnswersMatch
  /\ focus \in {"rpc", "lspManager"} => WaitersAreHeard
  /\ focus = "oauth" => RefreshedOnce /\ OneAsks

\* Queues keep step with their events and their order, and what one waits for
\* is given back (InputInbox.tla, EventBridge.tla, StreamSlots.tla).
QueuesKeepOrder ==
  /\ focus = "inbox"  => InboxInStep
  /\ focus = "runner" => SteersFirst
  /\ focus = "bridge" => HeardInOrder
  /\ focus = "slots"  => SlotsAreServed /\ NothingStaysHeld

\* Work is done once: copies between stores and background jobs (StoreSync.tla,
\* BackgroundJobs.tla).
WorkIsDoneOnce ==
  /\ focus = "sync" => OneWayCopies
  /\ focus = "jobs" => JobsSettleOnce

\* The tables of the database hold what the events say, what was acknowledged
\* and what schema_version says, a compaction event has its epoch, and files hold
\* the outputs that are too long (MessageTable.tla, Records.tla, Migrations.tla,
\* ContextEpochs.tla, OutputStore.tla).
TablesAreTrue ==
  /\ focus = "table"      => TableFollowsLog
  /\ focus = "records"    => AckedIsStored
  /\ focus = "migrations" => MarkedIsApplied /\ ServesLatest
  /\ focus = "outputs"    => FilesHoldOutputs /\ SessionsAreApart
  /\ focus = "epochs"     => CompactionsHaveEpochs

\* What is set up is in force: saved configuration, plugins, and the rules
\* about tools (ConfigLayers.tla, PluginHost.tla, ToolSets.tla).
SettingsAreInForce ==
  /\ focus = "tools"   => CallsObeyRules /\ RegistriesAgree
  /\ focus = "config"  => SavedAsAsked
  /\ focus = "plugins" => ActiveIsServed

\* What the components compute of sequences is what their documentation says
\* in terms of the whole: the layers of the configuration, the messages and the
\* files that fit a turn, the mentions in a text, what the adapters send of the
\* messages, and previews (ConfigLayers.tla, TurnContext.tla, ToolSets.tla,
\* WireMessages.tla, OutputStore.tla).
ComputationsAreExact ==
  /\ focus = "config"   => HighestLayerWins
  /\ focus = "turn"     => TailIsKept /\ FilesFit
  /\ focus = "mentions" => MentionsInPlace
  /\ focus = "wire"     => PartsReachModel /\ ResultsAnswerCalls
  /\ focus = "outputs"  => PreviewFits

\* The endpoints of sessions answer with what the events say, a plain chat
\* keeps what it answered, and the limit of chats is exact (SessionRoutes.tla,
\* PlainChat.tla, RequestGuards.tla).
RoutesAnswerTruly ==
  /\ focus = "routes" => GoneStaysGone /\ MarkIsAnswered /\ ImportCarriesTalk /\ ForkShowsSource
  /\ focus = "plain"  => AnswersAreKept /\ UserTitleKept
  /\ focus = "guards" => WindowIsExact
=============================================================================
