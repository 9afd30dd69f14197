SPECIFICATION AllSpec
CONSTANTS
  MaxToolRounds = 2  MaxCalls = 2
  MaxChunks = 2  MaxStreamCalls = 3
  PermSessions = {s1, s2}  Asks = {a1, a2}  MaxRules = 2
  Workers = {w1}  Clients = {c1}  MaxInputs = 3  InboxReadLimit = 3  MaxEvents = 6
  SyncPage = 2  MaxMade = 2  MaxRows = 4  MaxPasses = 2
  Jobs = {j1, j2, j3}  Handled = {j1, j2}  MaxStarts = 2
  Plugins = {p1, p2}  SdkPlugins = {p2}  PluginCallers = {c1, c2}  MaxSubscribed = 2
  Terms = {t1, t2}  Fds = {f1}  Execs = {e1, e2}  Readers = {r1}  MaxTerms = 1
  WsClients = {w1, w2}  WsSessions = {s1}  MaxStored = 3  MaxBridges = 2
  Requests = {r1, r2}  Handshake = h  LspCallers = {c1, c2}
  Projections = {p1, p2}  TableReadLimit = 2  MaxLogged = 3  MaxRebuilds = 1
  RecordIds = {i1}  RecordCalls = {q1, q2, q3}  RecordValues = {v1, v2}
  ConfigFields = {f1, f2, f3}  ModelFields = {f1}  PromptFields = {f2}  ListFields = {f3}
  FileLayers <- UserFile  ConfigCalls = {q1, q2}
  SourceCount = 2  SourceValues = {v1, v2}  StructuredSources = {1}  QuietSources = {2}  EpochCalls = {q1, q2}  EpochReadLimit = 1  MaxHistory = 2
  TurnSizes = {0, 1, 2}  BufferTokens = 3  KeepTokens = 2  FileLimit = 3  MaxTalk = 3  MaxAttached = 2
  RouteSessions = {s1, s2}  UsedSession = s1  MaxRouteCalls = 3  RouteReadLimit = 5
  RunMarks = {"running", "other"}
  Runners = {k1, k2}  MigrationSteps <- SmallSteps  MaxRunnerStarts = 3
  OAuthClients = {o1, o2}  MaxTokens = 3  MaxCleared = 1
  MaxMessages = 4
  MaxSteps = 40  MaxOutput = 3  FunctionBodies <- SmallFunctions  MainBodies <- SmallMains
  PlainCalls = {c1, c2}  SocketCalls = {c2}  MaxPlainRounds = 1  PlainReadLimit = 2  MaxRenames = 1
  ToolNames = {t1, t2}  StandardTools = {t1}  ToolAgents = {g1}  MaxSaved = 2  MaxDraft = 3
  Hosts = {h1, h2}  LocalHosts = {h1}  MaxRequests = 2  Window = 2  MaxClock = 5
  MaxStreams = 4  SlotSessions = {x1, x2}  MaxStreaming = 2
  Tasks = {k1, k2}  MaxLaunches = 2
  StoreSessions = {"s1", "s2"}  OutputNames <- PathNames  FileOf <- Resolved  MaxLines = 2  MaxBytes = 3  MaxSaves = 2
INVARIANTS
  ServicesTypeOK TurnsAreKept StreamsAreWhole RepliesDecide AnswersReachAskers QueuesKeepOrder WorkIsDoneOnce
  TablesAreTrue SettingsAreInForce ComputationsAreExact RoutesAnswerTruly ScriptsRunAsPython
PROPERTY TurnsSeeChanges
CHECK_DEADLOCK FALSE
