# CScode: specifications, model checking and proofs

CScode is an AI coding assistant: a FastAPI server keeps sessions as event
streams in SQLite, runs language-model agents on them and streams their events
to web, terminal and desktop clients. The server is single-threaded `asyncio`
code in which requests, agent tasks, cancellations, timeouts, child processes
and one shared database connection meet. This directory holds TLA+ models of
it, the TLC configurations that check them, and theorems with proofs for TLAPS.

Paths below are relative to `src/src/cscode/`.

## 1. The system

### 1.1 Components

| Component | Source | State | Operations | What makes it correct |
|---|---|---|---|---|
| Session coordinator | `core/coordinator.py` | per session: `IDLE`/`DRAINING`/`QUEUED`, a lock, a completion event, a cancel event; one semaphore | `run`, `wake`, `interrupt`, `wait_for_completion` | one processing chain per session; every call returns; the session ends idle and signalled complete; slots are given back |
| Event store | `storage/event_store.py`, `storage/db.py` | `events`, `event_sequences`, a lock per aggregate, subscribers' events; one connection with one transaction | `append`, `read`, `subscribe` | numbers without gaps, append-only log, an append that returned is durable, subscribers are given everything once |
| Chat streams | `server/app.py` (`chat_stream`), `SessionLockManager` | session lock, `_active_agent_tasks`, `_session_queues`, agent tasks, run status | one request's generator, the stop endpoint | one stream per session, no agent nobody can find, every stream ends, the run status settles |
| Plain chats | `server/app.py` (`_handle_chat`, WebSocket) | a session's events, the state loaded from them | `POST /chat`, chat messages of a socket | the answer stands behind its prompt in the right session; a title of the user's stays |
| Session routes | `server/routes/sessions.py`, import in `app.py`, fork in `acp/server.py` | a session's events | create, list, get, delete, set, marks, export, import, fork | what was deleted stays so; a mark is answered with itself or a later one; a fork shows what its source showed, but for what was cut by number |
| Session history | `core/session.py`, `server/compactor.py` | event stream, one projection per handle, epochs | prompt, edit, delete, revert, retry, compact | history is what nothing took away; it can be projected |
| Messages table | `server/projector.py` | `messages` | on_event, rebuild | the table has one row per message of the log |
| Context epochs | `core/context_epoch.py`, `core/system_context` | `context_epochs`, sources | initialize, prepare, compact | a turn is told of changes; an event stands for a stored epoch |
| Context of a turn | `core/compression.py`, `core/session.py`, `app.py` | messages, files | build_context, compress | the latest request and the longest fitting end survive |
| Agent loop | `app/agent.py`, `core/runner.py`, `core/execution.py`, `llm/adapters/legacy.py` | messages, calls, run mark | six copies of the tool loop | every call is answered, no text is lost, the run is marked |
| Model adapters | `llm/protocols/*`, `llm/client.py` | a stream in progress | stream, build request | calls end once, a loop gets everything before its Finish; parts reach the model |
| Input inbox | `core/session_input.py`, `core/session_v2.py` | events of the queue; steer and queue lists | enqueue, dequeue, cancel, clear; promote | handed out once, in order |
| Background jobs | `core/background_job.py` | queue, job table, worker task | enqueue, cancel_job, start, stop | a job is in one place and settles once |
| Sync | `core/sync.py` | one cursor | pull, push | every event arrives once |
| Permissions, questions | `core/permission_v2.py`, `server/question_registry.py`, `tools/question.py` | rules, pending requests, futures | evaluate, ask, reply, reject | the last reply decides; who waits is listed |
| Plugins | `core/plugin/*` | states, modules, APIs, handlers | install, load, activate, deactivate | an active plugin is served |
| MCP and LSP clients | `mcp/client.py`, `lsp/*` | pending requests by id, reader task, client table | request, read loop, connect, close | who waits is known to the reader |
| MCP OAuth | `mcp/auth.py` | one token behind a lock | get_token, refresh, authorize | a token is refreshed once, one client asks |
| Terminals | `tools2/pty.py` | sessions, descriptors, locks | create, exec, read, close | an answer belongs to its command, and lacks only what a read took |
| Browser tool | `tools2/browser.py` | `_browser`, `_page` | open, actions, close | the browser that runs can be closed |
| WebSockets | `server/integration.py` | clients, subscriptions, bridge task | connect, subscribe, bridge | events are heard in order |
| Rate limiter | `server/rate_limiter.py` | time stamps per address | check, cleanup | the window is exact |
| Tools | `core/tool_registry.py`, `tools2/registry.py`, `core/sub_agent.py` | registry, rules, materializations | register, materialize, settle, mentions | a denied tool is not run; a mention is replaced where it stands |
| Output store | `tools2/output_store.py` | table of outputs, files | save, get, cleanup, clear | the file of an entry holds its output unless another key leads to it; a preview fits |
| Rows by id | `core/workspace.py`, `core/credential.py`, `core/sharing.py` | one row each | create, update, rotate, delete | an acknowledged change is stored |
| Migrations | `storage/migration_runner.py`, `storage/db.py`, `cli.py` | schema, `schema_version` | upgrade, downgrade | a marked version is applied |
| Configuration | `core/config*.py`, `core/keychain.py` | layers, one row, the key | load, POST, PUT | the highest layer that says something wins; what was saved is kept |
| Interpreter | `sandbox/interpreter.py` | script, output, steps | run | prints what Python prints, within a budget |

The other parts (MCP server, sandbox processes, agents and prompts, worktrees,
file watching, legacy session table, front ends, SDK) are listed in
`PROJECT.json` with the reason why they are not modelled: loops without state,
single statements, or wrappers of an external system.

### 1.2 How they interact

`POST /chat/stream` returns a generator. It takes the lock of the session
(`SessionLockManager`), admits the prompt through the event store, creates an
agent task and registers it, and then alternates between passing on queued
events and looking whether the task is done or the client has gone. The agent
task calls `SessionCoordinator.run`, which serialises it with other calls for
the session and runs the processor in a further task of its own. The processor
calls the model and the tools and appends events. When the generator ends, in
whatever way, its `finally` block unlocks, unregisters, cancels the agent and
marks the run. Everything is persisted through the one `aiosqlite` connection
of `storage/db.py`; the projector, the saved permissions and the other tables
share that connection and hence its transaction.

### 1.3 What is hard

* **Interleaving at every await.** The program is single-threaded, but every
  `await` that suspends is a point where all other tasks may run.
* **Cancellation.** A client that disconnects, a timeout of `wait_for`, a
  second request and the closing of a generator all cancel tasks, and a
  cancelled task runs `finally` blocks with awaits that can be cancelled again.
* **One transaction for everybody.** A commit or a rollback of one user of the
  connection decides about the statements of all others.
* **Two clean-up paths for one resource.** A stream and the stream that
  replaces it both remove registrations, unlock and wait for the same agent.

`PROJECT.json` lists these hazards one by one, at the line where each bites,
with the properties that guard against it.

## 2. Modules

```
FifoPermits             asyncio.Lock and asyncio.Semaphore
  SessionCoordinator    core/coordinator.py        --implements--> SerialChains
    ChatStream          chat_stream, stop_session, on an instance of SessionCoordinator
  StreamSlots           the semaphore of the streams of all sessions
  EventStore            storage/event_store.py     --implements--> EventLog
SessionHistory          core/session.py, server/compactor.py
Services                the components below, side by side
```

| Module | Contents |
|---|---|
| `FifoPermits` | A pool of permits with holders and a line of waiters; releasing one hands it to the first in line. A lock is a pool of one. |
| `SessionCoordinator` | The coordinator. One action is the code between two awaits that can suspend. |
| `SerialChains` | What the coordinator's first paragraph promises: one active chain per session. |
| `EventStore` | `append` statement by statement on the shared connection, with the uncommitted and the committed tables, the subscriber of every aggregate, commits and rollbacks of other users, and crashes. |
| `EventLog` | The abstract log: each aggregate grows at its end and the events of a batch stand together. |
| `ChatStream` | The streams of one session, their agent tasks and registries; the agents take the steps of an instance of `SessionCoordinator`. |
| `StreamSlots` | Streams of several sessions, the semaphore they share, the locks, and abandoned generators; checked with the services. |
| `SessionHistory` | SessionV2 objects and compactions on one log; the projection is a function of the log's prefix, kept per length in `views`. |
| `AgentLoop` | The six tool loops, from the prompt to the run mark, with cancellation, interrupts, broken streams, the fallback without a stream and refused appends. |
| `ModelStream` | What the four adapters make of a provider's chunks, in any order it may send them and after a finish reason too, and what a loop takes of it: everything up to the first `Finish`, at which it breaks. |
| `WireMessages` | What they make of the messages of a conversation when they build the request. |
| `Permissions` | Saved rules by id, requests with their replies, questions with their futures. |
| `InputInbox` | Two independent parts: the event-sourced inbox with several handles, whose reloads read the first events of the session only, of whatever type; and the steer and queue lists with their run loop. |
| `StoreSync` | Two stores, one cursor, pages, failing appends, cut passes. |
| `BackgroundJobs` | Queue, workers (two after an overlapping stop and start), statuses. |
| `PluginHost` | The life cycle with its awaited hooks; states are compared as strings. |
| `Terminals` | PTY sessions, `exec` under the lock, `read` without it, both chunk by chunk from one descriptor, which may be closed and reused meanwhile. |
| `EventBridge` | Sockets, subscriptions, and the bridge that forwards stored events. |
| `RpcClient` | MCP and LSP clients over a pipe, and the manager's table (a part of its own). |
| `MessageTable` | Projections and a rebuild of the `messages` table on the shared connection. |
| `Records` | Rows with an id: read, statement and commit of each request as separate steps. |
| `ConfigLayers` | Layers of configuration, the three loaders with what counts as said in each (`ConfigV2`: nothing that is empty, and agents and providers by name), and the requests that save one of them. |
| `ContextEpochs` | Sources loaded one by one, epochs, their events, and what a turn is told; an `update()` that raises or has nothing to say leaves it with the baseline. |
| `TurnContext` | The messages of a turn as operators; the actions only grow the conversation. |
| `SessionRoutes` | Requests on sessions as load, check and append, and the reverts, edits and removals of messages (which have no route, but come up in the logs that routes project); a fork as load, read, create and replay. |
| `PlainChat` | The chats that are answered as a whole, interleaved at every await; the title is looked up in the events that a read returns. |
| `Migrations` | Processes that upgrade, serve and roll back one file. |
| `OAuthTokens` | Clients that share one token and its lock; the server issues, refuses, revokes. |
| `BrowserTool` | The shared browser and page, read and set between awaits. |
| `ToolSets` | Two independent parts: registries, rules and settling; and mentions in a text. |
| `OutputStore` | One table for the process, stores with and without a directory, files that cannot be written, keys that look like those of a session, and any mapping of keys to files. |
| `RequestGuards` | The middlewares and the sliding window over a clock. |
| `Interpreter` | The walk over a script's tree with its budget, and Python's semantics as the reference definition. |
| `MCSessionCoordinator`, `MCEventStore` | Fault sets and symmetry for TLC; `ChatStream` and `SessionHistory` are run as they are. |
| `Services` | Composition of the modules from `AgentLoop` on and of `StreamSlots`; see 2.5. |
| `MCServices` | `Services` for TLC, with `Interpreter` and its small scripts as one component more. |
| `Lists` | Lists as the program builds them: the items at given places, sums of numbers, lists joined one after the other, the items of a list that are in a set. |
| `SharedTheorems` | Lemmas about pools, lines, lists, their ends, sums and joins, and steps from 0 that several proofs cite. |
| `SessionCoordinator_proofs`, `EventStore_proofs`, `ChatStream_proofs`, `SessionHistory_proofs` | Theorems and proofs about the modules of the same name. |
| `Waiting_proofs` | The same for the components in which somebody waits: `StreamSlots`, `EventBridge`, `InputInbox`, `BrowserTool`, `RpcClient`, `OAuthTokens`, `Terminals` and `WireMessages`. |
| `Kept_proofs` | The same for those that keep something: `MessageTable`, `Records`, `Migrations`, `OutputStore`, `ConfigLayers`, `ToolSets`, `PluginHost`, `ContextEpochs`, `TurnContext`, `PlainChat` and `RequestGuards`. |
| `Services_proofs` | The same for `Permissions`, `BackgroundJobs`, `StoreSync`, `ModelStream`, `AgentLoop` and `SessionRoutes`, and the theorems about `Services`. |

### 2.1 SessionCoordinator

A *caller* is one invocation of `run()`. Its place `pc` says where it is
suspended: waiting for a slot of the semaphore, waiting as a queued caller
(line 120), waiting for its turn (135, 144) or inside `_process_loop` (227) for
the first or the second time.

| Variable | Code |
|---|---|
| `state`, `completed`, `cancelEvt`, `lock`, `slots` | `_states`, `_completion_events`, `_cancel_events`, `_locks`, `_semaphore` |
| `tasks` | processor tasks created at 224 that are not done |
| `ended`, `outcome` | how the awaited processor ended; what the caller got |

`Admit` is lines 115-135 without a suspension, `Finally` is 137-148 up to the
re-drain's lock, `LoopResult` the choice `asyncio.wait(FIRST_COMPLETED)` leaves
(when both tasks are done, the result depends on the iteration order of a set).
`CancelWaiting`, `CancelFirst` and `CancelSecond` deliver `CancelledError` at
each await and follow the `try`/`finally` blocks that cover it or do not.
Uncontended `asyncio` locks do not suspend, so entering one is not a step.
`Faults` names which moves of the environment a run allows: cancelling a
caller, `interrupt()`, `wake()`, a processor that raises.

### 2.2 EventStore

An action is one SQL statement: `Count` (45-53), `SelectBase` (55-59), `Insert`
(61-79), `Commit` (81), `Rollback` (87). `rows` and `counter` are the tables as
the connection sees them, `savedRows` and `savedCounter` as last committed.
`Raise` takes any statement into the `except BaseException` branch, `LeaveLine`
is a cancellation in line for the lock. `OtherCommit` and `OtherRollback` stand
for every other user of the connection, `Crash` for the death of the process
and the restart on the committed tables. `Poll` is a round of `subscribe()`
through `read()`, whose limit is `ReadLimit`.

An event is a pair of its number and the call that wrote it: payloads decide
nothing here.

### 2.3 ChatStream

A *stream* is one request; its place `stream` is the await it stands at. Its
agent task has the same name and a place of its own; while that place is
`coord`, the agent is a caller of the coordinator instance `Coord`, and its
steps are the actions of that module (`AgentEnters`, `AgentGoesOn`,
`AgentCancelled`).

* `kill[a]` is a requested cancellation that was not delivered yet. In the
  code `Task.cancel()` is delivered when the task next runs; the model leaves
  open how many steps of other tasks come first. That covers the code's own
  order, and also a task that absorbs one cancellation and goes on until the
  next.
* `Finish` is the `finally` block (1039-1051) up to its first await: unlock,
  unregister, cancel. It is part of every action that leaves the generator.
* `Torn`, `TornWhileEvicting` and `TornInFinally` are an exception, a
  cancellation or the closing of the generator at each of its awaits;
  `SettleFails` is the handler of lines 1005-1011.
* `WaitTimesOut` is the five seconds of both `wait_for` calls, which cancel the
  agent again and keep waiting for it.
* `runStatus` is what `SessionProjector` makes of the last `session.run_*`
  event; `reply` is how the request was answered.

One session is modelled: locks, registries and coordinator state are all kept
per session and the server sets no global limit on the coordinator. The
process-wide semaphore of five streams (line 1059) is the one thing sessions
share. It is in `StreamSlots`, which keeps of a stream only whether it waits
for a slot, holds the lock, is in its `finally` block, or was abandoned: when
the client goes while the response is sending, nobody closes the two
generators, and they are collected one after the other, the outer one with the
slot first. There the streams of several sessions meet.

### 2.4 SessionHistory

A *handle* is a `SessionV2` object, `seen[h]` the number of events its state
was projected from. A mutation checks that state (`idle -> ready`), appends one
event (`ready -> wrote`) and projects again from `read()` with its default
limit (`Mutate`). `views[n + 1]` is `SessionProjector.project` of the first `n`
events, one operator per kind of event; `ok` is FALSE from the event on whose
replay raises. A compaction reads the log, computes the baseline and the next
epoch, appends its event and inserts its row in four steps, each of which may
be the last one. The writer of an event and what it had seen are recorded with
it for the properties.

### 2.5 The services

The modules composed in `Services` share no state with each other, so a run
of all of them needs no interleaving between them: the variable `focus` names
the component that runs, the others rest in their initial states, and the
states of the components add up instead of multiplying. Each module has its own
`...Init`, `...Next`, `...TypeOK` and `...Spec` and can be checked alone.

What they have in common: an action is the code between two awaits; a request,
a call or a task is an element of a small set whose record says where it is; a
failure or a cancellation at an await is an action of its own, with what the
handlers on the way do; databases are a copy as the connection sees it and a
copy on disk; servers, shells, browsers and providers are external and may
answer anything in any order, or never. Algorithms without steps
(`TurnContext`, `WireMessages`, `ToolSets`, `ConfigLayers`) are operators, and
the actions enumerate their inputs by growing a conversation, a text or a set
of rules. A loop over a list is a recursive function on the number of rounds
done (`Merged`, `TakenFiles`, `RecentLength`, `Replaced`), or a sum or a join of `Lists`
when it only collects; both can be proved about, which recursive operators
cannot. `Interpreter` compares the walk of the tree, one statement or
expression at a time, with a recursive definition of what Python prints.

Variables that the code does not have are marked as kept for the properties:
who wrote a row (`changedBy`), what was missed or taken (`missed`, `dropped`, `lost`,
`seized`), the place of an event (`place`), whether calls have met (`overlapped`, `disturbed`, `crossed`, `crossing`).

## 3. What the runs check

| Run | Instance | Checks |
|---|---|---|
| `coord_faults` | 3 callers, 2 sessions, 1 slot, all faults | `TypeOK`, `LoopExclusive`, `OrphansWereGivenUp` |
| `coord_serial` | 3 callers, 2 sessions, 2 slots, `wake()`; fair | `ImplementsSerialChains`, `NoLeakedSlot`, `QuiescentIdle`, `EveryCallReturns` |
| `coord_stuck` | 2 callers, 1 session, raising processors; fair | refutes `EventuallyComplete` |
| `store_log` | 3 appends of up to 2 events, 2 aggregates, page of 1, commits of others | `Contiguous`, `FeedComplete`, `ImplementsEventLog` |
| `store_crash` | 2 appends, 2 aggregates, commits of others and crashes; fair | `Durable`, `EveryAppendReturns`, `EventsReachSubscriber` |
| `store_faults` | 3 appends of one event, all faults | `TypeOK`, `OneWriter` |
| `store_lost` | 2 appends, failing statements | refutes `Durable` |
| `chat_streams` | 3 streams, all faults | `TypeOK`, `ExclusiveUntilRejected`, `NoStaleRegistration`, `NoForgottenAgent` |
| `chat_settles` | 2 streams, 1 stop, all faults but torn streams; fair | `StatusSettled`, `EveryStreamEnds` |
| `chat_overlap` | 3 streams, no faults | refutes `OneAtATime` |
| `history` | 2 handles, 2 compactions, 6 events, reads of 5 | `TypeOK`, `HistoryIsWhatRemains`, `BrokenOnlyByStaleHandle`, `EpochsFollowLog`, `SeesItsOwnWrites` |
| `services` | the modules of 2.5 | `ServicesTypeOK` and the properties below |

The properties of `services` are conjunctions, by subject, of what the modules
state:

| Property | Parts |
|---|---|
| `TurnsAreKept` | `AgentLoop`: every call of the model has one answer behind it in the messages, texts are saved, the run is marked, results are reported |
| `StreamsAreWhole` | `ModelStream`: a call is started before it is ended and ended once, but for calls that a text of Anthropic follows; a loop that breaks at `Finish` has got the end of everything that was started |
| `RepliesDecide` | `Permissions`: the last stored reply of a session decides; a task that waits has an entry the user can answer |
| `AnswersReachAskers` | `Terminals`: an `exec` returns the output of its own command, less the pieces that a `read` beside it took, unless an earlier call of the session got no answer or met a foreign descriptor; `RpcClient`: no answer to a waiting call is lost while the reader runs, and only calls that a server took with it wait in vain; `OAuthTokens`: a token is refreshed once, one client asks; `BrowserTool`: the running browser is the one in the global |
| `QueuesKeepOrder` | `InputInbox`: the worker gets inputs in order and once, except that one whose `input.dequeued` lies beyond the events a reload reads is given again; a steer is overtaken at most once; `EventBridge`: events are heard in order without gaps; `StreamSlots`: a request waits only for earlier ones that have all the slots, and no slot and no lock stays held by a stream that is gone |
| `WorkIsDoneOnce` | `StoreSync`: copies in one direction are complete, single and ordered; `BackgroundJobs`: a job is in one place and has one final status |
| `TablesAreTrue` | `MessageTable`: one row per message; `Records`: what was acknowledged is stored and what was deleted stays so; `Migrations`: a marked version is applied, a server runs on the latest; `OutputStore`: the file of an entry holds its output, or, where two keys lead to one file, a later one or nothing, never an earlier one; sessions are apart; `ContextEpochs`: a compaction event stands for a stored epoch that covers the same events |
| `SettingsAreInForce` | `ConfigLayers`: saves are kept; `PluginHost`: an active plugin is served; `ToolSets`: settling obeys the rules the agent was built with, the four registries agree |
| `ComputationsAreExact` | What walks over a list of any content. `TurnContext`: the request, a leading system message and the longest fitting end survive, files fit their limit; `WireMessages`: the parts reach the model in order, a result is sent once and behind its call; `ConfigLayers`: the highest layer that says something wins; `ToolSets`: a mention is replaced in place; `OutputStore`: a preview fits its limits |
| `RoutesAnswerTruly` | `SessionRoutes`: what is deleted stays gone, marks are answered, imports carry the talk, forks show the messages of their source in its order, edits included, and of a reverted or compacted source all but the messages right at the cuts; `PlainChat`: an answer is stored behind its prompt, refused calls leave nothing, a title that the load has read stays; `RequestGuards`: the window is exact |
| `ScriptsRunAsPython` | `Interpreter`: output is a prefix of Python's, complete at the end; every script ends within its budget |
| `TurnsSeeChanges` | `ContextEpochs`: a turn is told of the first change since its epoch; it gets the baseline only if nothing differs up to a source that is not available, or if the first that differs has no text for it: its `update` raises on what was stored, or returns nothing (an action property) |

Every property of a passing run comes with a mutant of one modelled definition
(a dropped guard, a wrong base, a forgotten release; `\* Mutant of ...` in the
modules) under which the same run finds the property violated. The runs set
`CHECK_DEADLOCK FALSE`: the calls of a run are a finite set and the system
stops when all of them are over.

### 3.1 Bounds, and why they are enough

* *Three callers, appends or streams.* The locks hand over from one holder to
  one waiter; a third one is what overtakes, is queued behind a re-drain, or
  enters through a lock that the second gave back.
* *Two sessions, two aggregates.* Enough for one to hold what the other waits
  for (slots), and for one append to commit or roll back another one's rows.
* *Batches of two, pages of one.* A batch can be interrupted in its middle, and
  a page can end there.
* *One or two slots.* One makes callers wait for the semaphore and for a lock
  at once; two let both locks of both sessions be held.
* Nothing else is bounded in the coordinator, the store and the streams: no
  counter is capped, every call can fail, be cancelled or be interrupted as
  often as its code has awaits. Type correctness, mutual exclusion, refinement
  of `SerialChains` and the others of section 4 are proved without these bounds.
* *History.* Two handles and two compactions make every pair of writers meet;
  six events are a prompt, an answer, a revert or deletion, a compaction and an
  event on each side of the reading limit of five (1000 in the code).
* *Services.* Two or three of everything that competes (clients, jobs, plugins,
  callers, requests) and one of what they compete for (a worker slot, a
  descriptor, a row, a token). Limits of the code are small instead of absent:
  pages of 1 or 2, reads of 1 to 5 events (1000 in the code, so that each log
  outgrows its read), 2 rounds of tools, 2 calls in a
  window of 2 ticks, a token budget of 3, so that each is reached and passed.
  Constants whose comment says "bound of the model" cut off behaviours that
  would only repeat (events made, passes, starts, titles, tokens issued).
  Scripts have two statements of which one may contain two more, in every
  combination, and a function with a body from a list of six. Of the two sources of
  a context one has an `update()` that raises on a text, the other one that may return
  nothing; of the names of outputs one is a path into the directory of another
  session (`PathNames`, `Resolved` in `MCServices`), so that two keys lead to one
  file; the three fields of a configuration are one of the model section, the
  prompt of the agent `default` and a list.

Symmetry of calls and sessions is used in the runs without liveness.

### 3.2 Fairness

`FairSpec` states weak fairness of the steps of each caller, append, stream and
agent: the event loop runs every task that is ready, and the thread of the
connection executes what it is handed. Processors terminate (their model calls
have timeouts), and a subscriber polls again, because of the five-second
timeout of `subscribe()`. Nothing is assumed about faults, about the start of
calls, or about `wake()` and `interrupt()`.

### 3.3 What the code does differently from what is said about it

1. **A failing re-drain leaves the session active** (`coord_stuck`). Lines
   146-147 are skipped, so the session stays `DRAINING`, the completion event
   stays unset and the next call is taken for a queued one.
2. **A rollback takes other appends with it** (`store_lost`). `append` rolls
   back the shared connection; another append that has inserted but not
   committed goes on, commits nothing and returns its events as stored.
3. **A rejected stream unlocks the session** (`chat_overlap`). The `return` of
   the rejected stream passes the `finally` block, which unlocks whoever holds
   the lock. The third request is let in and cancels the first one's agent.
The remaining properties hold around these: `ExclusiveUntilRejected` says that
the lock is right until finding 3 happens, `NoStaleRegistration` holds even
after it, and so does the exclusion of agents (`AgentsExclude`), and `Durable`
holds as long as nothing is rolled back. `OrphansWereGivenUp` says what is left
when calls are cancelled or interrupted, where two processors of a session do
overlap: the older one belongs to a call that gave no result of it.
`EventsReachSubscriber` says that the event itself is given to the subscriber,
unless a row that a crash took back has moved its cursor past the number.

### 3.4 Observations

Written down while modelling; the models follow the code in each of them, and
the properties are stated around them. None is a finding of a run.

*Coordinator and streams.* A queued `run()` returns `""` without running its
processor (`core/coordinator.py:117-123`). The stop endpoint looks for its task
in `AppState` while `chat_stream` registers it in module dictionaries. Streams,
titles and the command line build their agents without the saved permission
rules (`server/app.py:853, 962, 1539`).

*The store's subscribers.* A subscriber that was given a row which
a crash took back does not get the event that takes its number afterwards: its
`after_seq` is past it (`storage/event_store.py:161`).

*Plain chats.* `AgentLoop` calls an `async` `on_event` for tool results and for
the fallback answer without awaiting it (`app/agent.py:231-233, 319`), so a
plain chat stores neither, although `_handle_chat` says its events match the
streaming path. A title is generated when the one that was loaded
is empty, `New Session` or `New Chat` (`server/app.py:1531-1533`): so one that is
given during the chat is overwritten, and one whose event lies beyond the first 1000
of the session, and one that the user has set to these words. A busy session is rejected only when its request has a slot: with five streams open
nobody is told anything (`server/app.py:1059`). Chats over a WebSocket accept empty messages and pass no middleware, so
they are not rate limited; `RateLimiter.cleanup` is never called.

*Sessions.* DELETE and PATCH of an unknown session append to an aggregate
nobody created, and PATCH makes it appear in lists; only GET looks at the status
`deleted`. Deletions and run marks beyond the first 1000 events are not seen.
An import drops the snapshot of a compaction. A handle of a session with more than
1000 events does not see what it appends (`core/session.py:414`). A fork copies the first
1000 events behind a creation of its own, so that its messages have numbers one higher,
while reverts and compactions in the copied log still name the numbers of the source: a
compaction in it keeps one message more, a revert cuts one message more, and an
edit by place that follows may then meet another message or, when there is none,
make the fork unreadable. `ForkShowsSource` states exactly this for logs with
reverts and compactions and without edits, and for logs with edits and without these;
for logs with both it claims the order of the messages, the deletion and the run only.
The fork of a deleted session is a deleted one; `cancel` of the ACP server answers `cancelled` and cancels nothing
(`acp/server.py:121-125`).

*Context.* A leading system message of any kind replaces the standard prompt;
compression can drop the message with the files; the instruction stands before
the text of the plugins although `core/session.py:298-300` says otherwise. A
source that is not available is stored as a text, so that it counts as changed when
it becomes available. `update_env` (`core/system_context/__init__.py:259-265`) cannot take
that text and raises, which `reconcile` makes a `ReplacementBlocked` of (221-222): the turn
gets the baseline and is not told of the environment, nor of any source behind it,
until the next epoch. The baseline is also what an empty text of an update becomes
(`core/context_epoch.py:216`). A compaction that races `initialize` can cover no event.

*Adapters.* The responses adapter looks for `tool_call` and `tool_result` while
the parts are `tool-call` and `tool-result`, so calls and results are left out
of the request; the legacy adapter drops system texts and results. The anthropic
adapter emits an empty `TextEnded`, which `SessionRunner.run` stores, and ends
a call again when a text block follows it (`CallsEndOnce` leaves these streams out).
No adapter stops at a finish reason: `openai_chat.py:216-224` and the others go on
with what the provider sends and may yield a second `Finish`. The loops break at the
first, and `ModelStream` keeps what they take.

*Tools.* Mentions are settled without rules (`core/sub_agent.py:27`), so a
mention runs a tool that is denied (rules are modelled by tool, with the resource `*`); two mentions whose results differ in length
from them garble the text (`core/sub_agent.py:79-95`). `Wildcard` `*` matches
`/` although its docstring denies it.

*Outputs.* A key is used as a path as it is (`tools2/output_store.py:151-153`): the file of
`../s1/n` in one session is that of `n` in `s1`, so that either replaces or removes the other's
output. Keys with a colon reach the outputs of other sessions; `cleanup`
does not remove the files of a session without a directory; a byte cut inside a
character makes a preview exceed `MAX_BYTES` by up to two bytes.

*Browser.* Overlapping opens leak a browser, and so do two closes with an open
between them; after a failing `new_page` every open fails with an empty message
until a close; the driver started at `tools2/browser.py:88` is never stopped.

*Terminals, pipes and tokens.* The limit of terminals is checked before an
await; a queued `exec` does not look at `_closed` again; late output answers the
next command. `read()` (`tools2/pty.py:349-358`) takes its chunks without the lock of
the session: beside an `exec()` it takes a part of the answer, and the `exec()` returns the
rest, or times out when the marker was taken. RPC calls wait for ever when the server goes. On 401 `get_token`
returns the stored token again if it is not expired locally.

*Queues and copies.* The server never starts the job queue; a job that is cancelled
while it is taken or runs is CANCELLED until the worker overwrites its status. Nothing in the
server consumes the inbox; a stale handle may hand out a cancelled input, and two
workers the same one. `reload()` reads the first 1000 events of the session
(`core/session_input.py:123`), and those of every other type count: beyond them
`dequeue()` hands out the input at the head of the queue again and again, and new
inputs are not seen. A sync engine's cursor moves past an event whose append failed. Sync
in both directions copies its own copies back (`core/sync.py:116` calls them
"duplicate"). The event bridge starts before anybody is subscribed, ends and is
not started again.

*Rows and settings.* `DELETE /share` leaves its statement uncommitted. Updates
write whole rows as they were read, and report success when the row is gone.
`load_config` puts the environment above the database,
`load_config_from_layers` below; a later `ConfigV2` layer resets the model
section. Of two layers of `ConfigV2` the higher one replaces only what it has
something for: an empty list, dictionary or string leaves that of the lower layer in
place, so that no layer can empty a list (`core/config_v2.py:485-491`; the docstring at
477 says that list fields replace entirely), and agents and providers are
merged name by name. The system prompt of the environment becomes the prompt of
`agent["default"]` (403-405); POST without a key deletes the key. Every error of an ALTER in two
migrations is swallowed (`storage/db.py`); downgrades undo nothing but unmark,
so the next start applies the data migration again.

*Interpreter.* `break` and `continue` end the script with an error instead of the loop
(`ScriptsRunAsPython` allows scripts with one to end so); a call of a built-in function
counts as one step whatever it does;
output of a function that raises is lost; deep recursion ends in an error of
Python's.

## 4. What is proved

All theorems hold for every value of the constants that satisfies the named
assumptions of the modules (`CoordinatorAssumption`, `StoreAssumption`,
`ChatAssumption`, `HistoryAssumption`, `SlotsAssumption`, ...: limits are
natural numbers, null values are none of the elements, the fault set is one of
the named faults). Callers, sessions, appends, handles, streams, clients, jobs,
terminals and inputs may be any sets or numbers. A theorem that needs more says
so with `ASSUME ... PROVE`; these conditions are named below.

Each proof has the same form: an invariant that is true at the start, that
every action keeps (one step per action, often through a lemma that says what
the action changes), and that implies the property.

**`SharedTheorems`.** What joining, entering, releasing and leaving do to the
holders and the line of a pool (`StepOut` keeps the order of the others); that
`ItemsAt` gives exactly the items at the places, in their order; facts about
appending to, and taking from, a list. `StepsReach` is induction over the natural
numbers for a set (0 is in it, and n + 1 with every n): the library states it for an
operator, which the provers cannot instantiate, but a set they can. With it a
recursive function can be shown to exist, so that its equations may be used. `SumsOf`
and `JoinsOf` get their equations so; from them follow what the sum of longer
lists is, that sums of equal parts agree, where an item of a joined list comes
from, that joining distributes over the parts of a list (`Joined` of `a \o b`),
and that keeping the items of a set (`Only`) distributes over joins.

**`SessionCoordinator_proofs`.** `TypeCorrect` and `LoopsExclude`
(`LoopExclusive`). Exclusion is not inductive by itself: the invariant adds
that a caller past the entrance has a session (`SessionKnown`), and that a
caller in the loop holds the lock of its session, which has one holder
(`LockProtects`, a definition of the module that the proof uses). `OrphansGivenUp`
(`OrphansWereGivenUp`), under all faults, goes call by call: no call has the result of
a processor that is alive, and none an outcome before its first loop is over
(`NoLostResult`); a step of one call leaves the others as they are. `CoordinatorRefines`
(`ImplementsSerialChains`) needs in addition that no task is left behind by its
caller (`NoStray`), which needs `cancel` and `interrupt` to be absent from the
faults; the theorem has that as an assumption. `SlotsComeBack`
(`NoLeakedSlot`) and `QuietIsIdle` (`QuiescentIdle`) rest on the invariant
`BooksKept`: who stands in the line of a lock (`LockUsers`), that a session has
its event exactly while somebody is in its loop (`EventUsed`), and that it is
signalled exactly while it is idle (`SignalTrue`). The first needs that no
caller is cancelled: a caller cancelled while it is queued never gives back its slot. The second needs also that no processor raises (finding 1).

**`EventStore_proofs`.** `StoreTypeCorrect` and `WritersExclude` (`OneWriter`)
under all faults, from the invariant that a writing call holds the lock of its
aggregate. `AppendsDurable` (`Durable`) without `error` and `rollback`: what a
call has inserted stays in `rows`, because its number cannot be taken by
another call, and is in `savedRows` from its commit on. `NumbersContiguous`
(`Contiguous`, `CounterIsLast`) without `error`, `rollback` and `crash`, from
the invariant `Numbered` that ties the counter, the base of the writing call
and the set of numbers in use together at every statement. Under the same
condition `FeedsComplete` (`FeedComplete`): numbers are written in increasing
order, so nothing appears behind the cursor of a subscriber (`Fed`), whatever
the size of a page; and `StoreImplementsLog` (`ImplementsEventLog`): every
statement is a step of `EventLog` or leaves the log alone, where the mapping
reads a log out of the rows (`LogOf`) and needs that each number has one row
(`Owned`).

**`ChatStream_proofs`.** The coordinator of the server is an instance of
`SessionCoordinator`, whose actions the agents take, so that its theorems hold in the server
(`ServerRefinesProved`, `CP == INSTANCE SessionCoordinator_proofs`); `AgentsExclude` says that two
agents are never in the loop together, even after finding 3. `ChatTypeCorrect`,
from the invariant `Settling` (what a stream in its last phases knows about
its agent). `LockExcludes` (`ExclusiveUntilRejected`), from the invariant that
only a rejected stream has the reply `rejected`. `RegistrationsLive`
(`NoStaleRegistration`) and `AgentsFound` (`NoForgottenAgent`), the latter from
`LoopRegistered`: until a rejection the stream in its event loop is the
registered one. `StatusSettles` (`StatusSettled`) without `raise` (a stream
torn out of its generator marks nothing): while the session claims to be
running there is a stream that will still mark it (`SomeoneMarks`), which
follows agents evicted by later streams through `DoomedByEvictor`.

**`SessionHistory_proofs`.** `HistoryTypes` (`TypeOK`), `HistoryRemains`
(`HistoryIsWhatRemains`), `BrokenByStaleOnly` (`BrokenOnlyByStaleHandle`),
`EpochsFollow` (`EpochsFollowLog`) and `OwnWritesSeen` (`SeesItsOwnWrites`). The
invariant `LogInv` says of every prefix of the log what its projection is: the
messages that no later event took away, in the order of their numbers, so that
each kind of event (`Reverted`, `Compacted`, `Edited`, `Deleted`, `Adds`) is
shown to keep it for one event more. It is an induction along the log, done by
the steps that append to it and not over data. A handle that is up to date
decides on the view the event is projected on, which is why only a stale one
can break the session.

**`Waiting_proofs`.**

* `SlotsGivenBack` (`SlotTypeOK`, `NothingStaysHeld`, `SlotsAreServed`): the
  users of the pool are exactly the streams that wait or are past the semaphore,
  nobody stands twice in its line (`OrderlyPool`), a held lock has a stream that
  will release it; and streams wait in the order in which they came, behind
  those that have slots, only while there is no free one (`RankedPool`).
* `ClientsHearInOrder` (`HeardInOrder`): what a client heard of a session is an
  unbroken run of numbers that ends where forwarding stands (`UpTo`), with or
  without the event that is being sent.
* `SteersGoFirst` (`SteersFirst`): the lists of steers, of the batch, of queued
  and of handled inputs rise, lie before one another and share nothing (`RunInv`).
* `InboxKeepsStep` (`InboxInStep`) with `OneWorker`, one handle that takes
  inputs out, as in the server: what is waiting in the log lies behind what was
  taken, and the view of the worker, however old, differs from it only by what
  requests withdrew or added. A reload offers what is pending in the first events of the
  log (`Offered`); each input that is handed out was queued before the next one, or is
  given again because the event that took it out is not read (`Precedes`, `HandedInOrder`).
* `OneBrowserRuns` (`OneBrowser`, `BrowserTypeOK`): as long as no two calls that
  set the globals have met, the one that is at it knows what they hold
  (`ChangerKnows`), so that a launch finds no browser and a close resets the one
  it closed.
* `WaitersHold` (`WaitersAreHeard`): the request of a call that waits is with the
  server, in the pipe, or went with a server that came to its end (`lost`), and a client
  that counts as started has a read loop, or its loop broke off.
* `TokensHold` (`RefreshedOnce`, `OneAsks`): the client that asks the server is
  first in the line of the lock (`OAuthLockInv`) and what it found in the store
  is still there (`AskerInv`), also while `clear_auth` waits behind it.
* `TerminalsHold` (`AnswersMatch`): the descriptor of a session that is open is
  its own (`FdsInv`), also for a `read()` (`ReadersInv`), an `exec()` that reads has the lock
  (`CallsInv`), and a session nobody spoilt has at most the command of that call on its
  way (`PipesInv`): its text and its marker, in this order, are still to be written,
  written, or read, the text perhaps by a `read()` (`Underway`, seven cases). A call that
  has its marker got what is left (`ReturnsInv`).
* `WireReachesModel` (`PartsReachModel`, `ResultsAnswerCalls`), for conversations of
  any length: what each adapter sends of one message has the same parts as the
  message (but for those it drops), and joins of equal parts are equal. For the
  adapter of Anthropic, which moves system texts to the front, each side is split into
  these and the rest. A result stands behind its call in the request because it
  does in the conversation, and messages keep their order.

**`Kept_proofs`.**

* `TableHolds` (`TableFollowsLog`): as long as rebuilds and projections do not
  overlap, an event is in the table or exactly one side owes its row (`Owes`): a
  projection, the rebuild, or nobody, because a step gave up (`TableInv`).
* `RecordsHold` (`AckedIsStored`): a row that differs from the one on disk was
  last changed by a call that has not returned (`LastChange`); a row about to be
  created is not there (`Creates`), and an id nobody was given is unused
  (`Unissued`).
* `MigrationsHold` (`MarkedIsApplied`, `ServesLatest`): marked versions are
  applied in the file and in the open transaction, and only columns of an ALTER
  that came before any change of data can be missing (`FileComplete`); the
  process in the middle of a version has its earlier statements behind it
  (`InPlace`); while nobody rolls back, what a process has left behind is marked
  (`LeftMarked`).
* `OutputsHold` (`FilesHoldOutputs`, `SessionsAreApart`), for any mapping of keys to
  files (`FileOf`): an entry names the file of the key it lies under (`EntryOK`,
  `StoredAt`), which has the output, was refused, or belongs to no key alone (`FileOK`,
  `Shared`); the numbers of saves grow, so that it never holds an earlier output.
  What a session finds is its own or was saved without a session.
* `PreviewsHold` (`PreviewFits`), for any limits, and any text the property looks at
  (up to one character more than `MaxBytes`): the line feeds are
  counted along the text, so that the text before feed number `MaxLines` has that many
  lines; and cutting at `MaxBytes` ends inside of at most one character, which is
  where the two bytes come from that a preview can be too long.
* `LayersHold` (`HighestLayerWins`): after each layer a field has the value of the last
  layer so far that says something (`StepsReach` along the layers), for the two
  loaders with their different idea of silence and for `ConfigV2`, where what is empty
  is silent (`Silent`) and layers also reset a section.
* `SavesHold` (`SavedAsAsked`): completing the row before an update changes none
  of the fields that were asked for.
* `ToolsHold` (`CallsObeyRules`, `RegistriesAgree`): an agent's tools are those
  its rules permitted of the tools there were when it was built (`CrewOK`), and
  the three ways to read the rules name the same last match.
* `MentionsHold` (`MentionsInPlace`), in a text of any length: after `j` items from
  the end, the text is the unchanged beginning with the last `j` items replaced
  behind it (`StepsReach` along the text). That needs the offset to add up to nothing,
  as it does for one mention or when no result differs from its mention in length.
* `PluginsHold` (`ActiveIsServed`): as long as no two calls for a plugin have
  met, one that awaits a hook is alone and finds what it stored (`PluginInv`).
* `EpochsHold` (`CompactionsHaveEpochs`) and `TurnsHear` (the action property
  `TurnsSeeChanges`): a call that compares has found no difference so far
  (`Compares`), and what it is told at the first one is what the source's update makes
  of the stored value (`Tells`); an event is appended after its epoch is stored (`Covers`), and
  unless two have met, who makes an epoch covers what the stored ones cover
  (`AloneInMaking`).
* `TurnsFit` (`TailIsKept`, `FilesFit`), for talks, files and limits of any size: the
  tokens taken so far are the sum of the last messages, and taking stops at the
  first one that does not fit, so that what is kept is the longest end that does,
  and at least one message; of the files the first ones are taken whole until the
  limit is reached, which the total never passes.
* `PlainChatsKept` (`AnswersAreKept`, `UserTitleKept`): what a call has stored
  among the events of its session, and what it has told its client, belong to the
  place at which it stands (`StoredSoFar`, `TitlesSoFar`, `HeardSoFar`), no
  other call appends in its name, and what a read has shown of the title (`Named`) does
  not change when the log grows.
* `WindowStaysExact` (`WindowIsExact`): the times kept of a host are the end of
  the list of all that were let in (`KeptIsEnd`), what was popped is older than the
  window, and times rise; so the length that `check` compares counts exactly those
  within the window, and no window of time holds more than the limit, also when
  `cleanup` drops hosts.

**`Services_proofs`.**

* `PermissionsHold` (`LastReplyDecides`, `WaitersAreListed`): the rule of the
  last reply is the last that matches, and stays so until a request changes or
  removes rules of the session.
* `JobsHold` (`JobsSettleOnce`): a job is in one of the queue, a handler and the
  set of those that settled (`PlacesInv`), for any number of workers that `stop`
  and `start` leave behind.
* `SyncHoldsAlways` (`OneWayCopies`): while copies go in one direction, the rows
  before the cursor were copied or dropped, and those of the page under way are
  the next ones (`PageInv`, `CopiesInv`).
* `StreamsHold` (`CallsEndOnce`, `FinishIsComplete`): until the first `Finish`, the
  calls that were started are exactly those the provider opened, and all but the
  one in the block are ended (`OpenInv`); what an adapter says before `Finish`
  ends the others, none twice (`Completes`), and nothing that comes later is taken
  (`FinishInv`).
* `TurnsHold` (`CallsAnswered`, `TextKept`, `RunIsMarked`, `ResultsReported`): the
  messages of a context stand right, each call with its answer behind it
  (`AllSettled`); in the middle of a round the answer of the model is followed by
  the results of its first calls (`UnderWay`), which is why the first call
  without a result is the next one (`SettledAre`, `FirstOpen`); and what was
  said is saved but for the text of the stream under way (`TextsAgree`).
* `RoutesAreTrue` (`GoneStaysGone`, `MarkIsAnswered`, `ImportCarriesTalk`,
  `ForkShowsSource`): `ViewsFit` says of every prefix of any list of events what
  its projection is: gone after a deletion, with the last mark, and with messages in
  the order of their numbers (`Ordered`). That a fork shows its source is a simulation
  along the two lists, one place apart: without reverts and compactions the two
  projections are the same but for the numbers (`Alike`, `AlikeGoesOn`), edits that
  miss included; without edits they differ at the cuts only (`CloseTo`, `CloseGoesOn`,
  `Cut`): a message that the fork lacks is one a revert went back to, and one it has too
  many stands right before a baseline. Both go by `StepsReach` along the list, and are
  applied to the log a fork has read and to the log it wrote. The
  invariant (`RequestFits`) says how far a request has come with its own events.
* A behaviour of `Services` is one of each of the twenty-five components
  above (the lemma `EachRuns`, which follows from how `Services` is composed). With it `RepliesAlwaysDecide` (`RepliesDecide`), `AnswersAlwaysReach`
  (`AnswersReachAskers`), `QueuesAlwaysKeepOrder` (`QueuesKeepOrder`, with
  `OneWorker`), `WorkIsAlwaysDoneOnce` (`WorkIsDoneOnce`),
  `StreamsAreAlwaysWhole` (`StreamsAreWhole`), `TurnsAreAlwaysKept`
  (`TurnsAreKept`), `TablesAreAlwaysTrue`
  (`TablesAreTrue`), `SettingsAreAlwaysInForce` (`SettingsAreInForce`),
  `RoutesAlwaysAnswer` (`RoutesAnswerTruly`), `ComputationsAreAlwaysExact`
  (`ComputationsAreExact`) and
  `TurnsAlwaysHear` (`TurnsSeeChanges`) state for all values of the constants what the run
  `services` checks.

**Only model-checked.**

* Liveness (`EveryCallReturns`, `EveryAppendReturns`, `EventsReachSubscriber`,
  `EveryStreamEnds`): fairness and `ENABLED` are beyond the prover.
* `ScriptsRunAsPython`: the reference definition of what Python prints walks a tree
  of any depth with recursive operators, which cost the prover its SMT backend,
  and the induction over trees it would need takes an operator as a parameter.
* `ServicesTypeOK` bounds what the model caps; the proofs above carry the type
  invariants they need, without these bounds.

## 5. Not modelled

* Payloads, wording, logging, SSE framing and keep-alives; the attachment
  parsing of a request (`setup` is one place in which it may fail).
* `is_active`, `wait_for_completion`, the scans of the event store and the
  listing queries of tables: they only read.
* Composition of the services with each other: an agent with its tools, its
  store and its stream at once is beyond TLC; the modules meet where the code
  makes them meet through the event log (`ChatStream` with the coordinator,
  `SessionHistory` with the compactor, `PlainChat` with the session's events).
* Expressions, built-in functions and default arguments of the interpreter;
  what tools do with files, processes and the network; what happens in a page.
* `sandbox/runner.py`, `core/fs_watcher.py`, `storage/session.py`, the MCP
  server, worktrees, agents and prompts, front ends and SDK: nothing in the
  server calls the first three, and the others are sequential code around an
  external system. `PROJECT.json` gives the reason for each.

## 6. Plan

1. Conditions on the fault set ("nothing was rolled back") can become a history
   variable, so that one theorem covers all faults.
2. An abstract specification for what is done once (an input handed out, a
   question resolved, a job settled), which `InputInbox`, `Permissions` and
   `BackgroundJobs` implement.
3. Several sessions in `ChatStream` itself, behind the semaphore of `StreamSlots`.
