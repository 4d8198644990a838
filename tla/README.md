# TLA+ specifications of the agent hub

This directory specifies the repository's server, from the browser's socket to the
child processes, and the parts of its dashboard that keep state: who is served, in
what order, by which process, what is shown, and what survives a failure. TLC checks
the modules on small instances; TLAPS proves their safety properties for every value of
the constants.

The server is one JavaScript thread, and so is a tab of the dashboard. A function runs
without interruption up to its next `await`, `yield` or return, and any other handler,
timer callback or promise continuation may run there. That is the grain of
every module: **one action is the code between two suspensions**, and the
hazards are what other code does to shared state while a function is suspended.

Contents: [1 inventory](#1-inventory), [2 modules](#2-the-modules-and-the-code),
[3 runs](#3-the-runs), [4 disagreements](#4-disagreements-between-code-and-documentation),
[5 proofs](#5-proofs), [6 not modelled](#6-not-modelled), [7 plan](#7-plan).

## 1. Inventory

### Server (`packages/server`)

| Part | State | Operations | What is hard | What makes it correct |
|---|---|---|---|---|
| Chat WebSocket: `websocket.ts`, `ws-session.ts` | `clients`, `statusInterval`, `sessionClientsMap`, `sessionAbortControllers`; per stream the accumulated text, `completeSent`, `errorSent`, a timeout | `open`, `message` (chat, CANCEL, ping, slash command), `close`, `shutdown`, the relay loop, the stream timeout | handlers of one session overlap; complete, error, timeout, cancel, return and throw race to end a stream; a reply is stored long after it was shown | one live stream per session, one terminal frame per stream, replies stored after their questions |
| Stream buffers: `stream-buffer.ts` | session → buffer (content, status, completion time) | append, mark, replace, replay, cleanup | a client that joins half-way; a buffer left `streaming` | exact replay; every buffer is given up |
| Session store: `session-store.ts` | tables of sessions and messages | create, add, list, delete | order of rows under late replies | as above |
| Agent table and seeds: `agent-store.ts`, `seeds/` | a row per agent, with `source` and `user_modified` | save, update, delete, `upsertSeed` | written after other waits than the pool | the next boot restores what runs; a user's edit survives |
| Routes, reset: `routes/`, `router.ts`, `middleware.ts` | none | REST calls of the managers; the system reset | calls overlap each other and the reset, and may be carried out though they are reported failed | nothing runs unreachably; the pages show what is |
| Terminal: `terminal-ws.ts`, `pty-bridge.py` | `sessions` of a PTY process and its timers | open, message, close, login poll, hard timeout, process exit | five events can end a session | the process is dead once its session is gone |
| Provider keys: `routes/backends.ts`, `secret-store.ts` | `process.env`, `secrets.json` | set a key, clear it, log out, boot | two places are changed one after the other | the key in use is the key after a restart |
| Debug bus and socket: `debug-bus.ts`, `debug-websocket.ts` | ring buffer, subscribers, filter of each client | emit, connect, subscribe, close, shutdown | the ring is full; history and subscription are two steps | each later event once and in order |
| Rate limiter: `rate-limiter.ts` | address → counter and window | check, sweep, evict | expiry, counting and eviction in one call | a bound on what is admitted, none refused too early |
| Configuration: `config-manager.ts` | overrides in `config.json`, merged configuration | initialize, update | the write may fail | the file is what the configuration says |
| Lifecycle: `index.ts`, `server-factory.ts` | intervals | boot, SIGINT and SIGTERM | sockets are accepted to the very end of a shutdown | each part shuts down by itself |

### Conductor (`packages/conductor`)

| Part | State | Operations | What is hard | What makes it correct |
|---|---|---|---|---|
| `conductor.ts` | `initialized`, `processing`, `messageQueue`, `extractionProcess`, `extractionSpawnPromise` | `initialize`, `handleMessage`, `handleMessageStreaming`, `shutdown` | the flag and the queue are written by several ends and by `shutdown()`; streams pass the queue by | a serial queue; one extraction process |
| `session-process-pool.ts` | session → process in order of use, session → recorded overrides | `getOrCreate`, `invalidate`, `shutdown` | two awaits between the capacity check and the entry | LRU order, capacity, recorded overrides are the running ones, no live process is lost |
| The turn: `conductor-memory.ts`, `conductor-hooks.ts`, `entity-extractor.ts`, `system-action-executor.ts` | none that is shared | hooks, search, dispatch, actions, extraction, storage | each step may fail or be cut, and plugins may refuse | a refusal holds; a cut turn leaves nothing behind |

### Agents, crons, plugins

| Part | State | Operations | What is hard | What makes it correct |
|---|---|---|---|---|
| `agent-process.ts` | `_status`, `processing`, `messageQueue`, `idleTimer`, `backendProcess` | `start`, `stop`, `restart`, `sendMessage`, `sendMessageStreaming`, the idle callback | three kinds of work share one status; every control call awaits the backend | one message at a time, no call forgotten, idle agents stop, no process leaks |
| `agent-pool.ts` | id → agent | `create`, `update`, `remove`, `restore`, `shutdown` | map and table are written after waits; an update that fails undoes itself | the pool and the table agree, no agent runs twice or unreachably |
| Backends: claude, codex, gemini, ollama, pi | `_process` (or `_abortController`), session id, `_alive` | `send`, `sendStreaming`, `stop` | overlapping sends share one slot | `stop()` and a cancel kill what runs; a stream reports its own child, once, and ends |
| `cron-manager.ts` | `crons`, `jobs`, `executing`, `crons.json` | create, update, remove, removeAll, trigger, tick, shutdown, initialize | saves overlap each other and a crash; a reset clears `executing` under executions | one execution per cron, jobs follow the list, the file follows the list |
| `plugin-system` | name → plugin, list of handlers | load, unload, shutdown, waterfall | plugin code is awaited between reads and writes | no handler outlives its plugin |

### Dashboard (`src/dashboard`)

| Part | State | Operations | What is hard | What makes it correct |
|---|---|---|---|---|
| Chat: `use-websocket.ts`, `chat-interface.tsx` | socket, `isProcessing`, `cancelledRef`, the bubble under construction | send, cancel, slash command, every frame, close, reconnect | frames of a cut stream; a drop loses a cancel | every chunk is shown; the input does not stay locked |
| Login dialog: `cli-login-terminal.tsx`, `auth-actions.tsx` | the dialog's state, its socket | start, exit, verify, close | old answers and old sockets set the new state | a login announced is one; the dialog settles |
| Debug console: `use-debug-websocket.ts` | status, events, reconnect timer | connect, drop, reconnect, off | the server still holds the old connection | the feed is unbroken |
| Memory page: `memory-browser.tsx`, `entry-detail-dialog.tsx` | query, options, debounce, fetch number, results, dialog | type, search, list, delete, forget | answers come in any order | results are those of the query shown |
| Pages of agents, automation, sessions, settings | props of the last render; forms in `useState` | edit, save, create, toggle, trigger, delete, reset, refresh | forms outlive the values they were filled with; a time-out is no failure | a page at rest is current; a save writes only what was edited |

### How they interact

A browser's chat message goes `websocket.ts` → `Conductor.handleMessageStreaming`
→ (a target agent through `AgentPool` and `AgentProcess`, or the session's process
through `SessionProcessPool`) → a backend's child process; chunks come back through
the generator into the stream buffer and to every client of the session, where
`use-websocket.ts` puts them on the screen. Crons and system actions in a reply call
the same conductor and pool. REST calls of the pages change agents, crons, sessions,
keys and configuration directly. Hooks of plugins are awaited inside most of these.

## 2. The modules and the code

| Module | Models | State and actions |
|---|---|---|
| `SessionStream` | `websocket.ts` with `stream-buffer.ts`, one session | Messages are numbered; stream `m` is the local state of the `streamConductorResponse` of message `m`, `buf[m]` its buffer object, `buffer` and `controller` the entries of the two maps. `Message` is `handleConductorMessage` up to its first await, `Chunk`, `CompleteEvent`, `ErrorEvent` an iteration of the loop, `Finish` and `Throw` the two ends, with their `finally` blocks; `Throw` also sends the asker the error of `handleConductorMessage`'s `catch`, a second terminal frame that the others do not get |
| `SessionService` | abstract | what the server promises the clients of a session: one terminal frame for every stream, after which a stream that ends in an exception (`erred`) tells its asker so once more; `SessionStream` implements it, `ChatClient` relies on it |
| `ChatClient` | `use-websocket.ts` and the chat input, composed with `SessionService` | one tab: `link` is its socket, `wire` and `uplink` the frames under way, `processing`, `muted` (`cancelledRef`), `spinner` and `live` the hook's state. `OnMessage` is the `onmessage` handler with one disjunct per frame, `Drop` loses both queues |
| `SessionProcessPool` | `session-process-pool.ts` | `order` and `proc` are the `Map` (its keys keep insertion order). `MustSpawn` is `getOrCreate` up to its first await, with the eviction; `CallSpawn` and `ProcessSpawned` are the rest |
| `AgentProcess` | `agent-process.ts` | `send`, `stream`, `op` say where each call is. `SendSucceeds` includes `processQueue()` and the start of the next message; `Stop` kills at once, `StopSettles` is the rest of `stop()` or `restart()` |
| `BackendProcess` | `backends/*.ts` | `flavor` is which of the five it is. `gen[m]` is where a call of `sendStreaming()` is, `child[m]` the process spawned for it, `slot` is `_process`, `waits[m]` the child whose exit the call awaits, `"left"` that its reader has returned it without an abort. pi's single child is in `todo` and `ensured`, its one stdout in `pipe`, `lineBuffer` and `reads` (who awaits a `reader.read()`) |
| `CronManager` | `cron-manager.ts`, its boot, `crons.json` | `jobs` holds the entry in the closure of each job; `writes` the snapshots being written, which land in any order; `Exit` is a crash or a shutdown at any moment and may tear the file |
| `AgentPool` | `agent-pool.ts`, `agent-store.ts`, the agent and reset routes, the boot | An agent is an object that runs or not; `call` is the route call under way and what it holds (`existing`). Each call is split at its waits; a write of the table may fail after the map was changed (`Created`, `Updated`, `Removed`, `ResetFails`), and a seed's row be rejected (`RunSeeds`). `Exit` may be followed by a release with other seeds |
| `Conductor` | `conductor.ts` | `pc` is where each message is; `Ends` is every end of one, and for a queued one it starts the next in the same step; `shutdown()` is four steps |
| `SerialQueue` | abstract | what `handleMessage()` promises its callers; `Conductor` implements it |
| `TurnPipeline` | what `conductor.ts` does to one message, with `plugin-manager.ts` and `hook-registry.ts` | `stage[t]` is where the turn is; at a hook, `rest[t]` are the handlers still to run of the list as it was when the hook was called, `value[t]` the waterfall's `current`. `listed` is the plugin map, `handlers` the set of registrations, each with the place in the list that its priority and its turn gave it (`RunsBefore`) and how it came: declared, or registered by `initialize(registry)` under the plugin's name or under none (`InitializeRegisters`); `Load`, `Unload` and `Shutdown` are split at the plugin's own code |
| `ProviderLogin` | `terminal-ws.ts`, `pty-bridge.py`, `secret-store.ts`, `routes/backends.ts`, the login dialog | `provider` is claude, another CLI, or pi, which has keys only; keys of `process.env` and the file, the CLI's login; per terminal its socket (`conn`), CLI (`child`), entry in `sessions` (`session`) and poll; the dialog with the checks and logouts it awaits |
| `Gateway` | `rate-limiter.ts`, `debug-bus.ts`, `debug-websocket.ts`, the upgrades of `index.ts`, `use-debug-websocket.ts` | `store` is the limiter's `Map`, each entry with the number of its key's insertion, which is what the order of the `Map`'s keys comes to; `ring`, `head`, `count` the bus; `clients` what the server is subscribed for, `left` what the browser has left already, `page` the hook's status |
| `ResourcePages` | the pages of agents, crons, sessions and settings with their routes and `config-manager.ts` | `rows` is what the server holds, `Listing` what it tells of that (an agent is listed with the backend it runs on, its own or not), `props` what the page was rendered with, `held` what each card keeps in `useState`, `form` the open form; `calls` are requests on their way; `render` a refresh that has read the server |
| `MemoryPage` | `memory-browser.tsx`, `memory-search.tsx`, `entry-detail-dialog.tsx` | `fetchId`, `timer` and `fetches` are the debounced searches; `selected`, `confirmAction`, `mutation` the dialog |
| `Dashboard` | composes `Gateway`, `ResourcePages` and `MemoryPage` | the tab is on one page |

`MC*.tla` give the constants their values. `*Proofs.tla` hold the theorems: those of
`ConductorProofs` are about `Conductor`, `TurnPipeline` and `SessionProcessPool`, those of
`ChatEndsProofs` about `BackendProcess` and `ChatClient`, those of `DashboardProofs` about
the pages and `Gateway`; the others are named for their module.

How the modules fit. `SessionStream` sees the conductor as a generator that may yield
anything and end in any way, which is more than `TurnPipeline` does of it, and
implements `SessionService`, which in turn is the server of `ChatClient`: what is shown
of a tab rests on the service alone. `Conductor` has the queue and the shared extraction
process, `TurnPipeline` the inside of one message; `Conductor` sees the answer of
`SessionProcessPool` only. `AgentPool` sees an agent as running or not, `AgentProcess`
has the inside and sees its backend as something that answers, fails or is killed;
`BackendProcess` is that backend, used by agents and session processes alike.
`CronManager` sees an execution as something that may end.

**Faulty variants.** Some definitions are preceded by a variant of themselves that no
action uses: a plausible mistake (a dropped guard, a missing reset). Each property that
a run checks is known to be violated when one of these replaces the true definition.

**Ghosts.** Variables marked `ghost` in their declaration have no counterpart in the
code and record history that a property needs. No guard of a modelled operation depends
on one, but for `Fresh` in `AgentPool` (a new random id is one that has no past) and
`Create` in `CronManager` (likewise).

## 3. The runs

| Run | Instance | What it shows |
|---|---|---|
| `session_stream` | 2 clients, 2 messages, 2 chunks each | `ControllerTracksLive`: the controller on record is that of the one live stream. `ReplayConsistent`: every client holds the buffer's text. `ReplyFollowsQuestion`: only a cut stream's late reply stands between a question and its answer. `ImplementsService`: the refinement, with its liveness: one terminal frame for every stream, and a second to the asker only after an exception. `BufferReleased` |
| `chat_client` | this tab and another, 2 messages of 2 chunks, 1 slash command and 1 status frame, 2 frames under way each way | `EveryChunkShown` across drops; `WaitHasReason`: a tab that waits is owed a frame; `ProcessingEnds` |
| `process_pool` | capacity 1, 2 sessions, 2 calls, 1 override, 3 handles | `BoundedOvershoot`: entries and calls stay below capacity + calls. `DroppedOnlyByRace`: the two ways in which a live process is lost |
| `agent_process` | 2 sends, 1 stream, 2 control calls, 2 handles | `SerialUnlessRevived`, `QueueHoldsWaiting`, `ProcessLostOnlyByOverlap`; `IdleAgentStops`, `QueuedIsServed` |
| `backend_process` | each of 5 backends, 2 sends, 2 lines before the last | `StopReachesChild`, `CancelReachesChild`: what outlives a stop or a cancel, and only that. `OwnAnswer`: whose answer a stream reports. `StreamsEnd`: and which may wait for ever |
| `cron_manager` | 2 crons, 4 entries (two enabled, one disabled, one the scheduler rejects), 2 executions, 2 saves | `ExecutingIsExact`: executions of a cron never overlap and bar it exactly while they run. `JobsMatchCrons`, `QuietDiskIsCurrent` |
| `agent_pool` | a seed and a user's agent, 2 definitions, 2 calls, 2 objects, limit 2 | `StoreMatchesPool`, `NoOrphans`, `UserEditsSurvive` |
| `conductor` | 3 queued messages, depth 1, 2 streams | `QueueIsServed`, `OneExtractor`, `ImplementsSerialQueue` |
| `turn_pipeline` | 2 plugins of different priority whose four hooks may refuse or change; 1 turn, 2 calls of load and unload, 3 registrations, 1 action | `HandlersFollowPlugins`, `RefusalsHold`, `CutLeavesNoTrace` |
| `turn_tags` | the same, no calls | the disagreement of section 4 |
| `provider_login` | 7 deployments (see `MCProviderLogin`), 2 terminals | `RestartKeepsKey`, `SuccessIsTrue`; `TerminalsEnd`, `DialogSettles` |
| `dashboard` | debug console: 1 page with 2 connections, 2 addresses, a ring and a history of 2 for 3 events, limit 2, room for 1 entry and 1 client; 2 other requests, or 1 beside more than 1 event. Pages: 2 requests, 2 edits, 1 change elsewhere or restart, 2 ids. Memory: 2 entries, 2 queries, 2 options, 3 changes, 1 deletion | `FeedUnbroken`, `LimitHolds`; `QuietPageIsCurrent`, `SavesKeepTheRest`; `SearchIsCurrent` |

### Bounds, and why they are enough

- `session_stream`: two messages make a stream that is superseded, two clients one
  that stays while the other leaves and returns, two chunks a replay from the middle.
  A third message only supersedes the second as the second did the first.
- `chat_client`: the second question may be asked while frames of the first are under
  way, or by the other tab; drops and reconnections are unbounded. With two frames under
  way a late frame can stand behind a newer one.
- `process_pool`: the smallest pool that is full, and the fewest calls that can race.
  The bound of `BoundedOvershoot` is stated for any number of calls.
- `agent_process`: one message in process and one that waits, with a stream beside
  them; two control calls are the fewest that overlap. Handles are reused once dead, so
  lives of an agent are unbounded.
- `backend_process`: two sends are the fewest that share the slot; two lines let an
  abort, or the end of its reader, fall between them, and one read bring the last lines of
  two answers.
- `cron_manager`: two saves in flight can land in either order; an id is never given
  out twice, as in the code. Crashes and boots are unbounded.
- `agent_pool`: two calls are the fewest that race, the limit can be reached, a seed
  has an old and a new definition. The constraint `OnlySeedsRace` cuts a history once
  calls have overlapped **on the user's agent**: the properties say nothing of an id
  after its calls raced (`raced`), and the same race is followed on the seed, for what
  it may do to the other agent, up to the next reset. Objects are reused once forgotten.
- `conductor`: two messages may wait in turn behind the one in process and the depth
  of 1 is exceeded by the third; two streams share the extraction process with them.
- `turn_pipeline`: turns meet only in the list of handlers, so one is enough; two
  handlers of one hook are the fewest of which one may undo the other; two calls overlap,
  or load what was unloaded; a third registration is one that a plugin's `initialize()`
  adds to the declared ones, at the boot or later.
- `provider_login`: two terminals, so that the old one's events meet the new one's
  dialog; the deployments differ in the provider and in what credentials there are to begin
  with: three changes let a key of pi be set, logged out of and brought back.
- `dashboard`: two connections make a reconnection that meets the old one at a full
  server; three events wrap a ring of two (the limiter does not see events, so the
  constraint `MCEither` lets only one of the two run to its bound); two requests of a
  page are the fewest that overlap, two edits leave a third cell alone; two ids let a
  row be new. An agent's backend is none, the default's name or another; the default itself
  does not change during a run. Three changes of a query make the first answer two searches late.

Symmetry is used for interchangeable model values, only in runs without liveness
properties; `ImplementsSerialQueue` is an initial condition and a box formula, safe
under symmetry.

`CHECK_DEADLOCK FALSE` stands where the system may stop: messages, requests or visits
of a behaviour are finitely many, a boot that fails exits for good (`CronManager`), and
in `SessionProcessPool` all calls may await processes of which no handle is left.
`agent_pool` checks deadlock.

### Fairness

Five runs check liveness. Only what the runtime or a module's contract guarantees
is assumed, weak fairness each time:

- `SessionStream`: the cleanup interval runs and the stream timeout fires. **Nothing**
  is assumed of the generator: every question is answered even by one that hangs.
- `ChatClient`: what the service promises (a stream that is open is answered, which
  `session_stream` shows), frames are delivered or lost with the connection, and the
  reconnect timer fires. Nothing is assumed of the user.
- `AgentProcess`: the backend answers or fails what it was given, its `stop` and
  `spawn` settle (all of them end with the child process), and the idle timer fires.
- `BackendProcess`: a call goes on when what it awaits is there, and a child exits some
  time, by itself or killed. This is what the code relies on: it has no timeout.
- `ProviderLogin`: timers fire, requests are answered, sockets that are shut say so, and
  a CLI whose input was closed by the bridge ends. The user need not do anything.

### What the properties leave out, on purpose

`SerialUnlessRevived` speaks of an agent until it is brought back from `STOPPED` while a
send of its former life is in flight: from then on two messages may be in process, and the
code does nothing about it. `ProcessLostOnlyByOverlap` and `DroppedOnlyByRace` say exactly
which overlaps lose a process, as `StopReachesChild`, `CancelReachesChild` and `OwnAnswer`
do for the children of a backend. `StoreMatchesPool` and `NoOrphans` leave out the ids on
which route calls overlapped: two updates at a time leave an agent running that nothing
refers to, and nothing in the repository promises more. `StoreMatchesPool` also leaves out
an agent that failed to start, one whose row could not be written or deleted, and a seed
whose row the boot replaced after it had started (`unsettled`); `QuietDiskIsCurrent` a list
whose last save failed or overlapped another; `HandlersFollowPlugins` a name on which calls
of load and unload overlapped, and handlers registered under no name, which nothing removes;
`RestartKeepsKey` what a CLI's logout leaves in use, a failed write, and a key of the
environment that one set here overrides or that was cleared or logged out of (`drift`);
`QuietPageIsCurrent` a server that was changed otherwise than by an answered request of the
tab; `SavesKeepTheRest` a row whose form was left unsaved or that changed otherwise
(`strayed`: what the values kept in `useState` then overwrite is real, and stated below, not
promised away), and the cells that the agent form never fills in. It grants a save of an
agent without a backend of its own the default's name, which is what the form was filled
with. `StreamsEnd` grants pi, of messages that overlap, one that waits for a read while its
line lies in the buffer.

Each module has one type invariant (`TypeOK`, `ClientTypeOK`, `PoolTypeOK`) where its
types are not evident; they are theorems of section 5, and no run spends itself on them
(those of `TurnPipeline` and of the pages are `TurnTypes` and a part of `SavesInv`, those
of `Gateway` are `LogTyped`, `StoreTyped`, `FeedTyped` and `RingHolds`).

## 4. Disagreements between code and documentation

One is a run that finds the violation:

1. `conductor.ts:721` ("Strip action tags from output shown to user") and
   `system-action-parser.ts:58`: the streamed reply is relayed chunk by chunk, tags
   included, and what `finalizeResponse()` strips is discarded. (`turn_tags`, `TagsHidden`)

The others are stated in their module and are false of it; no run repeats them:

2. `websocket.ts:524` says a CANCEL marks the buffer "so reconnecting clients don't
   replay"; `open()` replays any buffer with content. (`SessionStream!CancelledNotReplayed`)
3. `websocket.ts:349` wants "only prior turns" in the history; the reply is shown
   complete before it is stored, and a question in between misses it.
   (`SessionStream!CompletedTurnsAreStored`)
4. `docs/SPEC.md:290`: "LRU eviction at 100 concurrent session processes". Calls that
   await an eviction together overfill the pool, and nothing trims it.
   (`SessionProcessPool!Capacity`)
5. `README.md:102`: "idle timeout auto-shutdown". An agent whose stream was abandoned
   stays `BUSY` with no timer. (`AgentProcess!IdleShutdownArmed`)
6. `docs/SPEC.md:291`: "one message at a time per session". The streaming path has no
   queue, and an aborted stream is not awaited. (`Conductor!OneMessagePerSession`)
7. `docs/SPEC.md:662`: "When a client reconnects, it receives a STREAM_RESUME message".
   A chat that was opened without a session id reconnects without one, and is nowhere.
   (`ChatClient!ReconnectResumes`)

Also stated, left out of the runs in favour of properties that say more, and proved as
theorems: `RecordedIsRunning` and `LeastRecentFirst` (process pool), `OneEnding` (backends),
`StoreBounded` and `ForcesOutOldest` (the limiter's table).

### What a reader of the code should know

Behaviour that the models contain and that no document speaks of:

- *Chat client.* A cancel that a drop loses, followed by `stream_resume`, leaves the input
  locked until the user cancels again. A frame of a cut stream, or of a slash command,
  ends the wait for a newer question. `onclose` closes the partial bubble and the replay
  opens a second. If the relay throws, its `finally` has told all clients the end already,
  and the asker is sent "An internal error occurred" besides, which may end its wait for a
  newer question. A `conductor_status` frame after COMPLETE leaves an empty placeholder.
  A session's overrides live in the socket's data and are lost in a reconnection.
- *Backends.* The end of one of two overlapping sends empties the slot of the other, whose
  child `stop()` and a cancel then miss. codex and gemini may await the exit of another's
  child. gemini spawns after a stop or an abort that came while its prompt was written.
  Past its time-out the relay leaves the generator without an abort: the child runs on,
  whichever backend it is, and once the next send has taken the slot (of ollama's, at once)
  `stop()` misses it. pi never starts a new child after the death of its own, and takes the
  lines that an aborted or a left message has not read for the next answer. Of two
  overlapping messages of pi, the one that awaits a read while the other takes the chunk
  with both last lines may wait for ever: it does not look into the buffer again.
- *Turns.* A handler that `initialize()` registers without a `pluginId` stays after a failed
  load and after an unload. A null rejection can be undone by a later handler. A backend's
  error still finalizes, acts upon and stores the partial reply. An event after `complete`
  makes the relay leave, and finalization is skipped. The time-out of an extraction does not
  stop its send. `PluginManager.shutdown` rejects if a name went meanwhile, and the rest of
  the server's shutdown with it.
- *Logins.* Switch Account stays enabled while its logout is pending: a second, late
  logout undoes the new login. The logout of a CLI forgets the stored key but not the
  one in `process.env`; pi's deletes that, too, so that a key the server is started with
  comes back with a restart.
- *Gateway.* An address counted again after its window expired keeps its place in the map
  and is evicted first. Up to twice the limit less one is admitted in some window. A page
  refused for too many clients tries again every second. After a reconnection the history
  is appended to what is shown already. Sockets are accepted between a shutdown's closing
  of them and the exit.
- *Pages.* Saving an agent resets its tools and permissions, which the form never fills in,
  and pins an agent without a backend of its own to the default's: the form is filled from
  `toRuntimeInfo()`, which names the backend it runs on. The cron form keeps `enabled` from
  when the card was mounted: saving it after the toggle undoes the toggle, and edits that
  were given up come back and are saved. A form opened again before the refresh has arrived
  shows and saves old values. A request that timed out is reported failed and may be carried
  out later, over a newer one. After a deletion, search results still list the entry; the
  deletion of one entry closes the dialog of another. Nothing but the configuration routes
  reads the saved configuration.

## 5. Proofs

All constants are arbitrary; what is assumed of them is in the `ASSUME`s of each
module (disjoint kinds of values, finite sets of calls, a depth in `Nat`), which
the runs evaluate.

**`AgentProcessProofs`.** `TypeCorrect`. `Serving` is the inductive strengthening of
`SerialUnlessRevived` and `NoLockout`: the two alone are not inductive, since whether
an answer may start the next message depends on whether a message is in process
without the flag. It adds that this only happens to a revived or a stopped agent,
and that a stopped agent has neither flag nor queue. From it `Serial`,
`NeverLockedOut`. `DrainCorrect` is an action property by cases on the step;
`IdleTimerCorrect` uses which steps disarm the timer. `ProcessLossCorrect`
rests on `LoneOpOwnsDead`: a control call that never shared its time is alone and the
process it is about to forget is dead. `QueueCorrect`: the queue is exactly the
calls that wait.

**`CronManagerProofs`.** `TypeCorrect`. `KnownIds`: every id in the list, on disk, in a
write or in an execution was given out, so a new cron meets no old execution. On top
of it `Executions`, the strengthening of `NoOverlap` and `BarredOnlyWhileRunning`:
after a reset an execution may run unbarred, but then its cron is gone for good.
`ExecutingExact` joins the two.
`JobsCorrect`. `DiskCorrect` from `OneWriteHoldsList`: as long as no two saves have
overlapped, the one under way writes the present list. `BootCorrect`: as long as no
entry was rejected, list, file and writes are all schedulable.

**`ConductorProofs`.** `TypeCorrect` and `ExtractorCorrect` from `TypedAndExact`: types,
the queue without duplicates and equal to the set of waiting messages, and the number
of extraction processes, which depends on whether one is being spawned and by whom.
`QueueCorrect` needs that queue. `Refinement`: `Spec => ImplementsSerialQueue`, with
`TypeOK`, `QueueIsServed` and `NewIsUntold` (a message that has not come in has no
outcome). A step is one of: nothing that the queue sees (streams, waits, the
extraction process), `Enqueue` to `LineUp`, `Execute` to `Start`, a refusal to
`Refuse`, the end of a queued message to `End`, whose successor starts in the same
step, and the first step of `shutdown()` to `Close`.

The same module has the theorems about what happens to one message and about the pool of
session processes; the three modules share no state.

*Turns.* `RefusalsCorrect` and `CutCorrect` from `TurnInv`: a turn goes through its stages
in order (`InOrder`), the waterfall's value is `null` exactly if the turn was refused or
vetoed at this hook (`RefusalIsValue`), and a streamed turn gets to its hooks and actions
only through an event that was heard (`OverBeforeTheEnd`). The two properties alone are not
inductive: they say nothing of a turn whose handlers are still to run.

`HandlersCorrect` from `HandlersInv`: of a plugin that is not `raced` the registrations under its
name are none, or, if it is being loaded or is loaded, the declared ones and those that its
`initialize()` has added (`PluginInOrder`). It needs to know how many calls of
load and unload are under way for a plugin, since a load that fails takes back what it has
registered, and no other call may have registered it meanwhile (`OverlapNoted`).

*Processes.* `PoolTypeCorrect`, `OvershootCorrect`, `RecordCorrect` and `DroppedCorrect` from
`ProcessPoolInv`. `MapAgrees`: the order lists each pooled session once. The bound counts
entries and calls that may add one, over sets of calls of any finite size: a call that
begins below the capacity is one of at most all calls, one that begins at it has evicted
one entry for the one it may add, and an entry that is made takes the place of its call in
the sum. That an invalidation takes exactly one entry out of the order, and leaves it
without duplicates, is the lemma `RemoveFirstPlace`. `OverlapsAreNoted`: whoever calls for a session
that is being served has disturbed it, so an undisturbed call finds no entry when its
spawn ends. `LateOnly`: what still runs while a shutdown waits has joined during it.
`RecordsFit` is `RecordedIsRunning` with what the record may hold before the spawn.
`RecencyCorrect` from `UseInv`: whatever precedes in the map precedes in the order of use. That
is first-order once it is known how `Precedes` is changed by taking an element out, by taking
the first and by adding one at the end (`RemovedPrecedes`, `TailPrecedes`, `AppendPrecedes`).
The one step that breaks the order, `set()` of a key that is there, is of a session that
`OverlapsAreNoted` has disturbed.

**`DashboardProofs`.** `SearchCorrect` from `SearchInv`: every fetch carries a number, and
the one with the present number was made for the present query and options, as each
change of those takes a new number; an answer that is not stale is therefore the right one.
`QuietCorrect` from `QuietInv`, which has two parts. `HealInv` says why a page that is out of date
and undisturbed cannot be at rest: an answer has still to come that asks for a refresh, or a
refresh has still to read the server, or one has read what the server holds now. A second
refresh may be asked for while the first is between reading and rendering, which is
why the part on a refresh under way counts those behind it. `SettingsInv` says that the settings
page holds one row, which is what the file makes of the defaults; that overriding twice is
overriding by the sum (`OverrideAssociates`) is why a save changes both alike. That a
call stays a call as it moves on is `CallUpdates`.

`SavesCorrect` is an action property over `SavesInv`, which follows a value from the server
to the form and back, for rows that did not stray: what a refresh has read is what the
server lists (`ReadRight`; `Show` is what it makes of a row), what a card holds is what it
was rendered with (`HeldRight`), so a form opened on it is right in the cells its user did
not touch (`FormRight`), and so is the body it sends, for as long as the request is under
way (`BodiesRight`). The last step needs that the form stays as it was sent until the
answer, or is known to differ (`EditsKnown`), which is what two overlapping requests of one
form could break.

*The limiter.* `LimitCorrect` from `LimitInv`. An entry counts requests that are still in the
log of the last window, for the request that opened the entry's window leaves the log only
when that window is over (`CountsReal`): so who is refused has made as many requests lately
(`RefusedLate`). The log may reach back before the entry's window. What it holds of there was
admitted by the window before, less the request that opened that one, which has left
(`WindowKept`; `WindowOver` when there is no live entry): hence less than twice the limit.
`TableCorrect` and `EvictionCorrect` from `StoreInv`, which adds that keys have distinct numbers.
`KeepsLast` says of any finite set of numbered elements that those which fewer than n follow
are at most n, and just n if there are others; that rests on a set of finite sets having
a least one (`LeastSet`).

*The feed.* `FeedCorrect` from `FeedInv`. `RingHolds` says which event each place of the ring
holds, before and after it wraps around; `RecentInOrder` draws from it that `getRecent()` is
the last events in order, by arithmetic on the place modulo the buffer's size (`Remainder`).
`Streams` takes what a connection has delivered and the frames under way on it as a
sequence of segments, each rising and all before the next; a frame that is received joins
two neighbours (`MergeInOrder`), an event adds one that is later than all (`AppendInOrder`), and
no length of the queue matters. `ConnsKnown` keeps the old connections that the server
still holds apart from the page's present one. `ShownEnds`: of what the page shows and what was
delivered, the shorter ends the other.

**`SessionStreamProofs`.** `TypeCorrect`, `ControllerCorrect` and `ReplayCorrect`. `StreamInv`
adds to the types and `ControllerTracksLive` that messages not yet sent are untouched, that
a stream has told its end exactly once if it has one, and that the controller and the
buffer are those of the newest message or gone (`NewestIsCurrent`): a new message aborts the
stream before it, which is why no older stream is live. `HistoryCorrect` needs
`QuestionIsLast`: as long as the newest stream runs, nothing but replies of aborted streams
follows its question, so that its own reply, whenever it is stored, finds it there.
`ServiceImplemented`: initial states map to initial states and each step to a step of
`SessionService` or a stutter. The phase of a message in the service (new, open, cut,
said, ended) is computed from where its stream is (`Phases`), and the lemma
`PhasesAreRight` says of each step how its stream's phase moves and that no other does.
A stream that ended in an exception, and so sent its asker a second terminal frame, is one
of `Erred`, which is the service's `erred`.
This is the safety part of `ImplementsService`; its fairness stays with TLC.

**`ChatEndsProofs`**, backends. `TypeCorrect`, `StopCorrect`, `CancelCorrect`,
`EndingCorrect` and `AnswerCorrect`, for each of the five at once, any of which may be left
by its reader. The properties except overlapping sends and what was left, and `BackendInv`
says why the rest is in order: sends that overlap, or begin after one was left, make the
others `loose` (`OverlapIsLoose`), so the slot holds the one child that runs without being
loose, unless it is ollama's and was left (`SlotHoldsChild`), and a reader that is not loose
finds its own child or an empty slot there (`SlotIsOwn`), and never awaits another's exit.
pi, with one child for all, needs an account of its own (`PiOwes`): as long as no messages
overlapped and no reader has left early, the lines in the pipe and in the buffer are of the
one reader, its last one behind them, and there are none when it has gone. `EndingCorrect`
is not checked by a run: a stream that is over has told so once; gemini's may add one error
after its slot was emptied.

**`ChatEndsProofs`**, tab. `ClientTypeCorrect`. `WaitReasonCorrect` from `WaitInv`: a
`stream_resume` frame under way starts a wait, so it must itself have a reason
(`ResumeHasReason`), be it a last frame behind it in the same queue or a stream that will
still send one; and a tab without a connection waits for nothing (`OnlyWhenUp`), since the
drop that loses the frames ends the wait. `EveryChunkCorrect` from `ChunksArrive`: every
chunk so far is on the screen or in a frame under way, as one of its own or in a replay.

**`AgentPoolProofs`.** `TypeCorrect`, `ReachCorrect` and `OnceCorrect` from `PoolInv`; the
last says that no agent runs twice (`OneLivePerAgent`), and no run checks it. A creation is
alone on its id (`CreatesAlone`); on an id that is not `raced`, calls take turns
(`TurnsTaken`), what they hold is the pool's agent (`HoldsPooled`), what runs is in the pool
(`RunsInPool`), and a reset finds the map as empty as it left it (`ResetQuiet`): without
these the code between two waits could put back what another call has removed.
`StoreCorrect` adds `InStep`, whose part on a reset says that there is a row to restore for
each agent the pool misses meanwhile, and which leaves out the ids whose row could not be
written or deleted. `EditsCorrect` is an action property by cases on the step: no release
and no boot replaces a row that the user has changed.

**`ProviderLoginProofs`.** `TypeCorrect`, `OneTerminal`, `KeyCorrect` and `SuccessCorrect`.
`ClicksCover`: a dialog about to connect has a click that no terminal was opened for, so
there is a terminal to open. `OneOpenTerminal`: whatever ends the dialog has closed its socket,
so only the terminal on the screen has an open one, and no old terminal's frame is taken
for the new one's. `YesIsTrue`: a check that is about to say yes saw a credential that is
still there unless one was revoked since, which is what makes `SuccessIsTrue` inductive.

**Assumptions on constants** that the proofs added to what the runs evaluate say only that
kinds of values differ, that sets of calls are finite and that bounds are natural numbers;
a tab's queue has room for two frames (`MaxWire`), which is what one step of the server
sends at most.

**Model-checked only.**
- Liveness (`BufferReleased`, `ProcessingEnds`, `IdleAgentStops`, `QueuedIsServed`,
  `StreamsEnd`, `TerminalsEnd`, `DialogSettles`), and the fair part of `ImplementsService`.

All invariants and action properties that the runs check are theorems. Liveness is beyond the
prover (`ENABLED`), and so is what a recursive definition computes, of which there is none in
the modules.

## 6. Not modelled

- Contents: what a reply, a prompt, an event or a listing says; parsing of other programs'
  output beyond which kind of line it is; deduplication of memories; plain SQL.
- Validation of requests and forms, status codes, paging, the per-socket rate limit,
  response headers, the forwarded-for header.
- What a system action does: each is an operation of another module.
- In the dashboard: drawing (the memory graph, charts, the activity feed), the sidebar,
  the home page's cards, the cron log dialog, themes; other tabs, but for their effects.
- The memory service, the plugins and the child programs: external, as what they may do.
- The shutdown sequence of `index.ts` as a whole: its steps are in the modules of what
  they shut down, and their order matters to none of the properties.
- Workspaces on disk, the cron's execution log, a torn `config.json` (ignored at boot).
- Packaging and scripts, shared types, logging: nothing there changes state.

Accidents outside the modules, or beyond their properties: `agent-pool.ts:48` compares
`maxAgents` before its awaits and `restore()` never does; `server-factory.ts:139` restores
the pool before it upgrades the seeds, so that an unmodified seed runs its old definition
until the next start; `conductor.ts:598`: an extraction process whose spawn ends during
`shutdown()` is forgotten; `cron-manager.ts:247`: an agent that never answers bars its cron
for good; `session-process-pool.ts:55` records overrides before the spawn they are for.

## 7. Plan

Done, in the order of what matters most to a user: messages lost or reordered
(`SessionStream`, the pool, `AgentProcess`), what must survive a restart (`CronManager`,
`AgentPool`), the queue in front of all (`Conductor`), then both ends of the chat
(`ChatClient` over `SessionService`, `BackendProcess`), the inside of a turn, logins, the
gateway and the pages.

Left to model: `CronAgents`, composing `CronManager` and `AgentProcess` (executions as
sends to agents; which failures bar a cron), and `AgentPool` over `AgentProcess`.

Theorems to come: none of the safety properties is left. With `CronAgents` would come that it
implements `CronManager` with its executions that may end, and with `AgentPool` over
`AgentProcess` that an agent which is stopped and forgotten leaves no process behind.
