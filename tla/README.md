# TLA+ models of OpenNeox

OpenNeox is a coding agent: a *host* runs the turns of a session, a *runner* asks
a language model and hands its tool calls to a *batch scheduler*, and a *server*
streams everything that happens to desktop, command-line and phone clients. The
specifications here model the parts of it whose correctness depends on
interleaving, on cuts (abort, steering, timeout), on lost connections and on
work that goes on in the background. TLC checks them on small instances, and
every safety property of every run is also proved with TLAPS, for every value of
the constants.

`PROJECT.json` lists components, runs, mutations, findings, hazards and
theorems, and maps every definition to the source lines it translates. Paths
below are relative to `src/`.

## 1. The system and its parts

```
 phone ──▶ WsGateway ─┐                              ┌─ background tasks, wakeups
 desktop, CLI ──▶ main.ts: chat, pause, stop ◀── notifier, stop gate, stall guard
                      │                              permissions, ask_user
                      ▼
               AgentRuntimeHost ◀── injectUserMessage, steer, interrupt
                      │  before and after a turn: checkpoints ◀── file watcher
                      ▼
               runner.run (async generator) ── pause gate at the head of its loop
                      │ tool calls of one response
                      ▼
               runOrchestratedBatch
                      │ per call
                      ▼
     orchestrateToolUse: validate ▸ preHook ▸ gate ▸ execute ▸ postHook
                      │ tools that write files      │ tools of MCP servers
                      ▼                             ▼
     guarded tool ▸ WriteLockManager          MCPClientManager
                  ▸ withFileWriteLock
 AgentRuntimeHost ── events ──▶ EventBus ──▶ GET /events (SSE) ──▶ subscribeSSE
                                        └──▶ forwardEventToClients (WsGateway)
```

Everything modelled runs in one JavaScript process (the SDK client, phones, MCP
servers and git in others). A step of a model is what happens between two
`await`s, or a run of such pieces that nothing else can observe.

| Component | State | Operations | What is hard | What makes it correct |
|---|---|---|---|---|
| **Tool batch scheduler** `packages/kernel/src/core/toolOrchestration/batch.ts`, `settleBatch.ts`, `concurrencyLimiter.ts` | pending reads, pending writes and their path keys, outcomes, slots of the limiter | parallel prefix, serial loop, `flushSafeGroup`, `flushScoped`, barrier, abort check | which calls are in flight together; awaited groups; the abort is looked at in one place only | conflicting calls keep their order; one outcome each; only an abort leaves calls out; no slot lost; it returns |
| **Tool call pipeline** `orchestrate.ts`, `stages/*.ts`, `toolAbortRace.ts`, `stallGuard.ts` | stage of each call, its result, the tool function itself | validate, hooks, gate, `invokeTool`, `abortableRace`, `withTimeout` | signals read before or after an await; a tool function that outlives its call | nothing starts after a cut; outcomes are final; bodies overlap only after a timeout |
| **Agent turn and injected messages** `core/src/runtime/agentRuntimeHost.ts`, `injectedMessageQueue.ts`, `kernel/src/core/runner.ts` | running, queue open or closed, interrupted; the queue; the model stream's and the tool batch's controllers; the steering flag and its timer | `runTask`, `injectUserMessage`, withdraw, steer, `interrupt`; the loop of the generator | messages that arrive while the turn winds down; flags set in one phase and read in another; the race of event and interrupt | each message in one place, in order, consumed unless the turn was cut; steering and interrupt take effect |
| **Session run state, approvals, pause** `core/src/server/main.ts`, `services/sessionWaitingRegistry.ts`, `runtimeBridgeSetup.ts`, `sessionAborter.ts`, `runtime/pauseController.ts`, `kernel/src/core/pauseGate.ts`, `tools/askUserTool.ts` | status shown to clients, ledger of waits, pending approvals and questions, pause flag and its waiters | chat, ask, reply, pause, resume, stop | turns that overlap; an approval registered after the awaits of hooks; a stop that meets a pause | the status tells the truth; waits die with their turn; a parked runner can be woken; a stopped turn ends |
| **Background notifications** `runtime/shell/backgroundTaskNotifier.ts`, `scheduledWakeupRegistry.ts`, `services/userStopGate.ts`, `runtime/resilience/turnStallGuard.ts` | queue, debounce and running hand-overs, messages held after a stop, stall watch | enqueue, debounce, hand over, re-run, stop, recover | the queue is drained before the hand-over is decided; a turn or a stop comes in between | a message is given once; after a stop nothing begins that the user did not ask for, but a recovery of the stall guard under way; the queue empties |
| **MCP connections** `core/src/mcp/clientManager.ts`, `connectionGuard.ts` | connections, attempts under way, cool-down, errors, cached tool list | connect on demand, call with a retry, disconnect, close handler | shared attempts; a session that expires under several calls; close handlers that come late | tables agree with transports; a retry goes over another connection; every call ends |
| **File write locks** `core/src/tools/guardedWriteTools.ts`, `runtime/agent/writeLockManager.ts`, `tools/files/fileWriteLock.ts` | owner and expiry of each file, wait queues; the promise chain of each file | acquire in sorted order, wait with a timeout, release, expire, clean up; join and leave the chain | a lock that expires under its holder; the holder's late release; a rename that waits with one lock in hand | who works on a file has its lock unless an expiry explains it; writes of `edit` and `write_file` stay serial; no circular wait; every call answers |
| **Event bus and SSE stream** `core/src/server/eventBus.ts`, `/events` in `server/index.ts`, `core/src/sdk/client.ts` | sequence numbers, ring buffer, cached `run_result`; queue of one response; the client's position | publish, subscribe with replay, clear, write, read, reconnect | lost connections, a ring that overflows, timers, restarts, chunk boundaries | in order, no duplicate, no loss of what the ring holds |
| **WebSocket gateway** `core/src/server/wsGateway.ts`, `boundedUUIDSet.ts` | entry of each device, session it is fed from, the last messages it took | accept, replace, close, heartbeat, message, forward | an old socket's close after its replacement; messages sent again on either; a set that forgets | an open connection is fed; a message delivered again has no second effect while the newest entry remembers it |
| **Checkpoints and rollback** `core/src/runtime/checkpoint/ShadowGitCheckpoint.ts`, `runtimeCheckpointService.ts`, calls in `runtimeOrchestrator.ts` | a private git repository and its index, change buffer, watch, baseline, chain of finishes, lock | baseline, record changes, snapshot in the background, maintenance, rollback, revert and reapply of a file | snapshots overlap with the next turn; one index for everybody; events that come late; directories, which git adds whole; awaits between look and reset | a turn's commit has only files the turn touched, or that lie in a directory it made; no turn before its own snapshot; overwrites keep a copy; nobody waits for ever |
| **File watcher** `core/src/runtime/watch/WatchCoordinator.ts` | started, root, subscriptions and their timers, native watchers | start, subscribe, unsubscribe, stop | a start meets a stop that still awaits | no callback after leaving; a start made alone is fed or degraded; stops end |
| Request throttle `platform/src/platform/requestThrottle.ts` | two semaphores | acquire, time out | | not modelled: only its tests use it |
| Coalescing scheduler `platform/src/shared/scheduling/coalescingScheduler.ts` | queued tasks, timer | fire, flush, dispose | flush while firing | not modelled: the desktop's project start-up only |
| Remote runtime adapter `core/src/sdk/remoteRuntimeAdapter.ts` | mirrored run state, pending chats | send, subscribe, idle windows | terminal events matched to the oldest pending chat; resubscription from position zero | not modelled: see section 7 |
| Write intents `platform/src/shared/async/writeIntent.ts`, automatic compaction `kernel/src/core/autoCompactGuard.ts` | | | | not modelled: user interface; a language model's summary |
| Providers, tools, command line, desktop, cloud | | | | not modelled: I/O; a model's answer and a tool's result are arbitrary |

The hazards of this code, each at its line, are in `PROJECT.json` with the
properties that cover them and a note where none does.

## 2. Modules

| Module | What it is |
|---|---|
| `ToolBatch` | One batch: the scheduler, the limiter, the pipeline of every call, the two signals. |
| `OrderedBatch`, `ToolBatchRefinement` | What the runner may rely on, without groups, limiter, gates and timeouts; the mapping onto it. |
| `AgentTurn` | The turns of a session: host, message queue, steering, and the runner's loop as far as it can be cut. |
| `MessageBox`, `AgentTurnRefinement` | What the user is promised of a message he types during a turn, without phases, streams, tools and timers; the mapping onto it. |
| `SessionRun` | What the server says a session is doing: status, ledger, approvals, questions, pause, stop. |
| `AutoTurns` | Turns nobody typed: notifier, stop gate, wakeups, stall guard. |
| `McpClient` | The connections to one MCP server. |
| `WriteLocks` | The guarded write tools, the lock manager and the per-file chain. |
| `EventStream` | Event bus, one `/events` response and `subscribeSSE`, for one session. |
| `EventFeed`, `EventStreamRefinement` | What a client of the stream is promised, without ring, responses, wire and reconnections; the mapping onto it. |
| `WsGateway` | The phones' sockets, the table of clients, and the feed. |
| `WatchCoordinator` | The shared file watcher of a process. |
| `ArrayFilter` | `Array.prototype.filter`, as `AgentTurn`, `MessageBox` and `EventStream` use it. |
| `Checkpoint` | The private git repository of one workspace and the turns around it. |
| `X_proofs` for `ToolBatch`, `SessionRun`, `AutoTurns`, `McpClient`, `WriteLocks`, `WsGateway` | The theorems about X and their proofs. |
| `MessageFlow_proofs` | The theorems about `AgentTurn` and `EventStream` with their refinements, and what they all need: what the filter returns. |
| `Workspace_proofs` | The theorems about `Checkpoint` and `WatchCoordinator`. |
| `MCX` for each component | The instance TLC checks. |

The components meet at narrow interfaces and are specified side by side.
- `AgentTurn`'s phase `"tools"` is one whole `ToolBatch`: it may return at any
  time, and must once it is aborted (`AbortReleases`).
- The body of a write in `ToolBatch` is a call of `WriteLocks`. After a hard
  timeout two bodies for one file may run at once (`OverlapOnlyByTimeout`), and it
  is then the locks that keep them apart, as far as `WriteLocks` shows. The body
  of an MCP tool is a call of `McpClient`; `CallsEnd` is why it returns.
- `SessionRun`'s `Park` and `RunnerCloses` are the head and the end of
  `AgentTurn`'s loop; a turn of `SessionRun` or `AutoTurns` is one of `AgentTurn`'s
  (`InterruptEndsTurn` is why a stop can end it).
- What `AgentTurn` emits is `Publish` in `EventStream` and in `WsGateway`.
- `Checkpoint`'s `unseen` is the time `WatchCoordinator` takes to tell of a change,
  and its `subs` are `WatchCoordinator`'s subscribers.

### ToolBatch

`calls[i]` is the profile of the i-th tool call: everything
`judgeParallelSafe` and `getWritePlan` look at, as a record. `JudgeParallelSafe`
and `WritePlan` translate these functions, `KeyOf` stands for `normalizePath`
(a function from raw to normal paths, `NoKey` where it yields nothing) and
`FileOf` for what the operating system would open.

The orchestrator's `pc` goes from `"start"` (parallel prefix) to `"top"` (head of
the serial loop, the only place that looks at the abort), `"place"` (the current
call joins a group, or a group is flushed first), `"settle"` (a group is being
awaited; `ret` is where it goes on), `"drain"` (the flushes after the loop) and
`"done"`. `Launch` is `runBatchSettled` with or without a limiter: as
`limit()` is called for all members synchronously, the first `Cap` get a slot and
the rest wait in order. The limiter hands a slot on in two steps, as the code
does: `Record` frees it and wakes the first waiter, `TakeSlot` is the waiter's
continuation that counts itself in.

`st[i]` is a call's progress: `idle`, `waiting` and `woken` (limiter), `gating`
(validation, pre hooks, gate: they block the call or let it through), `running`,
`posting` (the result is known, post hooks run), `settled`. `body[i]` is the
tool function, which no signal can end: after `HardTimeout`, `Abort` or `Steer`
it runs on, and `LateReturn` is its end, whose result is swallowed.

### AgentTurn

`phase` is where the generator is, or the host around it: `top` (the guards at
the head of the runner's loop), `starting` (the `iteration_start` event on its
way), `settling` (the awaited usage settlement), `preparing`, `streaming`,
`answered`, `tools`, `exhausted` (the generator is done; the turn goes on if
messages wait), `closing` (from the closing of the queue to the `finally`
block). `stream`, `toolSteer`, `grace` and `steering` are the runner's two
abort controllers, its five-second timer and `steeringInterruptRequested`.
`urgent` remembers what steering has promised to place. `Inject`, `Withdraw`,
`Steer` and `Interrupt` come from outside at any time.

As a `MessageBox` a turn is only `whole` or `cut` (interrupted or crashed); what
waits in the queue is said between two steps or when the turn would end, taken
back by the user, or handed back at the end of a turn that was cut. Everything
else the turn does is a stutter of the box.

### SessionRun

`turn[t]` is a call of `bridge.chat` and `runner[t]` the generator under it:
`working`, `parked` at the pause gate, or `closed`. `status` and
`pendingToolCalls` are `sessionRunStates`, `ledger` is `sessionWaiting`, `gate` and
`waiters` are the `PauseController`. An approval is `checking` while guardrails
and hooks are awaited, `pending` once it is registered. `SyncWaitingStatus`,
`EnterWaiting` and `ExitWaiting` are the registry's functions, and each action
that enters or leaves a wait contains them. `Stop` is `abortSession`, which settles
the waits that are registered; `late` records the approvals that are registered
afterwards.

### AutoTurns

A message is queued (`Tasks`, `Scheduled` jobs, `Notes` that must not begin a
turn) or fires by itself (`Wakeups`). `run[r]` is one call of `_runAutoResume`: its
debounce has fired (`scheduled`), it waits for the turn in flight (`waiting`), it
has drained the queue into `batch[r]` and awaits the handler (`handling`).
`Handle` is the handler with the stop gate in it: the batch begins a turn, is
held, or is dropped. `UserChat` takes what is held. `StallAborts` and `Recover` are
the stall guard's abort and the turn it begins after 400 ms, for which it does
not ask the stop gate. `given` and `lost`
are history.

### McpClient

Connection `k` is the k-th transport ever made; `conn[k]` is its life, `entry`,
`connecting`, `coolingDown`, `errors` and `toolsCache` are the manager's maps at this
server's key. `EnsureConnected` joins the attempt under way or begins one;
`Opened`, `OpenFails` and `GivesUp` end it for everybody who waits. A call whose
session has expired (`SessionExpired`) disconnects and, if it may, connects and sends
once more (`RetriesSession`). `TransportCloses` is the `onclose` handler, which
may run long after `close()`.

### WriteLocks

A call of a guarded tool (`createWrappedTool`) names its `targets`; `acquired` is
`acquiredTargets`. `pc[w]` is `acquiring` between two acquires, `waiting` in a
wait queue, `reading` and `chained` for `edit` and `write_file` before their
turn in the chain, `writing`, and `done`. `owner` and `waitQueues` are the
manager's two maps; `owner` names the call that made the entry, and only
`AgentOf` of it can be seen by the code, as `Releasable` does. `Free` deletes
entries and hands each file on (`processWaitQueue`); it is part of every
release and of the clean-up timer. A grant is one step with the
release, because the waiter's continuation cannot be overtaken. `overdue` records
the calls whose entry has expired.

Time is not counted: an entry may expire at any time after it was made, and a
waiter may time out at any time. All callers use the same default timeout, so
the timers of one queue fire in its order, which is the guard of `WaitTimesOut`.

### EventStream

An event is its sequence number. `SubscriptionFrom` is `subscribe`: replay and
registration are one turn of the event loop, and the handler that `Publish`
calls drops what the replay has covered. A `Subscribe` names a position only
when it counts as a reconnection (`retry`) and the position is not 0. `Hello`
writes `connected` and, for a client that reconnects without a position, the
cached `run_result`, which has no `id`. `Read` and `ReadSplit` are
the client's loop on a message within one chunk and across two. `StreamLost`,
`CleanEnd` and `DialFails` are the three ways back into the outer loop, and
`Restart` replaces the server process.

`got`, `evicted`, `stale` and `faults` are history variables: what was handed
over, what fell out of the ring, the client's position when its server died, and
what else than a lost connection has happened, so that a property can say under
which faults it holds.

As an `EventFeed` the client follows a log: a number is published, given, or
forgotten while the client was away, and what is given comes in order and after
everything before it that was not forgotten. The cached `run_result` comes at most
once and first. After a fault the feed keeps the order but may leave gaps.

### WsGateway

Connections are numbered as they are accepted; `clients[d]` is the table's entry
of device `d`, as the connection that made it. `Connect` replaces an entry and
closes the old socket (`closing`), whose close event (`Close`) comes later and
deletes the device's entry, whoever made it (`robbed`). `CheckHeartbeats`
terminates the socket of a peer that has vanished. `HandleMessage` is
`handleClientMessage`: the entry of the socket's *device* judges a message, which
is dropped if the entry's `inbound` has it, and else taken (`taken`, by entry and in
order); a chat among them subscribes the entry to its session. `inbound` is
`BoundedUUIDSet`: the last `Capacity` messages, where the oldest makes room
(`Added`). `Forward` is `forwardEventToClients`.

### WatchCoordinator

`started`, `rootDir`, `startup`, `subscription` and `degraded` are the fields;
`native[n]` is the n-th native watcher, from `loading` the library to `closed`.
`stops[i]` is one call of `stop()`: it awaits the start-up, then the native
watcher's closing, then clears the fields, and a start that had to wait
behind it (`next`) is made. A change buffers for each subscriber and arms his
timer; a callback for somebody who is no longer in the table, because he left, or because a
stop or a change of root emptied it, is recorded in `late`.

### Checkpoint

`disk`, `index`, `repo` and `head` are the workspace and the private repository: a
commit is a position in `repo`, `alive` the commits that gc has not pruned. `queue`
is the promise chain of `withGitLock`, `chain` that of `pendingFinish`; `awaits[a]` is
how many finishes actor `a` still waits for. Actors are the sessions, the
`Finisher` (snapshots), the `Janitor` (maintenance) and the `User` (commands). A
change goes from `unseen` (not told by the watcher) through `debounce` and
`recording` to `buffer`. `StageAll` is `stageWorkingTreeWithinBudget` with the
commit behind it: only what differs from the *index* is staged, and without it
there is no commit. `Residue` is what this misses. `dirty` and `added` are
history.

A change names a file, or a directory of `Dirs` when the first file comes into it or
the last one leaves (`DirChanges`); `Inside` says which files lie beneath it. What
is in `buffer` when a snapshot is taken is handed to git as paths: `git add` of a
directory stages every file beneath it, recorded or not (`ToAdd`, `Staged`), and
fails as a whole over a path it finds nowhere (`AddFails`; over an empty directory
it may, `AddMayFail`); `git rm --cached` refuses as a whole when one path is a
directory (`RmRefused`), and nobody hears of it. `InBase` is what a plain revert
finds of a file in a commit that may have been pruned.

## 3. Runs

| Run | Instance | What it shows |
|---|---|---|
| `batch_calls` | 53 batches of 3 calls on one slot: every triple of a read, a timed write and a rename, and every other kind of call between a write and a rename | `ConflictOrder`, `OverlapOnlyByTimeout`, `SameFileSerialized`; the refinement `ImplementsOrder`; `BatchTerminates`, `AbortReleases` |
| `stream_resume` | ring of 2, 4 events per incarnation, 2 `run_result`s, 2 lost connections, 2 incarnations | the refinement `ImplementsFeed`; `DeliveredInOrder`, `StreamComplete`, `CatchesUp` |
| `turn_messages` | 2 messages, 2 turns | the refinement `ImplementsBox`; `OnePlace`, `ReturnedOnlyIfCut`, `PlacedAsMeant`, `SteeredMessagesMove`, `InterruptEndsTurn` |
| `locks_calls` | 3 calls of two agents on 2 files, each an edit, a deletion or a rename of both | `WritersHoldEntries`, `ChainSerializes`, `WaitsAreSound`, `CallsAnswer` |
| `mcp_calls` | 2 tool calls and a connect, 5 connections, 2 errors to a disconnect, 1 retry | `TablesAgree`, `SentAgainElsewhere`, `CallsEnd` |
| `mcp_orphans` | the same | *violated* `NoOrphan` |
| `session_run` | 2 turns, 2 approvals, 1 question | `StatusTells`, `WaitsDieWithTurn`, `ParkedCanResume`, `StopEndsTurn` |
| `auto_turns` | a task, a scheduled job, a note and a wakeup; a queue of 2; 2 turns and 2 hand-overs at once | `OnePlace`, `StopHolds`, `QueueEmpties` |
| `gateway_feed` | 1 phone, 3 connections, 3 messages of which 2 are chats, in 2 sessions; a set of 2; 4 messages taken or on their way; 1 event | `OpenIsFed`, `DuplicatesDropped` |
| `watch_calls` | 2 callers, 2 roots, 3 native watchers, 3 subscriptions | `NoCallAfterUnsubscribe`, `FedIfStartedAlone`, `StopsSettle` |
| `checkpoint_turns` | 2 sessions, 2 turns that may fail, a directory with 2 files of two contents, 2 edits, no command | `TurnCommitsOnlyItsFiles`, `OwnSnapshotFirst` |
| `checkpoint_rollback` | 1 session, 2 turns that may fail, 1 file with two contents and no directory, 1 edit, 2 commands of any kind | `OverwritesKeepACopy`, `StartsRun` |

The type invariant of `WatchCoordinator` is a run property, and those of all
modules are theorems. `EventStream` and `WatchCoordinator` prefix
names such as `StreamInit` and `WatchTypeOK`, because a proofs module extends them
together with another component.

**Bounds.** Three calls are a group of two on one slot and a conflicting call
behind it: a waiter to wake, a group to flush and a call ahead of the index; the
middle position of a batch takes each of 13 further kinds, one per branch of the
two judgements, two spellings of a path, a blank path and a hook that throws
among them. In `EventStream` a ring of two overflows with four events while the
client is away, and two breaks let a resumed stream be resumed again. In
`AgentTurn` two messages of either kind show order and duplication, and two turns
what one leaves to the next. In `WriteLocks` a robbery takes three calls (one
whose entry expired, its successor, one that waits), two files are what a
circular wait needs, and two of the calls share an agent id while the third has
another. In `McpClient` each call connects at most twice and the user once, so
five connections are all there can be; two calls are needed to find a session
expired under each other. In `SessionRun` two turns overlap, two approvals show
that a reply settles one of several, and a question ranks behind them. In
`AutoTurns` three queued messages overflow a queue of two. In `WsGateway` three
connections of a device let a close hit a successor and a successor's successor;
three messages overflow a set of two (2000 in the code), and the fourth sending is the one that the set
has forgotten or remembers; one device is enough because devices share only the bus. In `WatchCoordinator` two
callers are a joiner and a leaver, two roots a change of root, and three native
watchers a start behind a stop behind a start. In `Checkpoint` two sessions
overlap on the index, on the buffer and on the watch; two commands are a rollback
to a commit that the first rollback made unreachable and maintenance pruned; one
directory with two files is one that is made around a file and found with another. The
disk starts with any content. A rollback beside directories and two sessions is
more than a run finishes in its five minutes; `TurnCommitsOnlyItsFilesAlways`
covers it.
`MaxSeq`, `MaxTimers`, `MaxBreaks`, `MaxEpoch`,
`MaxTurns`, `MaxConns`, `MaxEvents`, `MaxSends`, `MaxNatives`, `MaxIds`,
`MaxEdits` and `MaxCommands`, and the sets `Conns`, `Turns`, `Slots` and `Runs`, are the
only bounds in guards. Symmetry (of sessions, files and contents) is used in
`checkpoint_turns` only, which has no liveness property.

**Fairness.** It is the event loop's: a continuation that is ready runs.
- `ToolBatch`: the orchestrator, the limiter's waiters, the hooks and the gate
  go on. Tools need not return: `AbortReleases` holds without it, and
  `BatchTerminates` assumes it explicitly (`ToolsReturn`: a tool returns or has
  a hard timeout). A gate that asks the user is taken to be answered.
- `EventStream`: the client dials, the server answers and writes what is
  queued, a connected client reads. Connections may be lost `MaxBreaks` times.
- `AgentTurn`: generator and host go on, the timer fires, and a stream or a batch
  *that was aborted* ends. A model that never stops and a tool that never
  returns are allowed, and messages, steering and interrupts may or may not come.
- `SessionRun`: runner and chat end once they can, questions expire. The user need
  not answer, resume or stop, and a hook may hang for ever.
- `AutoTurns`: turns end, timers fire, hand-overs go on. Nothing else need happen.
- `McpClient`: continuations run, and every wait on the server has a timeout. The
  server need never answer.
- `WriteLocks`: continuations run and timers fire. That tools end is assumed only
  by `CallsAnswer` (`ToolsEnd`).
- `WatchCoordinator`: native watchers open or fail, and close; stops and timers run.
  Callers and file changes owe nothing.
- `Checkpoint`: file reads and git commands end. Edits, ends of turns, commands
  and the maintenance timer come when they come.
- `WsGateway` has safety properties only and states no fairness.

Deadlock is checked in `ToolBatch`, `AgentTurn` and `WriteLocks`, which name the
states in which they rest (`Terminated`, `Idle`, `Quiet`). In the other modules
the environment may simply stop, and nothing need happen any more.

Every property of a passing run has a *mutant*: a changed definition, kept
beside the original with a comment that starts with "Bug:", under which TLC
finds the property violated. They are the plausible mistakes this code avoids
(a group raced instead of awaited, the signal read before the gate, a slot freed
without waking anybody, a buffer trimmed too early, a queue left open, a held
message peeked at, a full set emptied, a lock taken twice, `git add` of the whole workspace).

## 4. Findings

`mcp_orphans` shows the one disagreement that a run states: `client.onclose` deletes
the server's entry without asking whose it is (`mcp/clientManager.ts:366`), although
`clientManager.ts:330-332` says that a transport which works must be findable or
closed. The handler of a connection that was given up runs after its successor is
in the table, and the successor stays open where nothing can find it.

Other places where the code does something else than a comment near it says were
met while modelling. The models have them as they are, and where a property would
speak about them it excludes them by name:

| Where | What the code does |
|---|---|
| `batch.ts:356` vs `129` | a group of writes is started without the limiter, although `maxConcurrency` is called an upper bound |
| `runner.ts:662` vs `server/index.ts:233` | the steering flag outlives the batch, and the next, complete response is dropped as interrupted |
| `runner.ts:664` vs `README.md:332` | five seconds after steering the running tools are aborted |
| `eventBus.ts:17` vs `157` | after a restart numbers begin again and the handler drops what the client's position covers (`stale`) |
| `client.ts:87` vs `eventBus.ts:102` | a client that loses its connection before it has read an event with an id reconnects without a position and is replayed nothing, though the ring still holds what it missed (`Owed` counts for such a client from its next connection only) |
| `client.ts:146` vs `158` | an event cut by a chunk boundary is lost (`faults`: `split`) |
| `writeLockManager.ts:203` vs `124` | locks are released by agent id, so a call whose entry expired releases its successor's (`WritersHoldEntries` excludes it by `overdue`) |
| `main.ts:1307` vs `1737` | a session keeps the status `paused` after its turn has ended |
| `main.ts:1326`, `1145` vs `1323` | after an abort of the program's own the drained messages are dropped (`lost`) |
| `main.ts:2338` vs `803` | the turn the stall guard begins 400 ms after its abort does not ask the stop gate: a stop that comes in between is followed by it (`StopHolds` names it as the exception) |
| `wsGateway.ts:297` | the close of a replaced socket deletes its successor's entry (`robbed`) |
| `wsGateway.ts:240` vs `boundedUUIDSet.ts:1` | the set of message ids belongs to an entry: a chat sent again after a reconnection is started twice (`DuplicatesDropped` is about one entry) |
| `WatchCoordinator.ts:438` vs `322` | a stop that is still waiting clears the root of the start made meanwhile, and the watcher drops every event without being degraded (`overlapped`) |
| `ShadowGitCheckpoint.ts:415` vs `runtimeCheckpointService.ts:37` | a change the watcher still buffers when the turn ends misses its snapshot and is committed with the next baseline, as the user's |
| `ShadowGitCheckpoint.ts:762` vs `turnBaselineRegistry.ts:2` | a file created and deleted in one turn makes `git add` fail as a whole: the turn has no snapshot, the watch goes on, and the next turn is given the old baseline |
| `ShadowGitCheckpoint.ts:762` vs `733` | a directory that was made is handed to `git add` and stages every file beneath it, recorded or not (`ToAdd`, `added`) |
| `ShadowGitCheckpoint.ts:768` vs `766` | the watcher tells of a deleted directory as of a deleted file (`WatchCoordinator.ts:359`); `git rm` without `-r` then refuses the whole list, the failure is ignored, and all deletions miss the turn's commit (`RmRefused`) |
| `ShadowGitCheckpoint.ts:985` vs `982` | a base commit that was pruned looks like a file the turn made: a plain revert deletes it (`InBase`) |
| `ShadowGitCheckpoint.ts:1008` vs `733` | a revert of one file changes disk and index alike; the next turn's commit contains it (why `TurnCommitsOnlyItsFiles` is about rollbacks only) |
| `ShadowGitCheckpoint.ts:868` vs `864` | for the same reason the save before a rollback finds nothing staged, commits nothing, and the reset loses the reverted file (`Residue`) |
| `ShadowGitCheckpoint.ts:1535` vs `864` | maintenance prunes the commit from which a rollback could be reapplied |
| `ShadowGitCheckpoint.ts:827` vs `822` | the maintenance timer asks whether a turn is watched before it queues for the lock, and may run during one |

## 5. Proofs

All from the `ASSUME`s of the component modules only, for every value of the
constants.

| Module | Theorems | Inductive invariant |
|---|---|---|
| `ToolBatch_proofs` | `TypeCorrect`, `OrderKept`, `OverlapBounded`, `FilesSerialized`, `PrefixReturned`, `CutStopsStarts`, `OutcomesAreFinal`, `Refinement` | `GroupInv`: where each call is; `PendingInv`: pending calls may run together; `BodyInv`: which bodies outlive their call |
| `MessageFlow_proofs` on `ArrayFilter` | `KeptPicks` | |
| `MessageFlow_proofs` on `AgentTurn` | `TurnTyped`, `OnePlaceAlways`, `PlacedAsMeantAlways`, `ReturnedOnlyIfCutAlways`, `BoxRefinement` | `Fated`: queue and conversation have each message once, and its fate says where; `Left`: a turn that closes has crashed, or has closed its queue interrupted or empty; `Running`: only a running turn has a phase; `Uncaught`: a generator that threw is not asked again |
| `MessageFlow_proofs` on `EventStream` | `StreamTyped`, `DeliveredInOrderAlways`, `StreamCompleteAlways`, `FeedRefinement` | `RingIsLast`, `Numbered`, `InOrder`, `Position`, `Resumes`, `NothingLost`; `ResultFirst` and `Reached` for the last |
| `SessionRun_proofs` | `TypeCorrect`, `StatusTellsAlways`, `WaitsDieWithTurnAlways`, `ParkedCanResumeAlways` | `Order`, `Runners`, `Overlaps`, `Stopped`, `Shows`, `Counts`: turns begin in order and overlap where a later one has begun, only a stopped turn ends before its runner, what a stop leaves pending was registered after it, what is shown to wait waits |
| `AutoTurns_proofs` | `TypeCorrect`, `OnePlaceAlways`, `StopHoldsAlways` | `Carries`: what a batch may hold; `Gate`: the gate holds messages only while it is shut; `Where`: the one place of each message |
| `McpClient_proofs` | `TypeCorrect`, `TablesAgreeAlways`, `SentAgainAlways` | `Attempts`: an attempt and those who wait for it; `Requests`: where a request has been sent, against the retries used |
| `WriteLocks_proofs` | `TypeCorrect`, `WritersHoldEntriesAlways`, `WaitsAreSoundAlways`, `ChainSerializesAlways` | `Typed`, `Queued`, `Entries`, `Sorted`, `Robbed`; `Chains`: who is in a file's chain, and that only its first call writes |
| `WsGateway_proofs` | `TypeCorrect`, `OpenIsFedAlways`, `DuplicatesDroppedAlways` | `Accepted`: what a connection may have been through; `Remembers`: an entry's set is the end of what the entry has taken, and all of it until it is full; `Newest`: the table has the newest connection of a device, or none |
| `Workspace_proofs` on `Checkpoint` | `TypeCorrect`, `OwnSnapshotFirstAlways`, `TurnCommitsOnlyItsFilesAlways`, `OverwritesKeepACopyAlways` | `GitOK`, `ActorsOK`, `EventsOK`, `OrderOK`, `Settles`; `Clean` for the third, `Looked` for the last |
| `Workspace_proofs` on `WatchCoordinator` | `WatchTyped`, `NoCallAfterUnsubscribeAlways`, `FedIfStartedAloneAlways` | `DriveOK`, `TableOK`, `HeldOnes`, `Alone` |

Two theorems state a hypothesis on the constants:
`FilesSerialized` that no file has two keys (`KeysTellFiles`), as in a workspace
without links, on Windows or on a case-sensitive file system; and
`TurnCommitsOnlyItsFilesAlways` that no single files are reverted.

Why the plain properties are not inductive, by the examples that took most:
- *ToolBatch.* That a new group may start depends on what is still unfinished
  behind `next`, on what the pending groups hold and on what their keys cover.
  The lemma `LaunchOrder` is the heart: a group whose members are pairwise free
  of conflict, launched when every earlier call has settled, keeps
  `ConflictOrder`. A body that outlives its call was cut by a timeout or by a
  raised signal; with `NoStartAfterCut` this leaves the timeout as the only
  cause of overlap. `FilesSerialized` then needs no invariant of its own: two
  writes with a file in common have a key in common, so they conflict.
- *The filter.* What `Kept` returns is a statement about every length of its
  argument. As the induction theorems cannot be used, `LeastOf` gives the shortest
  prefix on which the statement fails, and the recursion refutes it. `KeptPicks`
  says it with a map of positions: the result is what stands at increasing
  places of the argument, and every element of the set has such a place.
- *AgentTurn.* That no message is in two places needs that a sequence is split into
  what is placed and what stays (`KeptPicks` twice), and that a message is accepted only
  once. That a whole turn hands nothing back needs `Left`, and
  for the refinement `Uncaught`: a turn that has crashed never goes on with what waits,
  as only a whole turn of the box does.
- *EventStream.* A lost connection throws away the wire and the queue, so what will
  be missing is decided where they are: `NothingLost` says that everything above the position
  resumed from has been delivered, is on its way, or had left the
  ring. A restart numbers events afresh while the client's position stays: `Position` and
  `stale` keep the old position from being taken for a new one.
  `Resumes` holds only without the faults `StreamComplete` excludes, the order (`InOrder`)
  under all of them. For the refinement a given event must close every gap below it,
  which is `NothingLost` one step later, and a cached result must find the client empty-handed
  (`ResultFirst`).
- *WriteLocks.* A call takes its files in sorted order (`Sorted`: what it waits for
  is above all it holds), so two calls cannot wait for each other. `Robbed` ties
  every entry that is missing to an overdue call with the same agent id.
- *Checkpoint.* Only the head of `queue` works with git (`ActorsOK`), so the index
  is one actor's at a time. `Settles` counts: whoever waits for finishes waits
  for exactly those that were in the chain when he began and are still there,
  hence a session that goes on has none of its own left. `Clean` says that
  the index is the tree of `HEAD`, but for what a snapshot has added, removed and not
  yet committed, where a recorded directory stands for all files
  beneath it. It is true only without reverts of single files, which is
  the assumption `Commands \subseteq {"rollback"}` of its theorem. `Looked`
  covers the awaits between a command's look at the disk and its write: until then a
  live commit has what was looked at, but for the files edited since.
- *WatchCoordinator.* A start that met no stop and no start is fed as long as
  nobody stops, which nothing in one state shows. `Alone` follows its native
  watcher on its way, and says that no other is opening and no stop is under way.
  `HeldOnes` says that buffers and timers belong to entries of the table, which leaving,
  a stop and a change of root keep true, each in its own way.
- *WsGateway.* That a duplicate is dropped is a statement about everything an entry has
  ever taken, and the code keeps `Capacity` of it. `Remembers` makes the set a suffix of
  that history, so what is not in the set lies `Capacity` messages back; `Newest` is why a
  message that an old socket delivers is judged by the device's newest entry.
- *AutoTurns.* `StopHolds` is a statement about steps: every action that begins a turn is
  shown to be the user's, to open the gate, to be a scheduled job's, or to be `Recover`,
  and `Recover` to leave queue, batches and held messages as they are.

**Only model-checked:** the liveness properties, which need fairness and `ENABLED`:
`BatchTerminates`, `AbortReleases`, `CatchesUp`, `SteeredMessagesMove`,
`InterruptEndsTurn`, `CallsAnswer`, `CallsEnd`, `StopEndsTurn`, `QueueEmpties`,
`StopsSettle` and `StartsRun`; and the violation of `NoOrphan`. **Only proved:** the type
invariants of the modules whose runs do not list them, `KeptPicks`, and
`OutcomesAreAPrefix`, `NoStartAfterCut` and `OutcomeIsFinal` of `ToolBatch`. The
specifications use no `RECURSIVE` operator.

## 6. What the models leave out

- **ToolBatch.** Two calls with the same id; look-up of tools by alias (a call is
  found or not); the contents of arguments and results; the state that hooks,
  permissions and the loop detector keep between calls (they block or do not);
  of the stall guard everything but `withTimeout`. Links and case-insensitive
  file systems, where two keys name one file: `FileOf` could express them, the
  instances do not.
- **AgentTurn.** The host's retry of a stalled stream; compaction; everything in
  the conversation but the injected messages; usage. A message that continues the
  turn is "placed" when the host takes it from the queue, although `runner.run`
  adds it to the conversation a little later. A generator that the host has
  abandoned is not followed any further.
- **SessionRun.** Several sessions and the fallback that guesses one; questions
  answered after a restart; the optional limit on a pause (off by default);
  sub-agents. `StatusTells` says nothing of the status `paused`. `WaitsDieWithTurn`
  excludes approvals that are registered after the stop of their turn (`late`; they
  wait until they are answered) and, of turns that overlap, the questions whose own signal
  the stop does not fire.
- **AutoTurns.** How a process or sub-agent is tracked before it reports; the limit
  of 20 on held messages; wakeups kept across a restart; the stall guard's
  warning level. A stop does not hold up a recovery that is under way: `StopHolds`
  promises only that the recovery takes no message with it.
- **McpClient.** The trust prompt, OAuth, elicitation; several servers, which share
  only maps keyed by server; `disconnectAll` and `refreshTools`, which nothing calls.
- **WriteLocks.** `releaseAll`, `isLocked`, `destroy` and the switch that turns the
  locks off, which nothing calls outside tests; waits with a timeout of their
  own, under which the removal by agent id could hit another waiter; tools that
  name no path at the top level (`edit` with `edits[]`, `edit_batch`) and so
  take no lock; the contents of the files.
- **EventStream.** One session with one numbering; subscriptions to `'*'`, which
  never replay; `dispose`; a handler that throws; back-off times. What a client misses when it
  loses its connection before it has read anything with an id is not owed to it (`Owed`),
  because it reconnects without a position. Noted in
  `faults` and excluded from `StreamComplete`: a response that ends cleanly (the
  client then resumes without its position), a cached `run_result` newer than the
  subscription, a split event.
- **WsGateway.** `replayMissedEvents` and the flush gate, which never run because a
  new entry has no session; the delivery tracker,
  which only counts; messages without a uuid, which are never taken for duplicates;
  what a control request does beyond being taken; `stop()`, which nothing calls.
- **WatchCoordinator.** Filters and ignore lists, sub-roots, links; errors a native
  watcher reports while it runs.
- **Checkpoint.** Directories that are made or removed while they are empty, and
  directories within directories. The size limits (a file too large to be recorded can
  still be staged with its directory) and the degraded baseline (a rollback goes ahead
  without a save when staging is degraded); failures of git other than an
  unmatched path; `truncateHistoryTo`, which rewrites every commit id; `revertHunk`;
  `revertTurn`, a loop of single reverts; two commands at once; a change of
  workspace; a restart. What is written between a command's look at the disk and
  its reset is lost (`dirty`).

**Not modelled.** The request throttle is used by nothing but its tests. The
coalescing scheduler serves the start-up of a project in the desktop
application, and write intents its user interface. Automatic compaction is decided by
token estimates and a language model. Providers, tools, command line, desktop and
cloud clients are I/O and user interface: they are most of the repository's lines,
and little of their behaviour is a protocol that a model checker could examine.

## 7. What is left

- The remote runtime adapter as a client of `EventStream`: it matches a terminal
  event to the oldest pending chat and resubscribes from position zero after an
  idle window. The coalescing scheduler. The host's stall retry inside
  `AgentTurn`. History truncation in `Checkpoint`.
- Abstract specifications for `WsGateway` (what a phone is promised) and
  `SessionRun` (what the user is shown) to implement.
