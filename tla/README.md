# A TLA+ model of the OpenClaw event server plugin

TLA+ modules, TLC configurations and TLAPS proofs for the plugin whose source is
`src/` of this repository (paths below are relative to it). The aim is the part of the
plugin that tests reach badly: several processes sharing a lock and a socket, queues that
change while an `await` is pending, callbacks that arrive late, crashes and restarts.

## 1. The system

The plugin runs inside every OpenClaw runtime of a host (gateway, agents). One runtime
is meant to *own* the transport: it serves WebSocket clients, webhooks, the event log and
hook bridge rules. The others are *followers* and relay their events to the owner over a
Unix domain socket.

| Component | State | Operations | Talks to |
|---|---|---|---|
| Transport lock (`transport/ownership.ts`, `lock.ts`) | lock file (payload, mtime), socket path | acquire (exclusive create, inspect, stale check, unlink, recreate), heartbeat, release, socket cleanup | other processes, through the file system |
| Transport manager (`transport/manager.ts`, `manager-recovery.ts`) | role, ownsLock, server, heartbeat/retry/recovery timers, pendingEvents, flushing, stopped | start, dispatch, stop, flush, promotion, demotion, recovery | lock, relay, plugin (`onOwnerEvent`, `onRoleChange`) |
| Relay (`relay-client.ts`, `relay-server.ts`, `protocol.ts`, `manager-dedupe.ts`) | connections, seen ids and semantic keys | send with timeout, receive, authenticate, acknowledge, deduplicate | managers of two processes |
| Webhook queue (`broadcast/queue.ts`, `webhook.ts`) | queue, attempts, isFlushing, flush indices, write chain, file | enqueue, flush, load, merge, persist, stop | webhooks, disk |
| WebSocket server (`broadcast/websocketServer.ts`) | server, clients, port index, retry timer, isRunning | start with port fallback, broadcast, retry, stop | clients, plugin |
| Event file logger (`logging/event-file-logger.ts`) | stream, size, write chain | start, log, truncate, stop | disk |
| Plugin lifecycle (`index.ts`, `runtime/runtime-events.ts`) | PluginState | activate, deactivate, role change, event pipeline, status ticker | everything |
| Hook bridge (`runtime/hook-bridge*.ts`) | task queue, coalescing maps, workers, cooldowns, telemetry flags | onEvent, enqueue, coalesce, drop, run, drain, stop | actions (HTTP, scripts) |
| Tool guard (`hook-bridge.ts`, `hook-bridge-tool-guard.ts`, `register-tool-hooks.ts`) | retry back-off, approval cache, rule cooldowns | evaluateBeforeToolCall | tool hooks, scripts |
| Tool call tracking (`hooks/tool-hooks.ts`, `register-tool-hooks.ts`) | active and pending calls | before, after | hooks |
| Session tracker (`hooks/session-tracker*.ts`, `runtime/provenance.ts`) | records and three indexes | observe, resolve, route, merge, end | hooks |
| Status and subagents (`hooks/status-reducer.ts`, `subagent-tracker.ts`) | maps by agent and child session | observe, evaluate transitions, end | hooks, ticker |
| Config, redaction, signing, scripts | none | pure functions, release tooling | |

What is hard, and what makes each component right:

- **Lock.** File system calls of different processes interleave; processes die between any
  two. Right means: one owner; the lock names it; its socket can be reached; a dead lock
  never blocks for good.
- **Manager.** Timers, socket callbacks and calls interleave with a flush that awaits.
  Right means: role, lock, server and timers agree; somebody always tries again; no event
  is lost silently; `stop` is final.
- **Relay.** Late or lost answers, retries to the next owner, connections that outlive a
  demotion. Right means: one processing per runtime and window, nothing lost, in order.
- **Webhook queue.** A flush holds indices across awaits while the queue changes; writes
  are chained; a stopped queue goes on while its successor starts. Right means: only what
  was delivered, given up or oldest leaves; the file follows the queue; it empties.
- **WebSocket server, event log, lifecycle.** Start during close, late listen errors, a log
  that is stopped while it opens, writes or truncates. Right means: served exactly while
  the runtime owns the transport; the file is in order and within its limit.
- **Hook bridge.** Bounded queue with coalescing and expiry, drain on stop. Right means:
  every trigger is run once, coalesced by its strategy, or dropped by the policy.
- **Tool guard.** Caches read before and written after an awaited script. Right means: a
  decision is reused as long as meant, a call passes only for a reason.
- **Trackers.** Sessions seen under changing ids; transitions computed at one time and
  told later. Right means: lookups agree, sessions stay apart, clients end up told what
  holds.

`PROJECT.json` lists every hazard at its line with the properties that cover it.

## 2. Modules

| Module | Models |
|---|---|
| `TransportLock` | `ownership.ts`, `lock.ts` and the calls of `manager.ts` into them, by several processes |
| `TransportManager` | one `TransportManager`; the other runtimes are one bit, `rival` |
| `RelayDelivery` | the way of an event through relay client, server, deduplication and `onOwnerEvent`, in several runtimes |
| `EventQueue` | the webhook queues a runtime makes one after the other, and their file |
| `EventFileLogger` | the event logs a runtime makes one after the other, and their file |
| `BroadcastServer` | extends it: `websocketServer.ts` and what `index.ts` does on activation, role changes and deactivation |
| `HookBridgeDispatch` | `HookBridge.onEvent`/`stop` and the dispatch engine |
| `ActionPool` | the abstract specification that `HookBridgeDispatch` implements |
| `ToolGuard` | both tool hooks around the evaluation of the guard, and the tables that pair them |
| `SessionTracker` | the session tracker as the hooks use it |
| `AgentActivity` | status reducer, subagent tracker, status timer and the events they tell |
| `TransportLock_proofs`, `TransportManager_proofs`, `RelayDelivery_proofs`, `BroadcastServer_proofs`, `HookBridgeDispatch_proofs`, `ToolGuard_proofs`, `SessionTracker_proofs`, `ActivityAndQueue_proofs` | theorems about the module each is named after (section 5); `BroadcastServer_proofs` also about `EventFileLogger`, `ActivityAndQueue_proofs` about `AgentActivity` and `EventQueue` |
| `MC...` | the instances the configurations check |

An operator marked *Mutant* in a comment is a faulty variant of the definition that
follows it. It belongs to no specification; putting it in the place of the correct one
makes the property `PROJECT.json` names fail, which shows the property is alive.

All modules take one JavaScript turn for a step: a call, a timer or socket callback, or
the code between two awaits. `TransportLock` takes one file system call for a step, since
other processes act between them. Variables marked *history* exist for the properties
only.

### TransportLock

`acquireTransportLock` runs in one turn, so a process is sequential, but other processes
act between its calls: `Create`, `Inspect`, `IsLockStale`, `StatLock`, `Unlink`,
`Recreate`, `Fill` are those calls; `BindClear` and `Listen` are `startOwnerServer`;
`BeatOpen` and `BeatWrite` are the two halves of `writeFileSync` (truncate, write). The
payload is reduced to what readers distinguish: a live process, a dead one (`Dead`), a
pid that was given out again (`Foreign`) or nothing readable. `fdLive` says whose open
descriptor still is the file at the path, since a write to an unlinked file changes
nothing. `evicted` remembers that a lock or socket another runtime was using was unlinked.

Simplifications: `listen` fails at once, while Node reports the error after the first
heartbeat; the two unlinks of the socket path in `handleOwnerFailure` are one step; a
read, a parse and the liveness test of a pid are one step; permission errors are not
distinguished from other failures.

### TransportManager

Failed relays, promotions, demotions, slow drains of closed servers, overflow and `stop`
are interleaved. `closing` counts servers that were closed and whose `close` event is
still to come; `drainsFast` says whether connections always end before the recovery timer
fires (a relay connection ends after the owner has processed its event, so a slow webhook
or script makes it false). `acquireLock` is exclusive against `rival`, which is what
`TransportLock` establishes up to its finding. The length of the recovery delays, which
only change *when* a timer fires, is left out.

### RelayDelivery

Several runtimes share the socket path; at most one owns it at a time (`TransportLock`'s
subject). `conns` are relay connections with how far the owner got with the envelope:
unread, being processed, answered `ok` or refused. `attempt` is the connection a relay loop
awaits; a connection whose sender gave up stays, and is processed later (`Timeout`,
`ProcessIncomingEnvelope`). `jobs` are calls of `onOwnerEvent` under way and who awaits
them: a connection, the loop itself, or the caller of `dispatch`. `seen` holds the expiry
of each remembered id and semantic key. A crash empties a runtime; a demotion leaves its
connections and its memory. Ids and semantic keys are remembered in separate maps
(`manager-dedupe.ts:4`), so an assumption keeps them apart. A runtime without the owners'
token and events too large for the relay fail on every attempt. Framing, the token
comparison and the socket are one outcome of an attempt; the manager's timers are in
`TransportManager`.

### EventQueue

`Instances` are the queues a runtime constructs one after the other: a demotion stops one,
the next promotion makes another, a crash ends all. They share the file. `waiting` holds
the unanswered deliveries of the current batch with the index and attempts they were
started with; `toRemove` is `indicesToRemove` in the order pushed; `chain` is
`persistChain` as the snapshots not written yet. Events are numbers in order of arrival.
The two loops, the splices that end a flush and the pushes of a merge, are recursive
functions over their rounds (`Removed`, `Merged`). `ReadFails` is the catch of
`loadPersistedQueue` (`queue.ts:271`): the queue starts empty and the file keeps what it
holds until it is overwritten. `client` is `axiosImport`, which keeps a rejected import for
the life of the process (`webhook.ts:8`): the first `FlushThrows` is a fault, every later
flush of the process throws as well, and `Crash` makes the import anew.
`clear` and `updateWebhooks` have no caller in the plugin and are left out, as are single
invalid entries of a file that is otherwise valid.

### BroadcastServer and EventFileLogger

`stopBroadcastServer` awaits the close of a server, which lasts as long as its clients
take, and forgets the singleton afterwards. `inst[i].closing` counts such waits,
`singleton` is the module-level variable, and `Closed` is the end of one wait with the
continuation that follows. Each instance has at most one server that is not closed, so
servers need no identity; `startupGeneration` only makes callbacks of closed servers and
older timers do nothing, and is abstracted. A server that does not listen yet has no
connection and closes in the same turn. `early` remembers a promotion that met a closing
server. The queue is only whether it exists. The host awaits `deactivate()` before it
activates again; connections and the sending of an event are left out.

`logs` are the event logs constructed so far, `current` and `readyOf` are
`state.eventFileLogger` and `state.eventFileLoggerReady`. An event awaits the start of the
log (`held`, of the logger it awaits) and then goes to whichever log there is (`PassOn`).
`chain` and `busy` are `writeChain` and what its first link waits for; `Stopped` is
`stop()`, which ends the stream when the chain is done but never waits for a start. The
file is a sequence of units, each a part of a line: `LineSize` gives every event a line of
its own length, which may exceed the limit. `enqueueWrite` then truncates and writes it all
the same (`event-file-logger.ts:157`), and the file is that one line. An appending stream
writes at the end, a truncating one where it stands. `overlapped` remembers that a log was made while an earlier
one had not finished. `mkdir` and `stat` are one await; opening a stream takes no time; a
write error, which Node reports on the stream and nobody handles, and runtime log lines,
which are enqueued as events are, are left out.

The server and the log share role changes and nothing else, so one variable, `service`,
configures a run of the plugin for one of them (`EVENT_PLUGIN_DISABLE_WS` and `eventLog`).

### HookBridgeDispatch and ActionPool

A trigger is one rule that takes one event. A task is numbered by its first trigger;
`carries` are the triggers coalesced in it, `event` the one whose event it will send. The
engine is one record (`queue`, `byId`, `byKey`, `running`, telemetry flags), and each
method of the engine is an operator from an engine to the next, as the methods call each
other within a turn. Actions end well, with an error, or never (`Hang`, a script whose
pipes stay open). `ActionPool` only says where triggers are: waiting, in an action,
finished or dropped, each in one place, moving forward, none dropped once its action runs,
none coming in after `stop()`. `ImplementsPool` maps the queue, the workers and the
histories to it. `PumpWorkers` moves the head of the queue to as many workers as are free
at once, since the loop of `pumpWorkers` starts them without an await. Rules may share an
id: `validate-hook-bridge.ts:154` only asks that there is one; rules of different
strategies then coalesce into each other's tasks, as two rules of the `dispatch` run do. `latest`
is the history of triggers that came under the strategy "latest". Which events a rule
matches is data (`Kinds`).

### ToolGuard

A call goes through `before_tool_call` (its broadcast, the walk through the rules with
its awaits, recording, the blocked event), then, if it is not blocked,
`after_tool_call`; other calls and the clock go on at every await. `guard` holds the three
tables of `hook-bridge.ts`; `known` is the history of decisions recorded when a call's
evaluation began, which is what the properties compare with. Rules are reduced to what
they do (allow, patch, block, ask an action, name a missing action) and which calls they
match. Rules may share an id (`validate-hook-bridge.ts:193` asks for one, not for a unique
one), and `lastTriggerByRule` is one table for guard rules and event rules
(`hook-bridge.ts:30`, `:71`, `:384`), so a rule's cooldown can be started by a namesake:
`EventRuleFires` is an event rule that does, and `CooledElsewhere` the door it opens. The
proof of `PassedForAReason` did not go through with a table by rule, which is how this was
found. `byId`, `byCtx` and `active` are the tables that pair the two hooks of a call.

### SessionTracker

A hook carries identifiers: a session id, the session's own key, or the alias
`agent:<id>:main` that all sessions of the agent share. The model knows which session a
hook is from, the tracker does not. `ObserveSession` is the match (strong identifiers
first, then the alias), the merge of what was found, and the rewriting of the indexes. The
session and agent hooks, `after_tool_call` and `tool_result_persist` call the tracker in one
turn. The others await something first: message hooks their broadcast, `before_tool_call`
the tool guard (`register-tool-hooks.ts:68`), the two subagent hooks their broadcasts.
`late` holds those handlers; other hooks, `session_end` among them, come in between, and
`revived` is the history of ended sessions that such a handler observed again. A tool hook
observes and then asks (`ObserveAndAsk`). It is told a route, which expires, and a session
key, which does not: `mergeParsedRoute` takes from that key (`ParsedSession`) what the
route lacks of provider, surface, account and thread. A session's own key names its thread,
only its channel, or nothing of a route (`KeyKind`). `after_tool_call` asks with the id and
key its call began with; the model takes the hook's own. Of a route the model keeps its key
and when it was last seen; the fields of a route may be older, since an observation that
lacks them keeps the earlier ones. `scattered` is the history of sessions whose
`session_end` could not have reached all there was to remove: their identifiers were in
several records, or the hook was not read for both the id and the key of the session
(`resolveSessionRefs` puts one for the other when it has only one). Labels, and timestamps
that decide nothing, are left out.

### AgentActivity

`run[n]` is what slot n is doing: a handler or a tick with the transitions it computed and
has still to tell. A step tells one, and computes what the code computes in the same turn.
Time is the age of each session, up to the longest window. Left out are a hook that names
an agent and no session, a session observed under two agents, and a broadcast that throws
and so loses the rest of its batch.

## 3. Runs

| Run | Instance | Question |
|---|---|---|
| `lock` | 3 processes, 1 fault, aging, pid reuse, fairness | one owner unless a live lock was unlinked; the lock names it, the socket leads to it; somebody recovers |
| `lock_two_owners` | 3 processes, no fault or aging | `OneOwner`: **violated** |
| `manager` | 3 modes, both drain speeds, queue of 2, 4 events, 3 faults, fairness | role, timers and queue agree; `stop` is final; events settle |
| `relay` | 2 runtimes (1 with the token), 3 kinds of event, queue of 1 or 2, 2 connections, 2 faults, fairness | repeats, losses and overtaking have their known reasons only; queues drain |
| `queue` | 1 queue of 3, batches of 2, 4 events, 2 faults (crash, failed read or write, no HTTP client), fairness | the splice removes what was answered; the queue empties unless there is no HTTP client |
| `queue_handover` | 2 queues sharing the file, 2 events, 1 fault | the file follows the queue once it was read or written |
| `broadcast` | 2 ports, 3 promotions, 2 deactivations, 2 ports moved, 1 error; a log limit of 2, 4 events of which one has a line of 3, 1 failed start; fairness | servers and log follow the role; an owner gets to serve; the file holds whole lines in order and within its limit; events get to the log |
| `dispatch` | 3 rules of which two share an id and not a strategy, 4 triggers, queue of 2, 1 worker, both drop policies, 1 hang, fairness | indexes agree, a coalesced task carries the event its strategies call for, alerts follow the window, `stop` drains, the engine implements `ActionPool` |
| `sessions` | 2 sessions (one with a thread's key, one with a channel's), 10 kinds of hook and 2 of subagents, 4 hooks, 2 handlers that await, 3 records | lookups agree, sessions, routes and keys stay apart but for the alias, ended ones are forgotten unless a late handler revives them |
| `sessions_alias` | the same | `AliasNeverCollapses`: **violated** |
| `guard` | 6 configurations, one with rules that share ids, with up to 3 calls | decisions are reused as long as meant, calls pass for a reason, both hooks of a call find each other |
| `activity` | 2 agents, 3 sessions, 3 hooks, 2 slots, fairness | clients are told what holds; idle means idle; all settles |

Properties named `...Unless...`, or with exceptions in their text, name every door by which
the unconditional statement fails: TLC shows that there is no other one.

### What the code does otherwise than it says

1. **Two owners** (`lock_two_owners`). Two contenders find the same dead lock. One unlinks
   it, creates its own and becomes owner; the other, already past its stale check, unlinks
   *that* one. `ownership.ts:99` does not check that what it removes is what it inspected.
2. **Two sessions in one record** (`sessions_alias`). A hook that names only the shared
   alias has it passed on as its session id (`provenance.ts:91`), and session ids match
   like strong identifiers.

Each of the following is a counterexample of an unconditional statement; the passing
property with its door is in parentheses.

- `stop()` releases the lock and unlinks the socket path afterwards (`manager.ts:133`),
  when the next owner may have bound to it (`OwnerReachableUnlessEvicted`).
- While the head of the relay queue is being relayed an overflow shifts it
  (`manager.ts:139`); the acknowledgement then shifts the next event, which was never sent
  (`NoSilentLossUnlessRaced`, `NothingLost`).
- The `close` event of a relay server of an earlier term demotes the current one
  (`manager.ts:328`); every such demotion closes another server, so one failure can keep a
  runtime demoting itself (`EventsSettle`, with `drainsFast`).
- Indices of answered deliveries are pushed in the order answers arrive and removed back
  to front (`queue.ts:158`), so an undelivered event can be spliced out and a delivered one
  sent again; a shift of the full queue during a flush does the same
  (`RemovalExactUnlessDisturbed`).
- A process that could not import its HTTP client never tries again (`webhook.ts:8`): every
  flush throws, and the webhook queue grows to its limit and stays (`QueueDrains`). A queue
  whose file could not be read starts empty, and its first write replaces what the file held
  (`queue.ts:271`, `SavedWhenQuiet`).
- A `stopBroadcastServer` that waited for clients forgets the singleton, whichever it is by
  then (`websocketServer.ts:459`): nothing stops that server any more. A runtime promoted
  again while its server is closing starts none, since `isRunning` is still true
  (`websocketServer.ts:82`) (`RoleFollowedUnlessEarly`, `OwnerServes`).
- A line larger than the limit of the event log is written after a truncation
  (`event-file-logger.ts:157`): the file then exceeds its limit by that line
  (`FileSoundUnlessOverlapped`).
- A log made while the previous one still writes, opens or truncates writes the same file:
  the limit, the order and the size the log believes in are lost
  (`event-file-logger.ts:120`, `FileSoundUnlessOverlapped`). Events that come while a log is
  truncated are not logged (line 71), and a start that fails late forgets the next log
  (`index.ts:216`) (`EventsLogged`).
- Ids are remembered before the event is processed (`manager-dedupe.ts:52`): when
  processing throws, the retry is acknowledged as a duplicate (`NothingLost`). A new owner
  processes what it dispatches before what waits in its own queue. And a connection to
  an owner that was demoted can deliver an event there after its successor has met another
  event of the same content and the sender has gone on: only what had not been said before
  keeps its order (`InOrderUnlessOvertaken`).
- Rules of the guard that share an id, or share it with a rule for events, start each
  other's cooldown, and a call passes that the rule was never asked about
  (`hook-bridge.ts:384`, `PassedForAReason`).
- A message hook, `before_tool_call` and `subagent_spawned` observe their session after an
  await (`internal-handlers.ts:45`, `register-tool-hooks.ts:83`,
  `register-subagent-hooks.ts:126`), also when `session_end` has removed it meanwhile; the
  new record stays until `clear()` (`EndedForgotten`). A tool event is told fields of a
  session key of any age where its route has none (`provenance.ts:256`): `routeTtlMs` bounds
  the route only (`RouteOwnAndFresh`).
- `session_end` takes a session out of the status reducer, and its own
  `emitAgentActivity` puts it back (`register-session-hooks.ts:93-114`). A transition that
  waited behind another agent's broadcast is told after a newer one, and a client that
  takes `agent.status` for the state (`docs/ui.md:25`) stays wrong (`ToldWhatHolds`).
  `subagent_spawned` registers the child after two broadcasts, so a child whose end came
  first is told idle (`IdleIsIdle`).

Seen while modelling, without a run: `config-types.ts:92` says of `dryRun` "guard decisions
are logged but never enforced", while a failed action with `onError = "block"` does block
(`hook-bridge.ts:245`, `:323`); a guard rule with `when.parentStatus` or `idleForMsGte`
never matches, as the guard's event carries neither (`hook-bridge-tool-guard.ts:184`);
`docs/security.md:93` promises fail-closed for action errors, and a handler that throws
lets the call pass; a lock whose pid was given to another process is never replaced,
whatever its age (`ownership.ts:90`, against `docs/transport.md:45`); an owner whose
*first* heartbeat fails never arms the heartbeat timer (`manager.ts:366`); a manager in
mode `auto` can be promoted by a relay that fails after `stop()` (`manager.ts:209`), which
the plugin avoids by resolving `auto` first; an event enqueued while the persisted file is
read can be written over that file or read back as a duplicate (`queue.ts:263`); after a
server error other than a port in use nothing starts the server again
(`websocketServer.ts:149`).

### Bounds

Three processes show the race of two contenders about the lock of a third, and any one
failure or crash in it. A relay queue of two with four events overflows with and without
an event in flight. Two runtimes with two connections show an owner that still answers an
old connection while its successor processes the retry; a window of one time unit ends
within the run. A webhook queue of three with batches of two has a second batch, answers
out of order and overflow during a flush; a third queue instance only repeats the second.
Three promotions let a WebSocket server close late, its successor start and be demoted; two
ports let the fallback succeed and be exhausted; a log with a limit of two is full after two
short lines, is truncated for the third, which is larger than the limit, and again for the
fourth, or is found full by its successor. Four triggers fill a
queue of two behind one worker, coalesce and overflow. Four hooks can link, merge, end and
revive a session next to another one; two handlers that await can overtake each other. Two overlapping evaluations can record in either
order, and a third call reuses what they recorded. Two slots let a tick and a hook, or two
hooks, tell transitions of the same agents across each other's broadcasts. Every bound is a
named constant (`MaxFaults`, `MaxEvents`, `MaxPending`, `MaxHooks`, ...).

Deadlock is checked for the lock. All other systems may stop: the host calls nothing more,
or a bound is reached.

### Fairness

Weak fairness only of what the event loop and the operating system do by themselves:
armed timers fire, pending reads, writes and requests are answered or time out,
connections drain, broadcasts end, time passes, and a free lock is taken by somebody.
Calls from outside, crashes, failures and hanging actions have none. `OwnerRecovers`
excepts a reused pid, `EventsSettle` needs servers that drain and `Drains` actions that end, `QueueDrains` an HTTP
client; a read of the queue's file ends well or fails, and a delivery is answered or throws
(`WF(ReadFile \/ ReadFails)`, `WF(Deliver \/ FlushThrows)`), since the code does not guarantee these properties otherwise.

## 4. Refinement

`HookBridgeDispatch` implements `ActionPool` (`ImplementsPool`, checked as a property of
`dispatch` and proved as `PoolImplemented`). The mapping takes the triggers of queued tasks
for `waiting`, of the workers' tasks for `active`, those of tasks whose action ended for
`finished`. It is what shows that coalescing, expiry, both drop policies and the refilling
of workers together lose no trigger and run none twice.

## 5. Proofs

Each proof module states its invariant as a conjunction of named parts, proves that `Init`
establishes it and every action keeps it, and reads the properties off it. The assumptions
are those on the constants, named in the component's module: the special values differ from
the others, limits are at least one, and the sets hold what the code can be configured
with. Every bound (`MaxEvents`, `MaxFaults`, `MaxHooks`, ...) is arbitrary, so the theorems
hold for behaviours of any length. Where a property has a door, its theorem has the same
one and no other.

**`TransportLock_proofs`**: `TypeOK`, `OneOwnerUnlessEvicted`, `LockNamesOwner`,
`OwnerReachableUnlessEvicted`, for any set of runtimes and any faults. That a second process
cannot create the lock needs to know the first one's file is still there. The invariant
`IInv` says that every runtime between its exclusive create and its release is the creator
of the file (`lock.by`), of which there is one, so two such runtimes are equal.

**`TransportManager_proofs`**: all safety properties of the run. `Control` joins
`RoleConsistent`, `TimersArmed` (`RecoveryArmed` and `FlushArmed`) and `StopIsFinal` with
what they need: a manager that was not started has done nothing (`Fresh`), and a stopping
one has already disarmed everything but the lock (`StopDisarms`). `Queue` joins
`QueueInOrder` and `NoSilentLossUnlessRaced` with `HeadInFlight`: what is being relayed is
the head of the queue unless the overflow has shifted it; without it an acknowledgement
could shift any event. `ManagerTypes` proves `TypeOK` with its two limits: a server that
drains was closed by a failure, so no more of them drain than there were failures, and the
relay queue stays within its capacity.

**`RelayDelivery_proofs`**: all four safety properties of the run, in layers that each use
those below.

- `TypeInv`: types, connections with numbers of their own, one relay loop per runtime.
- `QueueInv`: a queue holds its runtime's events in ascending order, and no connection of a
  runtime carries an event younger than one it still has queued.
- `CallInv`: a call of `onOwnerEvent` that serves a connection has that connection.
- `WindowInv`: whatever was processed within the window is remembered. `RepeatsExplained`
  needs it for repeats by content.
- `OnceInv`: an event none of whose answers was late, lost or refusing has at most one
  connection, awaited by its sender while the event is queued, and was not processed when
  it was refused or is unread. `RepeatsExplained` needs it for repeats of the same event.
- `KeptInv`: a remembered marker means that somebody is processing it or has settled it; an
  acknowledgement settles; and an event is queued, at home, settled, or gone by a door.
  `NothingLost` follows.
- `OrderInv`: what the markers, answers and connections tell of what has been processed
  before what. `InOrderUnlessOvertaken` follows.

An induction over the numbers of events yields the least event of a set (by
`WellFoundedInduction` on `Nat`, through its minimal elements).

The order property had to be restated for this. It used to compare the *first* processing
of two events of one runtime; the proof stopped at a connection that outlives a demotion,
and an instance with three events showed why: event 2 says what 1 said, and its first
connection is left behind at one owner; the next owner, which has met 1, acknowledges 2 as
a duplicate and processes 3; then the first owner reads 2 from the connection it still has.
The old
statement held on the instance of the run only because that instance was too small. The one
stated now says what is lost of it: 2 said nothing that was new when 3 was processed.

**`BroadcastServer_proofs`**: all safety properties of the run. `LogInv` needs only the
loggers and their file: unless loggers overlap, every logger but the last is idle, and the
last knows the size of the file and where its stream stands (`InStep`), its waiting events
are in order, and all come after those of the file. Lines have any length: a line is begun
only in an empty file or where it fits, so a file beyond the limit is a single line. `RoleInv` is about the servers: a retry
is pending only on an instance without a server (`RetryIdle`); every `stop()` that waits is
that of a promotion of its own (`StopsPaid`, which bounds them); and, unless a promotion was
early, nothing but the singleton is active, nothing at all outside ownership, and whoever
waits for clients is not owner (`RoleFollowed`).

**`HookBridgeDispatch_proofs`**: all safety properties of the run and the refinement.
`EngineInv` says of an engine that each trigger is in one place (`Placed`), that the indexes
are those of the queued tasks (`Indexed`), and that no two tasks of the queue are the same.
Every method keeps it; `onEvent` enqueues for one rule after the other, so the step is an
induction over an interval of rules (its least element that fails is never reached). Between
two steps no task waits while a worker is free (`Staffed`). `EventSound` holds of any
rules, also those of different strategies that share an id: what a task carries is its
newest trigger that came under "latest", or its oldest when none did, since a trigger under
another strategy leaves the task's event as it is and task ids grow. The step of
`PoolImplemented` maps every action to a step of the pool or a stutter. `AlertInv` says that
the outcomes the engine keeps are the end of the history of all outcomes, from the first one
that is young enough on: outcomes are recorded in the order of the clock (`Timed`), so the
shifts of `recordOutcome` take exactly what is too old. `AlertSound` counts the failures of
both over a bijection.

**`SessionTracker_proofs`**: all safety properties of the run. `TrackerInv` says that the
indexes are functions of the records (`IndexOf`), so that a lemma about an index after a
removal, a merge or an addition serves all three of them; that two records share at most
the alias (`Apart`); and that routes belong to the runs of their record. It holds of the
tracker after each of the calls a hook makes, so a hook whose handler awaits first
(`LateKeeps`) is the same call on a later tracker. The session key a tool hook is answered
with is one it gave or one of its record, hence its own (`ParsedOwn`, `AskStep`). `SessionInv` adds whose the records are
(`Separate`) and that ended sessions are in none. The proof of `EndedForgotten` found a case
the property had missed: a `session_end` that is read for the session's key but not its id
leaves a record with the id alone (`scattered`). A handler that goes on for an ended session
makes it `revived`; for any other session it names nothing of an ended one.

**`ToolGuard_proofs`**: all three properties of the run. `WalkInv` says which rules an
evaluation has dealt with (`Verdict`) and that a cooldown that runs was started by somebody
(`Charged`); `PairInv` that the tables name calls by the identifiers they have, and that a
call with an id of its own is found by it until its second hook; `MemoryInv` relates what
the guard remembers to the decisions recorded: a recorded block is over, gave way to an
older one, or is remembered (`HoldsBack`), a cached approval is one no later evaluation has
blocked (`Approvals`), and an evaluation that awaits its action had no approval to borrow
(`Waiting`). The last is what makes an old time written late harmless.

**`ActivityAndQueue_proofs`**: both safety properties of `AgentActivity`. `ToldInv` says
that the transitions that wait for an agent name its status, or the agent was overtaken, and
that its status was told or waits; `IdleInv` says which children a batch may tell of late.

And all three of `EventQueue`, from `QueueInv` and `ClientInv` (a process that
has not loaded its HTTP client has marked nothing to remove). `QueueInv` says of each instance:

- every list (the queue, what was read, each snapshot, the file) has distinct events and at
  most `maxSize` items (`Bounded`);
- a flush that nothing disturbed knows the places of the items it waits for and of those it
  has marked, and has marked them in ascending order (`Aligned`); everything that came and
  was neither delivered nor given up is in the queue (`NoneLost`); what was delivered and is
  still in the queue is marked (`SentMarked`);
- a queue whose file is still being loaded has done nothing, unless an event came early
  (`Untouched`), and the last snapshot, in the chain or on disk, has the events of the queue
  (`Snapped`), unless the read or the last write failed.

`OneByOne`, that an instance is made only when its predecessors are stopped or dead, shows
that only a predecessor can write the file of the one in use. `Aligned` is what the end of a
flush needs: `RemovedExact` proves that splicing ascending indices out from the last to the
first takes out exactly the items at those indices, whatever the list. It and its
counterpart for the merge (`MergedSound`) go by induction over the rounds of the loop: the
set of rounds after which the claim holds contains 0 and with each round the next, and a
least round outside it (by `WellFoundedInduction` on `Nat`) cannot exist. `SavedWhenQuiet`
was strengthened on the way: it used to speak of idle queues only, but needs no such
condition, since a flush changes the queue and appends a snapshot in the same turn.

Only model-checked: liveness (`OwnerRecovers`, `EventsSettle`, both `QueueDrains`,
`OwnerServes`, `EventsLogged`, `Drains`, `ActivitySettles`). Temporal properties under
fairness are beyond the prover.

## 6. State of the project

All components of section 1 that have a state are modelled, and every safety property of
the passing runs is a theorem. None of the modules has a RECURSIVE operator. The order in
which the modules were built is that of section 2: lock, manager and relay first, then the
owner's outputs, then the hook bridge and the trackers.

## 7. Not modelled

Payload contents and their construction (`hooks/*-hooks.ts`, `event-factory.ts`),
redaction, signing, configuration schemas, merging and validation, the Python notifier and
the release scripts: pure functions or tooling without a state that steps can interleave
on. Connections, authorization and the sending of an event by the WebSocket server: one
loop over a set within a turn. Overlapping calls of `activate` and `deactivate`
(`index.ts:387`): nothing in the code makes the host wait, nor says what such a call should
do. Framing and token comparison of the relay, the matching of hook bridge conditions and
of tool guard matchers are data, each reduced to its outcomes. The agent run tracker keeps
what the earlier hooks of a run said for the payload of a later one.
