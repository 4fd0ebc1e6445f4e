# A verification development of larkway

Larkway is a bridge between Lark (Feishu) group chats and command-line coding
agents (claude, codex, pi). One Node.js process holds a WebSocket per bot,
queues the messages of every thread, runs an agent process for each turn, shows
its progress on a card, and survives restarts, lost messages and dead children.
The code that decides all this is asynchronous and full of awaits, timers and
child processes; this directory models it in TLA+, checks the models with TLC
and proves what matters most with TLAPS.

`PROJECT.json` lists every component with its status, every hazard with its
line, the run and the mutant of every property, and the lines each definition
stands for. Paths below are relative to `src/src/`.

## 1. Inventory

| component | state it keeps | operations | hard behaviour | what makes it correct |
|---|---|---|---|---|
| **channel client** `lark/channelClient.ts` | seen ids (persisted), in-flight ids, attempts per message, unresolved gap windows, blind interval, chat access strikes | live message, reconnect, gap fill, replay timer, synthetic ingest, markHandled / markUnhandled | live event against gap fill against replay; failure and retry; a crash before the seen set is saved | every message is dispatched at least once or given up after its attempts; never two dispatches at a time |
| **bridge handler** `bridge/handler.ts` | per-key queues, slots, active runs, pending list with its state file, stop epochs, cold fences | handle, route, steer, cancel, run loop, settlement, replay at boot | a second message during a run; stop racing routing and completion; a step of settlement failing; a crash anywhere | one turn per session; nothing lost or run twice; a stop holds |
| **turn surfaces** `bridge/reconcile.ts`, `cardFile.ts`, `cardkitFile.ts`, `cotFile.ts`, `cardkitProgress.ts`, `cotProgress.ts` | three ledgers of half-done cards per session directory | create, update, finalize, fall back to a post, boot scan | a crash between two requests, a late salvage call, a failed ledger write | no card stays "working", no old answer is shown again |
| **session store, housekeeping** `claude/sessionStore.ts`, `housekeeping/*` | sessions.json with tombstones, session directories | get, put at turn start and end, revive, harvest, gc cycle | gc against a turn being set up; a put from an old read | nothing in use is deleted; a spent session is not resumed |
| **claude pool, cold runner** `claude/pool.ts`, `claude/runner.ts` | children, turns, chains, standby, dying set, pid list | run, kill, timeouts, stream lines, exits, sweep, shutdown | stop racing exit, key drift with background work, LRU at the cap, hard kill of the bridge | one writer per session; a turn settles once; nothing at work is evicted; nothing is executed twice |
| **codex pool** `codex/pool.ts`, `codex/runner.ts`, `codex/steering.ts` | one multiplexed child, turns, thread owners, gates of stopped turns, cold writers | JSON-RPC requests and notifications, steering, respawn, fallback | a stop before the turn's id is known; late lines of a stopped turn; the shared child's death | one writer per native thread; a turn's output is its own; the runner contract |
| **pi pool** `pi/pool.ts`, `pi/runner.ts` | one child per thread and options, the turns that wait for an exit, one-shot writers | RPC requests and records, stop and its escalation, eviction, sweep, shutdown | a stop racing the exit, a death after the prompt was consumed or not, extensions that start runs or move the session | one process per session file; a turn's output is its own; the runner contract |
| **scheduler** `schedule/*`, `cli/commands/wake.ts` | applied schedule, per-entry state file, wake files | tick, fire, reload, wake | a crash between a fire and its record; a wake file half written; misfires | an occurrence fires once, or is skipped with a reason |
| **task handles** `tasklist/*` | claim per thread, wake-up state per claim | claim, poll, nudge, confirm, escalate, write back | a nudge that is lost, late or answered by something else; restarts | a stalled claim is noticed and finally escalated, but not pestered |
| **service control, web** `cli/bridgeControl.ts`, `web/*` | pid and lock files, restart machine | start, stop, update, restart | two controllers | one bridge at a time |

How they meet: the channel client calls the handler for each message and is told
markHandled or markUnhandled; the handler runs a turn through a runner or pool
(`AgentRunner.run`, a handle with `events`, `done`, `kill`), writes cards
through a card client, and reads and writes the session store; the scheduler and
the stall detector inject synthetic messages through the channel client;
reconcile and housekeeping work on files the handler leaves behind.

The models meet where these components do. `AgentTurns` is the promise all three
pools are shown to keep and the bridge builds on, with one exception that it
names: a stopped codex one-shot may still reject (`LateRefusals`, see the
Findings), which `RunEnds` of the bridge reckons with. `SerialThreads` of
`ClaudePool`, "one turn of a topic at a time" of `CodexPool` and `PiPool`, is
what `SessionExclusive` of `BridgeHandler` establishes, except in the case
`bridge_quote` exhibits; `pool_progress` drops the assumption because the claude
pool defends itself (what that costs is `MakingRoomSparesWork`, below). `Inbox`
is the promise of the channel client that `BridgeHandler` takes its events from
(delivered again until marked).

## 2. Modules

| module | models | kind |
|---|---|---|
| `AgentTurns` | the promise of a `RunHandle` (`agent/runner.ts`) | abstract specification |
| `ClaudePool` | `claude/pool.ts` with `claude/runner.ts` as its fallback | detailed specification |
| `ClaudePool_proofs` | types, the contract, one writer, one turn per wire, the pid list, eviction | TLAPS |
| `CodexPool` | `codex/pool.ts`, the one-shot of `codex/runner.ts`, `codex/steering.ts` | detailed specification |
| `CodexPool_proofs` | one writer, own output, the contract | TLAPS |
| `PiPool` | `pi/pool.ts` with the one-shot of `pi/runner.ts` | detailed specification |
| `PiPool_proofs` | one writer, own turns, the contract | TLAPS |
| `Inbox` | what the inbound side promises about a message (`lark/transport.ts`) | abstract specification |
| `ChannelClient` | `lark/channelClient.ts`: events, outages and history pulls | detailed specification |
| `ChannelClient_proofs` | the client implements `Inbox`; what is owed is tracked, what an outage hid is asked for | TLAPS |
| `BridgeHandler` | `bridge/handler.ts`: routing, queues, slots, steering, stop, crash and replay | detailed specification |
| `BridgeHandler_proofs` | its five safety properties | TLAPS |
| `TurnSurfaces` | what a turn shows: card, bubble, post, their ledgers, and the boot scan of `bridge/reconcile.ts` | detailed specification |
| `CardStream` | `bridge/cardkitProgress.ts`: the stream of one card, from its first text to its final card | detailed specification |
| `TurnSurfaces_proofs` | which answers and ledgers can be left over, who is told; the card's newest and final text; what the stall patrol tells and when | TLAPS |
| `Sessions` | the session record and directory of a topic against turns, gc and boot | detailed specification |
| `Sessions_proofs` | `TypeOK`, `SpentNotResumed`, `ConversationKept`, `GcSparesTurns` | TLAPS |
| `StallPatrol` | `tasklist/stallDetector.ts` with the handler's and store's part of a claim | detailed specification |
| `Scheduler` | `schedule/scheduler.ts` with the yaml, `larkway wake` and the local dispatch | detailed specification |
| `Cron` | `schedule/cron.ts`: parsing and the search for the next match | algorithm |
| `Scheduler_proofs` | `TypeOK`, `CronFiresOnce` and `FiresAfterApplied`; the search of `Cron` for every calendar | TLAPS |
| `MC_*` | small instances | TLC |

An operator under a comment "mutant" is a plausible bug of the definition below
it; no specification uses it. A property is worth its run only if the mutant
named for it in `PROJECT.json` breaks it.

### The claude pool

State. `turn` is the `TurnState` of each turn with its phase (not started,
waiting for an interrupted child, queued on a chain, running on the wire, cold,
settled); `proc` a `PoolEntry` or a cold child with its OS state (`up`, `term`
after a signal, `free`); `entries`, `dying`, `interruptedExits`, `current`,
`chain` are the maps and fields of that name; `prewarm` is the standby prototype
with its failure count, timer and breaker; `disk` is the pid list and its write
chain. Two fields remember what the code does not: `cut` of a child (torn down
by a stop while its turn waited for background work) and `lost` of the list (its
last write failed).

Actions. One action per entry point: `Run`, `Interrupt`, the stream lines
(`ContentLine`, `TasksChanged`, `WakeupScheduled`, and the four ways a `result`
line is taken), the exits, the timers (`SettleBackstop`, `Escalate`, `Finalize`,
`KeepaliveExpires`, `RespawnTimer`, `IdleSweep`), `Prewarm`, the two halves of
`shutdown`, and the microtasks the code defers to promises (`ResumeWaiter`,
`RunLink`, `PopLink`, `Replenish`, the pid list writes, which may fail). A link
whose child is destroyed ends at once and lets the next one run. Node runs
microtasks before the next macrotask, so the other actions wait for `MicroDue`
to be false; `Run` and `Interrupt` may be called from a microtask themselves and
need not wait.

Environment. The CLI may send any line at any time, exit whenever it likes,
ignore an interrupt and outlive SIGTERM; pids are reused. `SerialThreads` says
the bridge runs one turn of a thread at a time.

Left out: a `stdin.write` that throws synchronously, a child that cannot be
spawned, CLIs without message ids, the session-id clause of
`#hasUnexitedColdWriter`, texts, usage and stderr, the per-entry `runner.pid`
file. Queued pid list writes are merged: the snapshot is taken when a write
begins.

### The codex pool

State. `turn` is `#turns`: the phase of a turn is the answer it waits for
(`ready`: initialize; `thread`: thread/start or resume; `turn`: on the wire;
`gate`: behind a stopped turn; `cold`: a one-shot), with what it resumes,
whether its thread id is `known`, and the native turn `id`. A native thread is
named by the turn that created it. `owner` is `#threadOwners`, `gate`
`#cancelledThreads`, `cold` the one-shots whose process runs, `native` the
app-server's own view of each turn: asked for, running, ended, and which lines
of it the pool has read. `strays` records turns that were given another turn's
output; the code has no such thing.

Actions. One per host event: a call of the bridge (`Run`, `Kill`, `Prewarm`,
`BeginShutdown`, `EndShutdown`), an answer by request id, a notification by
thread, a timer, an exit. What the promises settled by it go on with belongs to
the action: `Release` lets every turn behind a gate go on, `Exit` fails or falls
back every warm turn at once (`FallBack`). `ColdRefused` is the error answer of
a one-shot, which rejects its turn even when it was stopped.

Assumed. The lines of a child that exits are read before its successor answers
(`#handleNotification` does not check which child a line is from; a line read
after the exit is not modelled), those of a child that was sent SIGTERM are not
read; a turn whose turn/completed is unread at the exit is rejected. Input
steered into a one-shot follows the same rules.

Left out: an 'error' event of a live child (as in `pool.test.ts:870`; with it an
uncancelled turn is rejected while it runs on), overlapping turns of one topic
(`#threadOwners` holds one, the first would hang), `loadedThreadIds`, the retry
without `excludeTurns`, the pid file, a signal aborted before `run`.

### The channel client

State. `inFlight`, `seen`, `attempts`, `windows`, `strikes` and `tracked` are
the sets and maps of `ChannelClient`, `health` its liveness fields, `disc` the
counters of the discovery cycle. `pull` holds the local variables of each
running `gapFill()`: the chats it still has to ask, its `--start` and `--end`,
and the answer it waits for. `sent`, `link`, `awake` and `wire` are the world:
when each message was posted, the connection, whether the host sleeps, and the
events on their way (the live copy, and the local hand-off of a sibling bot).
`runs` counts the dispatches of a message, `owed` holds the messages released
for a replay, `blindFrom` and `unnoticed` say since when the connection is blind
and whether the sampler has taken it for healthy; the code has none of these
four.

Actions. `Arrive` is the handler of a live event and `ingestLocalEvent`, which
do the same; `MarkHandled` and `MarkUnhandled` are the bridge's verdicts;
`Reconnecting`, `Reconnected`, `Sample`, `Replay`, `Discover`, `DiscoverLists`
and `DiscoverFails` the connection's events and the timers. A pull is `AskChat`
(the history is read), then `TakeChat` (its messages are dispatched, its window
resolved or recorded), `ChatFails` or `ChatGone`, and `EndPull`; anything may
happen between. The pages of one chat are read at one instant, and the chats of
a pull in any order. One tick of the clock is a sampling period; a window
recorded a second before a message starts at the message.

Assumed of the outside. History shows every message of its window. A live event
arrives before the next sample. The type of a direct chat is known.

Left out: restarts and the saved seen set, synthetic events and card actions
(which carry ids of their own), reactions, replies, parsing, `close()`.

### The pi pool

State. `turn` is a `TurnState`: waiting for an exit (`wait`, `coldWait`), queued
on a child, in its preflight, prompted, accepted, refused as busy, or `cold`;
`awaits` are the exits it waits for. `proc` is a `PoolEntry` or a one-shot: its
OS state, what `PoolEntry` says of its session and what pi has open, the turn it
runs for larkway (`current`) and the run pi is in (`run`, `Foreign` when an
extension started it). A session is named by the child that created it, `-p` is
the one an extension moved it to. `astray` records turns whose prompt or output
went to the wrong place; the code has no such thing.

Actions. One per host event or promise continuation: calls of the bridge, RPC
answers and records, the abort and final timers, exits, sweep and shutdown. A
turn's preflight (get_state and the set_* commands) is one step. `MicroDue`
makes the continuations `Resume` and `StartTurn` run before any other event;
`Run` and `Kill` may be called from a microtask. Which idle child is evicted is
left open, so the LRU order is not relied on.

Assumed. One turn of a topic at a time: the bridge starts a topic's next turn
when the last one has settled. With two unsettled turns of one topic, which
`pool.test.ts:1137` sets up by hand, the deferred start of `#fallbackToCold`
looks for cold writers only, and one session could have two. An extension does
not move a session between the answer of get_state and the prompt. A run that
starts while a consumed prompt is probed is the turn's own.

Left out: Windows, dialogs, model and thinking level, the pid file, turns
without a topic, spawn failures.

### The scheduler

State. `file` is `schedule-state.json` (next fire time per entry), `dir` the
wake files with their content half or fully written, `cli` how far the wake
command of another process is, `applied` the schedule the running scheduler uses
and `yaml` what the operator saved last. `tick` is the position of `#tick` with
its local variables: the time it read, its copy of the state, its dirty flag,
the entries and files it still has to visit. `inflight` and `saved` are the
channel client's view of dispatched wakes, which decides whether a repeated
mirror post is taken. `attempts` counts the calls of `fire()` per cron
occurrence; `lost` counts crashes inside a tick and failed writes and unlinks,
and bounds them.

Actions. One per await-delimited step: `MaybeReloadConfig`, `NoCron` or
`BeginCron`, per entry `SeedEntry`, `PassEntry` or `FireEntry` and `EntryFired`,
`EndCron`, `WriteState` or `WriteFails`, `BeginShots`, per file `ReadTorn`,
`SkipShot`, `DropShot` or `FireShot`, `ShotFired`, `Unlink` or `UnlinkFails`,
`EndShots`. `Boot` and `Down` are the process, `Elapse` the clock, `EditYaml`
the operator, `WakeOpens` / `WakeCloses` / `WakeCancelled` the wake command and
its owner, `TurnHandled` / `TurnUnhandled` the bot's handler.

Assumed of the outside. Feishu returns the same message for a repeated
idempotency key. A cron entry advances whatever `fire()` returns, so its turn is
not followed beyond the call. An edited expression is another entry; edited
prompts are left out.

`Cron` takes the calendar as a parameter (the local-time fields of every minute,
the ends of hours and months) and assumes only that an hour and a month are
contiguous, which fails at a daylight-saving shift. `MC_Scheduler` checks it
beside the scheduler, from every start of a small calendar.

Left out: chat ids of single entries and wakes, entries that are disabled or do
not parse, wakes that parse but lack a field, a missing wake directory, listing
wakes, daylight saving.

### The bridge handler

State. `routes` is the routing chain of each queue key, whose head is between
two awaits of the delivery; `pending` and `links` are `pendingByKey` and the
drain links of `threadQueues`; `slot`, `running` and `waiters` the semaphore;
`turn` is `handleOne` of a queue key, `active` the session it has registered for
live input, `stops` the kill hooks, `lingering` the one-shots that have answered
and not exited: those of this process are the cold fence, those a crash left
behind (`<<session, None>>`) are in nobody's memory. `journal` is the input
delivery store on disk, `client` the channel client's view of a message. `fed`
and `cancelled` remember what live input may have reached a native turn and what
a /stop found waiting.

Actions. One per synchronous section between two awaits, in the order of the
code: `Receive`; `CheckRoute`, `LookUpDelivery`, `PutSending`, `Prepare`,
`Steer`, `Acknowledge`, `Enqueue` for the routing; `Acquire`, `Drain`, `Probe`,
`SetUp`, `Spawn` or `RefuseTurn` (the fence answers; the turn is settled a few
awaits later), `RunEnds`, `TryAgain`, `Finalize`, `FailTurn`, `CloseTurn` for
the turn; `Stop`, `ChildExits`, `HoldRoute`, `Crash`, and the steps that fail
(`AcknowledgeFails`, `SetUpFails`, `FinalizeFails`). What a turn shows and
stores is in `TurnSurfaces` and `Sessions`.

Notes. A /stop sent inside a topic bumps the stop epoch of the raw key only.
After a crash, an event a /stop overtook while it was being routed may come
back; `StopHolds` speaks of what the stop found queued. `markHandled` is taken
as durable at once. A one-shot that outlives a crash of the bridge is not
fenced, and `SessionExclusive` does not count it. `done` of a stopped turn is
rejected only for one-shots (`Cold`).

Left out: the soft `close()`, equality of chat ids, the second clause of the
cold fence, `LARKWAY_LIVE_INPUT=off`, the parsing of commands, attachments,
peers, prompts, task cards.

### The turn surfaces

State. `at` is where the process stands (a step of the turn, of the boot, or
down), `lane` the surface step the turn has still to do, `h` the handles
`handleOne` holds, `kitRec` the `cardKitRecord` of every turn's closure,
`bubble` how far each reasoning bubble is; `cardFile`, `kitFile`, `cotFile` and
`state` are the files, `child` the turns whose agent is alive, `shown` what the
platform shows, `told` the turns answered by a post or a recovered card.
`strays` are the turns whose agent has outlived a crash into a later turn;
`budget` bounds turns, crashes, faults and bubbles.

Actions. One per platform call or file operation, each of which may fail; a
crash may come between any two. A late surface is `LateStart`, `LateRecord`,
`AgainFinal`, `AgainMark`, `AgainPost`, `SaidMark`, `LatePost`; the failure path
`FailKit` (whose failed finalize starts a salvage too), `FailStart`, `FailCard`,
`FailPost`; where the code goes on to a ledger write or a delete, that is a step
of its own. A delete that fails is only logged, and its file stays. The boot
passes over the three ledgers in the order of `reconcileOrphanedCards`, with its
retry counts and CardKit cap (`BootBump`, `CapCard`, `CapPost`, `CapMark`). An
agent writes state.json under its own turn's name as long as it lives
(`WriteState`, `ChildDies`), also after a crash of the bridge and beside a later
turn. Whether a directory is old enough for the scan is a free choice.

Assumed. The write of cot.json settles within COT_LEDGER_WRITE_GRACE.

Left out: CardKit sequence numbers (the failure branch at `reconcile.ts:494`
writes back the old one), the post ledger, malformed ledgers, throttling.

### The stream of a card

State. `asked` are the buffers of `LiveCardKitProgressHandle`, `known` what its
`lastCommitted` fields take the card to show, `queued`, `timers`, `made`,
`eager` and `closed` its flags, `chain` the nodes of `inFlight` that have not
started and `node` the call the first one waits for. `fin` is how far a
`finalize()` is: the turn's, and the one with which the handler's failure path
tries again. `card` and `rebuilt` are what the platform shows. `missed` names
the channels whose newest text was lost with its call or overtaken; the code has
no such thing. A text is a number, the reasoning panel is as long as its number.

Actions. Events of the agent (`Say`, `ToolUse`, `Think`, `IdleMark`), timers
(`Fire`), and the chain: `StartNode` up to its first call, `NodeSucceeds`, which
may go on to a second, `NodeFails`, `SkipNode`. `Finalize` closes the handle,
`Rebuild` starts once the chain has ended, `RebuildSucceeds` or `RebuildFails`;
then `Salvage` and `SettingsEnd`, and `BudgetEnds` when `finalize()` returns
before them. A call may fail before or after it landed.

Assumed. A rebuilt card has no footer and so refuses a new element or a status;
it takes a new text for an element it has. The panel's inner element is placed
as the answer's.

Left out: sequence numbers, the backoff of the patch interval, `drain()`,
rendering. The handle is not composed with the turn: `TurnSurfaces` keeps what a
turn asks of it and its one late commit.

### The sessions

State. `mem` and `disk` are the record in the store's map and in its file,
`writes` the snapshots not yet written, `dirty` a debounced touch; `queue` and
`turn` the turns received and in progress, with the record each read at its
start; `pid` and `dir` the session's runner.pid and directory; `gc` the cleanup
in progress with what it looked up; `ghosts` the native sessions the backend has
lost; `truth` what settled turns did, whatever the store remembers.

Actions. A turn is `Receive`, `Begin` (resume or reseed), `SetUp`, `Spawn`,
`WritePid`, `GhostRetry`, `RunFails`, `Finish` or `FinishBare`. A turn that
takes the history over `sessionReseedChars` counts for `TurnLimit` turns
(`Sizes`), which is all that size decides at the next one (`handler.ts:2305`);
the store `FlushTouch` and `Write`; the cleaner `Scan`, `Gate`, `CleanupFails`,
`Remove`, `Stamp`; the world `Tick`, `Restart` and `LoseNative`.

Assumed. From its receipt to its end a turn takes less than half the cleanup
horizon (`MaxSpan`).

Left out: the atomic rename of the file and the merge of overlapping saves, what
the harvest extracts, log rotation.

### The stall patrol

State. `last` and `recv` are `lastActiveTs` and `threadReceivedAt`, `rec` the
claim with its wake-up state, `wire` and `inbox` wake-ups on their way and
events received, `turn` the thread's turn, `peer` the other bot of a handoff,
`due` what the tasklist poller knows of the due date, `patrol` the detector's
await with its locals. `mark` remembers what the wake-ups achieved.

Actions. `Look` and `Act` are the two halves of a pass of the detector around
its awaits (threshold, confirmation, giving up; then the nudge, the escalation
or what the task read found); `StandDown` is a pass that stops (the hourly fuse,
a failed read). `Begin` and `Finish` are turns; the write-back of an outcome is
`WriteLocally`, `LookUp` (the read of the task), `KeepOutcome` and
`CallPlatform` (the comment and the change of the task, either of which may
fail). `Ask`, `WakeArrives`, `PeerReceives`, `PeerEnds`, `HumanMoves`,
`LearnDue` the world, `Restart` and `Elapse` the process and the clock.

Assumed. An automatic claim is atomic with its lookup; the store is durable at
once; two stamps of one thread never share an instant; a wake-up counts from the
moment the detector decided on it.

Left out: the comment and tasklist pollers, automatic binding, alerts, the team
registry, mode upgrades, description texts, direct chats, the touch debounce.

### Runs

| run | instance | question |
|---|---|---|
| `pool_contention` | 2 threads, 2 turns, 2 option signatures, 1 slot, 3 children; either one kind of background work, or a standby with its breaker at 2 failures | `OneWriter`, `EvictionSparesWork` |
| `pool_progress` | 1 thread, 2 turns that may overlap, 3 children, pid list, shutdown, fairness | `WireExclusive`, `PidListExact`, `KeepsContract`, `NothingHangs` |
| `pool_stop` | violation, see Findings | `StopEndsWriting` |
| `codex_turns` | 3 turns of a topic; 2 with steering; 2 in 2 topics with a shutdown; 2 children, failure limit 2, fairness | `OneWriter`, `OutputIsOwn`, `RejectedStayedOut`, `KeepsContract`, `GateOpens` |
| `pi_turns` | 3 turns of one or two topics; 2 with 2 option sets and extensions; 2 in 2 topics with a shutdown; 1 slot, 4 children | `OneWriter`, `TurnsAreTheirOwn`, `KeepsContract` |
| `sched_tick` | 2 entries that come and go, both of them too, or 2 wakes; 1 lost record, fairness; 216 expressions from every start in 15 days of 6 minutes | `FindsNext`, `CronFiresOnce`, `FiresAfterApplied`, `WakeAnswered` |
| `channel_inbox` | a message with outages, two with a failing request or in competing chats, two outages with sleeps; chat list and open mode; fairness | `OwedIsTracked`, `KeepsInbox`, `OutageIsCovered`, `OwedIsRetried` |
| `bridge_dispatch` | three casts of 3 events: messages of a sticky direct chat, a button, a quote reply and a /stop in the topic of a task card, one of another topic; 2 slots, 1 replay, crash and fault, a steerable one-shot runner, fairness | `NoneStranded`, `SlotsAccounted`, `SessionExclusive`, `InputOnce`, `StopHolds`, `EventuallySettled` |
| `bridge_quote` | violation, see Findings | `SessionExclusive` |
| `surface_ledgers` | 2 turns with 2 crashes and 3 faults; 1 turn with 1 crash and 4 faults; 2 turns with bubbles, 1 crash and 1 fault; or the stream of one card: 2 answers and a progress text, 2 panel lengths, a status, 1 failing call | `LedgerKept`, `NoStaleLedger`, `UserTold`, `NoOldAnswer`, `QuietIsCurrent`, `FinalStays` |
| `session_record` | a topic's turns against store, cleaner and lost sessions: 2 turns with a restart and a fault, 3 with either, or 4 without | `SpentNotResumed`, `ConversationKept`, `GcSparesTurns` |
| `patrol_watch` | 2 messages of users with a crash; a due date; a peer; a second claim with a human; up to 8 instants, fairness | `EscalatesAfterAnswered`, `DueSpaced`, `StalledIsNoticed` |

Where one instance of everything is too large, a behaviour chooses its budgets
or its cast at the start (`Budgets`, `BudgetSpec`, `CastSpec`), and the run
checks all the choices. `pool_contention` gets there with a constraint
(`OneConcern`): a standby only with one thread at a time.

Bounds. Pools: two turns of one thread are the least that race; the theorems
take any number. Two threads on one slot force eviction in every placement.
Children are bounded by `Pids`: a retired child that has not exited coexists
with its successor and a fallback; a placement that would need one more waits
until one has exited. The claude breaker limit is 2 instead of 3; the behaviour
differs only at the limit. Codex needs two children, one and its respawn.
Scheduler: entry 0 matches every instant and entry 1 every other one, so that
one tick may have both due, or one due behind a slow one; a grace of one lets an
occurrence be early, due, late and past its grace. The lost record is a crash
inside a tick, a failed write or a failed unlink. The small calendar has months
of two and three days and a look-ahead of 36 of 90 minutes, so that some
expressions are given up. Channel client: two messages in two chats with room
for one window make the chats compete; a failure with two attempts lets a
message be given up; six instants let the host sleep twice with a timely sample
between, which is what could move the anchor of the first sleep. A behaviour
with two outages and no message is kept only where it differs, for the bot with
a chat list (`OutagesListed`). Bridge: the cast `{b, d, x}` has two messages
that may share a session and share a queue key, while two slots are free; `{a,
b, y}` has three queue keys for the two slots, so that one waits, in a process
that does not crash; `{a, c, x}` gives a running turn, one that is steered or
queued behind it, and a /stop. Surfaces: two turns let the ledger of one be met
by the next, and a salvage call return late; a retry cap of one reaches the cap
in two boots. Stream: a second answer lets the text go and come back while a
call is out, and one failure is a lost call, a lost answer or a failed rebuild
with its salvage. Sessions: four turns pass `TurnLimit` and the hang limit of
two. Patrol: thresholds of one to four instants keep the order of the real ones,
and eight instants hold two wake-ups and the escalation; two messages and a
crash let a wake-up be lost and somebody else speak.

Fairness. Continuations and timers of a running Node process fire, so
`Replenish`, the pid writes, `ResumeWaiter`, `Escalate`, `Finalize`, `RunLink`,
`PopLink` and the kill grace of a stopped cold run are weakly fair. The waiters
and the shutdown of `NothingHangs` assume `ExitFairness` too, that a child sent
SIGTERM and then SIGKILL exits. Users, the CLI and the sweep owe nothing. Codex
(`GateOpens`): the app-server takes or refuses what it is asked and ends what it
is told to, its lines are read, and a child sent SIGTERM exits; without it a
stopped turn keeps its gate. The scheduler's steps are weakly fair (each is an
await that settles: posts and file operations have timeouts or end), the service
manager boots a bridge that is down, and `MaybeReloadConfig` is strongly fair:
the bridge is not stopped before the first tick of every boot; a post repeated
for ever succeeds infinitely often. The channel client's timers and answers are
weakly fair (requests end or time out), and the chat list shows all groups again
and again while it is asked: a strongly fair `DiscoverLists(Groups)`. There,
turns owe nothing: one that never ends keeps its message in flight.
`EventuallySettled` of the bridge assumes that an agent turn ends (its `done`
settles, which the pools show under their own fairness), as part of weakly fair
steps. The detector's `Look` and `LearnDue` are timers, weakly fair; `Act` is
strongly fair because `StandDown` (an unreadable task, the fuse) may take its
place, though not for ever. `PiPool`, `TurnSurfaces`, `CardStream` and
`Sessions` have no liveness property.

### Proofs

The theorems hold for every finite or infinite set of turns, threads, messages
and children and every cap, under the named assumptions of the modules.

* Claude pool. `TypeCorrect`: one lemma per operator that builds a record
  (`Place`, `FallBack`, `Queue`, ...) and one per action. `TurnsKeepPlaces`:
  `Spec => []TurnInv`. `TurnInv` says what each phase of a turn implies for its
  record (`Shape`), that a chain holds only turns queued on its child or settled
  meanwhile (`ChainInv`), and that a child's current turn is running there
  (`CurrentInv`). It is inductive only with `TypeOK` and `BreakerInv` (the
  breaker trips at the count that reaches its limit, which keeps the failure
  counter in its type). `KeepsRunnerContract`: `Spec => KeepsContract`, the
  refinement of `AgentTurns`. Every step of the pool maps to steps of the
  contract by the turns it touches; `TurnInv` rules out that a stale chain link
  or a stale `current` moves a settled turn. `OneTurnPerWire` (`WireExclusive`)
  and the theorems after it rest on `Posts`. A child's current turn is the head
  of its chain and runs there (`Wires`); `#entries` and `#dying` are the warm
  children that have not exited (`Census`); nobody waits for the standby
  (`Blanks`); a turn and its child are of one thread (`Seats`). Under
  `SerialThreads`, the case `OneWriter` is about, only its own child answers for
  an open turn's thread (`OneTurn`, `Claims`), and a thread has one child that
  answers for it, and none before its interrupted one has exited (`Apart`):
  `OneWriterHolds`. It counts what the code registers: a child destroyed by a
  stop while its turn waited for background work is not registered, and
  `StopEndsWriting`, which counts it, is false (`pool_stop`).
  `MakingRoomSparesWork` (`EvictionSparesWork`) assumes `SerialThreads`: with
  two unsettled turns of one thread a reseed drops the child that is busy with
  the other. `PidListIsExact` adds `PidBook`: the list on disk, or the one being
  written, is up to date unless a later write is queued or the last one failed.
* Codex pool. `OneWriterHolds`, `OutputIsOwnHolds`, `RejectedStayedOutHolds`,
  `KeepsRunnerContract`. None of them is inductive: the invariant `IInv` adds
  which turn a native thread descends from (`Lineage`), that the turns of a
  topic come one after the other (`Serial`), that a stopped turn which may still
  write holds the gate of its thread until its end has been read (`Gates`), what
  a turn on the wire implies for the app-server's view (`Wired`), who may own a
  thread (`Owners`) and what a one-shot's process says of its turn (`OneShots`).
  The assumption that matters is the bridge's: a topic's turns do not overlap.
  The contract is taken with `LateRefusals`: `ContractStep` shows that only a
  stopped one-shot rejects.
* Pi pool. `OneWriterHolds`, `OwnTurnsOnly` (`TurnsAreTheirOwn`) and
  `KeepsRunnerContract`, for any number of extensions' runs and moved sessions.
  The invariant: a turn and its child know each other (`Seats`), the child has
  run what its turn needs (`Fits`), a topic has one open turn and one living
  child, and the turn is on that child or waits for its exit (`Serial`, `Alone`,
  `Holds`), and a session is known to one topic only, the one whose child opened
  it first (`Home`, `Origin`, `Fresh`). `Serial` is again the bridge's doing.
* Bridge. `NothingStranded`, `SlotsCounted`, `FedNotReplayed` (`InputOnce`) and
  `StopsHold` need no assumption on the events. `OneWriterPerSession` needs
  `OneQueue`, that events which may end up on one session share their queue key:
  exactly what fails in `bridge_quote`. The invariant: every queued message is
  in one place (`Placed`), the slots are those of the heads that hold one
  (`SlotInv`), the journal knows whatever was fed (`FedInv`), a cancelled
  message is in no queue (`CancelInv`), and a running turn owns its session's
  entry (`SessionInv`).
* Surfaces and their ledgers. `NeverAnOldAnswer`, `NoLedgerOutlivesItsBubble`,
  and `AFallbackIsFinal` (`FallbackStays`: a ledger settled by the final card or
  a visible fallback never streams again), which no run repeats. The invariant
  dates every ledger and every run (`CardDated`, `KitDated`, `RecDated`,
  `RunDated`: where state.json is newer than a ledger, it was written by the
  ledger's turn, a later one, or a stray), takes an earlier agent still alive
  for a stray (`Strayed`), ties a closure's record to the file it last wrote
  (`RecFollows`, `RecFallen`), says what a boot has in hand (`Found`), and
  orders the steps of a bubble. `NoCardIsAbandoned` is `LedgerKept`: of the
  steps that let a ledger go (`LedgerGone`) each has shown its card's end first
  (`DropsShown`), told by post, released the message (`Settles`), or run out of
  retries. `NobodyIsForgotten` is `UserTold`, which holds up to four failing
  calls. The invariant `Tally` counts backwards: at a step of a turn that so
  many failures led to, too few are left for all its other ways to tell to fail;
  a salvage or a late surface of a turn counts what has failed before it. With
  five `UserTold` is false, as the run shows when its bound is raised: the
  writes of cardkit.json and card.json, the final card, the late card and the
  post all fail, each is only logged, and the message is marked handled. That is
  why `UserTold` names the number; the code promises none.
* The stream of a card. `QuietCardIsCurrent` and `FinalCardStays`. `Streams`:
  the newest text of a channel is due, queued, on its way or shown (`Carried`),
  and what the handle believes of the card is so unless a call failed or is out
  (`Believed`). `Finishes`: a finalize goes past its wait only when nothing of
  the stream is left, and a rebuilt card has its text.
* Cron. `SkipsLoseNothing`, `ReturnsNextFire`: the search loses no match and
  returns the first one, for every calendar, expression, start and look-ahead.
  The invariant adds that the cursor has passed at least as many minutes as
  there were iterations.
* Scheduler. `TypeCorrect`, and `FiredOncePerRecord`: `Spec => []CronFiresOnce`.
  The invariant `Books` says that outside a cron phase the file, and inside one
  the tick's copy, is ahead of every occurrence fired once more than records
  were lost, except for the one whose `fire()` is awaited; that nothing is fired
  before the tick's own time; and that a clean copy equals the file, which is
  why not writing it loses nothing. `ReturningEntriesStartAfresh`: `Spec =>
  FiresAfterApplied`. `Timely`: while no record was lost, what is recorded of an
  entry of the last cron phase is later than the entry's arrival, and nothing is
  recorded of any other; `Noted`: a cron phase works on the entries it noted
  before its own time. An emptied schedule is covered: `NoCron` drops nothing
  and notes nothing, so entries that come back after it have not left in the
  property's sense, and it promises nothing of them that the code does not do
  (see the Findings).
* Channel client. `KeepsInboxPromise`: `Spec => KeepsInbox`, the refinement of
  `Inbox`. Every step of the client leaves its books alone, dispatches fresh
  messages, or settles one (`BookStep`). `Inbox` counts turns and the code
  counts attempts, which it resets when a message is settled: the invariant
  `CountersAgree` (theorem `CapCountsTurns`) says that they agree until then,
  and that a message waiting for a replay has an attempt left. The handler's
  duty not to settle a message that is not in flight is a guard of the model.
  `OwedStaysTracked` (`OwedIsTracked`): a message that was lost or released is
  in nobody's hands and lies in its chat's window (`OwedInv`). `OutageCovered`
  (`OutageIsCovered`): while a connection is blind, and no sample took it for
  healthy, the anchor is not later than the moment it went blind (`AnchorInv`).
  Both are part of `ClientInv`.

* Sessions. `CondemnedStayAside` (`SpentNotResumed`), `ConversationsGoOn`
  (`ConversationKept`), `LiveSessionsStay` (`GcSparesTurns`). `Spent`: the map,
  the file and what a turn remembers name no condemned session, and each counts
  at least the settled turns of the session it names, at most the turns that ran
  on it, and at least the hangs that settled; so a record that falls back to an
  older file errs only towards resuming what was not settled. It needs `Awaited`
  (at most one queued write belongs to the turn, and a turn that has none had
  nothing to write) and `Numbered` (a new native session has a number no record
  knows). `Continued`: while the session of the last settled turn can go on, all
  three records name it and are not marked. `Prompt`: a turn is received at most
  `MaxSpan` ago and the refresh it made stands, so a scan that finds the record
  idle finds no turn. Assumed for `ConversationsGoOn` (`StartsInTime`): no turn
  waits longer than `p2pStickyIdleMs`; by default there is no such limit. A turn
  that waits longer is reseeded although the conversation went on (see the
  Findings).

* The stall patrol (in `TurnSurfaces_proofs`). `OnlyAnsweredCount`
  (`EscalatesAfterAnswered`) and `OverdueIsSpaced` (`DueSpaced`), for any
  thresholds, cooldowns and number of events. `mark` counts the wake-ups of the
  counting that is on and that were followed by activity of the topic; it starts
  afresh when the code drops its counter, after an escalation too.
  `CountedHeard`: the count in the claim is at most that number, and less than
  it once the wake-up on its way has been heard, so confirming that one keeps
  it. Whose activity it was neither the code nor the property looks at (see the
  Findings). `OneOnItsWay` says that the detector, while it reads a task, has
  none on its way. `Anchored`: while the last wake-up called this claim overdue
  and was not given up, its time is on the record, as the wake-up on its way or
  as the one last confirmed, until `DueFloor` has passed. Progress, a completed
  task and an escalation erase wake-ups; the first keeps that time and the other
  two come only after `DueFloor`. The property speaks of calls made strictly
  after the process started and the claim was made: at one same instant the
  model does not say which came first.

Only model-checked: every liveness property, `WakeAnswered` and
`StalledIsNoticed` among them (liveness under fairness and ENABLED are out of
the prover's reach, as is induction over data).

### Findings

Two are runs.

* `bridge_quote`. An ordinary quote reply that opens a topic queues under the
  quoted message (`handler.ts:1677`) and runs on the session of its own id; a
  follow-up in that topic has the same session and another queue, so both turns
  run at once, against "never the concurrent-same-session hazard"
  (`handler.ts:1664`).
* `pool_stop`. Stopping a turn that waits for background work destroys its child
  and settles at once (`pool.ts:914`) without entering it in
  `#interruptedExits`, against "card settlement after an interrupt is not
  permission for a second writer" (`pool.ts:397`): the thread's next turn starts
  while that child runs.

Other places where the code departs from its own comments, met while modelling
and not kept as runs:

* Sessions. `run()` touches the session record when a message is received
  (`handler.ts:1710`), before `handleOne` compares its age with
  `p2pStickyIdleMs` (`handler.ts:2309`): the gap it sees is the wait in the
  queue, and the reseed the comment at `handler.ts:2277` promises after an idle
  night does not happen.
* Claude pool. A wake-up announced by a turn that is then cancelled survives in
  the entry (`pool.ts:1245`) when it fires between turns; a later finished turn
  takes it for its own background work, yields, and waits until its deadline.
* Codex. A cold one-shot's `failAppServerTurn` (`runner.ts:1159`) rejects even
  after a kill, and the pool hands that on (`pool.ts:524`), although "a
  deliberate kill resolves `done`, it does not reject" (`codex/pool.ts:594`).
  `ColdRefused` does so in the model, and `KeepsContract` holds of codex only
  because `AgentTurns` allows its one-shots the exception (`LateRefusals`). A
  finished one-shot is sent SIGTERM once (`runner.ts:966`): if it ignores it,
  its topic is refused until a restart. A refused initialize leaves the child up
  with a rejected `#ready`: turns go cold until the idle reap.
  `#deletePidFileIfMine` reads and then unlinks, and may delete an entry written
  between.
* Pi. `canContinue` is judged at placement: a fresh turn queued behind another
  fresh one would land in its session, and `place()` does not look at other live
  entries of the topic, so turns waiting under different options would be placed
  beside each other. Both need the overlap the bridge excludes.
* Scheduler. The wake command writes its file in place; a tick that reads it
  before its content is there deletes it, although `wake.ts:203` says it is
  retried at the next tick. A wake whose file outlives its dispatch is posted
  again at every tick; the known message is refused, which counts as a failed
  fire, so the file is never consumed.
* Scheduler. A tick reads the clock once (`scheduler.ts:332`); an entry behind a
  slow post, or a suspended host, is fired past its grace. With no entry left
  the tick returns (line 331) before it drops the persisted state; an entry
  removed as the last one and added back fires for an occurrence from before.
  "Edited/added entries seed forward from now" (line 115) knows no such
  exception; `FiresAfterApplied` makes it, by counting an emptied schedule as no
  departure. An edited prompt keeps the fire state, which line 136 says it
  resets. A crash between a fire and the single write at the end of the cron
  phase fires the occurrence again, against "so restarts don't refire" (line
  13); `CronFiresOnce` is what does hold.
* Surfaces. state.json is dated but not signed: an agent that outlives a crash
  and writes it beside a later turn puts its own answer there, which that turn
  then shows as its result (`NoOldAnswer` excuses strays). A failed unlink of
  cot.json is swallowed (`cotFile.ts:129`), and the next boot marks the finished
  bubble as failed (`NoStaleLedger` excuses it). `deleteCotFileIfMatches` reads
  and then removes, and a late bubble of one turn overwrites the next one's
  cot.json; `LedgerKept` covers only the two card ledgers. The catch path drops
  card.json even when finalize and post both failed. There is one ledger slot
  per kind: the boot skips a directory touched in the last minute, and the next
  turn overwrites the slot (`LedgerKept` and `UserTold` excuse it). A crash
  between a late card's finalize and `deleteCardFile` lets the boot overwrite
  the answer with "interrupted". An old cardkit.json may be given a later turn's
  answer. A failed cardkit.json write leaves both a CardKit and a legacy card.
  When five steps fail in a row a turn ends as handled with nothing shown.
* Card stream. `patchProgress` compares a text with the last committed one when
  it is queued (`cardkitProgress.ts:861`): if a snapshot returns to what the
  card shows while another text is on its way, nothing is sent, and the card
  stays at the other one until the next event or the final card (`Overtaken`).
  The failure path's second finalize (`handler.ts:5509`) waits for `inFlight`
  and not for the salvage calls of the first, which may put the old answer on
  the rebuilt card; `FinalStays` excuses it.
* Card stream. A crash between a call that landed and its cardkit.json record,
  or a recovery that fails half-way (`reconcile.ts:494` writes the old number
  back), makes the next boot reuse sequence numbers that were accepted, although
  recovery is said to "continue safely"
  (`docs/response-surface-prototype.md:148`).
* Sessions. The cleaner looks up pids and then removes: a turn set up between
  the two loses its directory, against "never rm -rf a live session";
  `GcSparesTurns` covers what the lookup could see. A late `markHarvested` can
  land on a revived record, and a failed revival keeps `harvestedAt`. The write
  at the end of a turn uses the record read at its start, so it may put an old
  `lastActiveTs` back. A first turn that hangs before it names a session leaves
  no record.
* Patrol. `lastActiveTs` is said to be written "only at true turn completion"
  (`handler.ts:1513`) and is touched on receipt: the receipt itself confirms a
  wake-up, its later reply reads as progress and resets the count, and a stale
  failure of a peer re-arms the handoff. `#escalate` does not check
  `completedAt`. After an await, `store.delete(threadId)` drops, and `sendNudge`
  marks, whatever claim the thread has by then. A lost wake-up for a due date
  whose immediate retry fails waits the whole due floor.
* Patrol. The count is said to go up only for wake-ups the agent has seen, "so a
  bridge restart that loses an in-flight nudge turn never inflates this"
  (`store.ts:55`, `stallDetector.ts:96`). `if (lastActiveTs > pendingSince)`
  (line 635) takes any activity for the reply: a wake-up lost with the process
  counts as soon as somebody else has spoken in the topic. What holds, and is
  `EscalatesAfterAnswered`, is that each counted wake-up was followed by some
  activity; by itself a lost one does not count.
* Patrol. `StalledIsNoticed` leaves out what the code leaves for ever: a claim
  whose agent declared it done; one found complete and reopened, while it is
  suppressed; and a thread without a session record that has received its
  wake-up (lines 671-673; the comment at 348-350 takes such threads for
  harmless). `DueSpaced` excuses a restart: progress before `LearnDue` has read
  the due date again drops the time of the last call, although line 694 means to
  keep it.
* Channel client. A pull that read a chat before a message was posted, or whose
  `--end` lies before it, clears the message's window when its answer comes:
  `resolveUnresolvedGapWindow` compares the starts only
  (`channelClient.ts:2038`). `OwedIsTracked` excuses it.
* Channel client. The sampler relies on a "5-minute floor inside gapFill" (line
  2118) for half-open connections; the five minutes are a ceiling (lines 1616,
  1655), and the look-back starts at the last sample. What a half-open
  connection lost before that sample is not pulled. `OutageIsCovered` excuses a
  connection that a sample took for healthy, and a host that sleeps before the
  first sample.
* Channel client. `replay: false` is meant to keep a completed turn from the
  steady-state replay (`handler.ts:1864`, `transport.ts:122`); the window of
  another message of the chat brings it back all the same. Pruning judges the
  oldest start of a chat (line 1999), so newer messages that wait for a replay
  are forgotten with it. The first discovery cycle asks for 30 minutes of
  history (line 2284) but passes no floor, so `gapFill` clamps it to five. An
  open bot replays only chats that the chat list shows (`OwedIsRetried` excludes
  the others). A chat list that fails on a later page has already made the chats
  of the earlier pages known (line 2229).

### Not modelled

The comment and tasklist pollers, candidate alerts and the team registry; the
local handoff beyond the hand-off event; the sequence numbers of a CardKit card;
the restart machine, service control and onboarding: all would fit TLC and are
what an extension would take next. The web console's request handling, the
browser front end, configuration, prompts, the knowledge store, the workspace
templates and the logs are files, text and I/O with no interleaving worth a
state space; they are a large part of the lines of the repository.
`PROJECT.json` gives the reason for each.

## 3. Plan

1. (done) claude pool, its contract, and their proofs.
2. (done) `Scheduler` and `Cron`, with their proofs.
3. (done) `ChannelClient` against `Inbox`, with the proof of the refinement.
4. (done) `BridgeHandler`, with the proof of its safety properties.
5. (done) `TurnSurfaces`, `CardStream`, `Sessions` and `StallPatrol`, with their
   proofs.
6. (done) `CodexPool` with its proofs and `PiPool`, against the same
   `AgentTurns`.
7. Open: restarts of the channel client with the saved seen set, the pollers,
   the local handoff, the restart machine, the CardKit sequence numbers.
8. (done) the remaining invariants of the pools, the channel client, the
   surfaces and the card stream.
9. (done) the safety properties of `Sessions` and `StallPatrol`.
