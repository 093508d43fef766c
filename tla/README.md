# roxy-agent: TLA+ models, checks and proofs

roxy-agent is a long-running personal agent: channels (mobile, web, Telegram,
QQ, control protocol) put messages on a bus, a passive worker turns them into
*turns*, one asyncio process runs the turns against a model provider and tools,
and SQLite keeps what must survive.  This directory models the parts of that
process whose correctness depends on ordering: who owns a thread, which writes
survive, what is retried, who may stop whom.

Everything below is read from the code under `src/` at this commit; the docs are
used only where a run shows that the code disagrees with one of them.

## 1. Inventory

| component | state it keeps | operations | talks to |
|---|---|---|---|
| Conversation runtime `agent/control/runtime.py` | `turns` rows; `_active_by_thread`, `_tasks`, `_results`, `_locked_turn_inputs`, `_interrupt_requested`, admission counters, replay buffers, subscriber queues | `start_turn`, `reject_never_fit_turn`, `_run`, `interrupt_turn`, `subscribe`, `shutdown`, recovery | session store, executor (agent loop), protocol router, passive worker |
| Maintenance gate `agent/control/runtime.py`, `agent/restart.py`, `main.py` | `_accepting_turns`, deployment lease and its expiry task, restart request | `prepare/cancel_deployment`, `_expire_deployment`, `quiesce_*`, `RestartCoordinator.arm/mark_*` | runtime, supervisor, settings API, router |
| Replay and subscriptions `agent/control/runtime.py` | per-turn event log, truncation marks, stream queues | `_publish`, trims, reaper, `subscribe` | protocol router, clients |
| Message bus and chat lanes `bus/queue.py` | `inbound`/`outbound` queues, durable mobile owners, per-chat tickets | `publish_inbound`, `complete_inbound`, recovery pump, `run_passive`, `run_non_passive`, outbound retry | channels, passive worker, proactive loops |
| Passive worker `bootstrap/passive_worker.py` | one lane per session, handoff bookkeeping | admission loop, terminal redelivery, retained retry | bus, runtime |
| Event bus `bus/event_bus.py` | handler lists, observation tasks | `emit`, `fanout`, `observe`, drain | everything |
| Session store and manager `session/*.py` | messages, turns, mutation revisions, memory coverage | append/undo/delete, compaction prepare/commit | runtime, memory |
| Compaction `session/compaction_runtime.py`, compaction half of `session/store.py` | ledger of generations, cursor, prepare row; receipts in a second file | project, prepare, persist, recover; dashboard edits and deletions | store, provider, dashboard |
| Agent loop `agent/looping`, `agent/core`, `agent/lifecycle` | session lanes, phase chain | before/after reasoning and turn phases | runtime (executor), store, tools |
| Plugin snapshots `agent/plugins/snapshot.py`, `manager.py` | published snapshot, leases, generations | publish, acquire/release, reload, drain | agent loop, watchers |
| Plugin rollout `agent/plugins/turn_rollout.py`, `manager.py`, `artifacts.py`, `reload_journal.py` | pair of pointers, manifest entry, journal, fact for the next turn | install, uninstall, stage, validate, promote, revert, boot recovery | turns, watcher, operator |
| Model registry `agent/model_runtime/*`, `bootstrap/settings_api.py` | registry database; generations and their executions | commit, replace, restore, reload, execution scope | agent loop, settings process |
| Supervisor and boot guardian `agent/supervisor.py`, `agent/background/boot_guardian.py` | child process, settings request and its generation, boot attempts | spawn, watch, reload, roll back | runtime process, settings thread |
| Deployment controller `agent/deployment/controller.py` | releases, link `current`, `state.json` | stage, drain, switch, restart, verify, roll back | maintenance gate, service manager |
| Scheduler `agent/scheduler.py` | jobs file, heap | add, cancel, tick, claim | bus |
| Outbound delivery `bus/queue.py`, `bootstrap/app.py` | outbound queue, receipts, dispatcher | publish, await a receipt, send, retry, excuse, drain | turns, passive worker, channels, restart coordinator |
| Subagents `agent/background/subagent_manager.py` | slots, tasks, announcements | spawn, spawn_sync, cancel, shutdown | turns, bus, snapshots |
| Unified exec `agent/tools/unified_exec.py` | register of executions, quarantined owners | exec, write_stdin, stop, prune, terminate_owner | tools, turn cleanup |
| Notes bridge `plugins/apple_notes`, `infra/notes_bridge`, `companion/mac_notes_bridge` | a receipt, an audit row and a reservation, one per party | propose, commit, look up, reconcile | turns; a Mac over a socket |
| MCP client, host bridge | client sessions | call, close | tools |
| Mobile realtime `infra/mobile_realtime/*` | devices, inbox, deliveries, sync events | pair, submit, deliver, ack, sync | bus, channel |
| Memory `core/memory`, `memory2`, `plugins/akasha`, `plugins/default_memory` | markdown files, vector store, graph | consolidate, optimise, retrieve | post-turn workers |
| Proactive `proactive_v2`, `plugins/wake_proactive` | state file, wake queue | tick, claim, deliver | chat lanes, bus |
| Frontend, eval, benchmark, docker, skills, docs | - | - | not modelled |

Nothing here runs in parallel within the process: one asyncio loop, so state
changes only between two `await`s.  The hard behaviours are what happens *at*
those awaits (a check that is stale after them, a cancellation that arrives
there, a lock that is never held across one), and between two SQLite commits,
where the process may die.

What makes each modelled component correct:

- **Conversation runtime**: one live turn per thread; what a waiter is told is
  what the store says; capacity is charged for exactly the live owners; a
  terminal is never overwritten; every accepted turn resolves.
- **Maintenance gate**: admission is closed while somebody needs it closed and
  opens again afterwards; "drained" means drained; a restart cuts off no turn
  and comes after the reply that announced it.
- **Replay**: a subscriber gets every event in order or is told that it did not.
- **Chat lanes and outbound queue**: one message at a time per chat, pushes behind
  replies and in their own order, nobody stuck; a receipt is true, and whoever
  waits for one gets it.
- **Mobile handoff**: a command that was accepted is answered, and runs once.
- **Durable events**: a device that is caught up missed nothing.
- **Compaction**: a prompt tells every unit of the history once and nothing the
  user deleted; a commit cut off anywhere can be released or finished.
- **Plugin snapshots**: nothing in use is disposed, what is unused is disposed, and
  admission is paused exactly while endpoints change hands.
- **Plugin rollout**: the running version is the one the next boot loads; only a
  version that was tried becomes stable; what the next turn is told is so.
- **Model registry**: an execution runs with models the database held after it had
  entered; a command replaces only what its author saw.
- **Settings reload**: an accepted save is the configuration that runs.
- **Deployment**: what is recorded answered its health check.
- **Notes bridge**: what was called unsaved is never written, what was called saved is.
- **Scheduler, wake reservoir**: a period runs once, an item is told once, only a
  cancel removes a job, the source hears of everything that was settled.
- **Unified exec, subagents**: nothing runs unseen; slots, snapshots and entries are
  held as long as something lives in them; the chat hears how each job ended.

`PROJECT.json` lists every part with its status, and under `hazards` the lines
where this code is hard to test with the properties that watch them.

## 2. Modules

### ConversationRuntime - the owner of turns

`agent/control/runtime.py` over the `turns` table of `session/store.py`.
Durable variables are the columns and metadata that decide something (`status`,
`thread`, `pred` = `continuedFromTurnId`, `root` = `interactionId`, `rejected`,
`latest`, and `finals`, the number of terminal assistants appended to an
interaction's transcript); volatile ones are the fields of one
`ConversationRuntime` object (the comments name the field).  `pc[t]` says at
which `await` the task of `t` is suspended.

| action | code |
|---|---|
| `StartTurn`, `RejectNeverFit`, `RejectTorn` | `start_turn`; `reject_never_fit_turn`, and the same cut off between its writes |
| `Begin`, `BeginFails`, `Seal`, `AppendTranscript`, `ExecutorReturns`, `Complete`, `Fail`, `CancelDelivered`, `TerminalWriteFails`, `DieUnstarted` | the steps of `_run` and of the executor it awaits |
| `Interrupt`, `ReapQueued`, `ReapFails` | `interrupt_turn`, before and after its `gather` |
| `SetAccepting`, `Shutdown`, `CancelTasks`, `Crash`, `Boot` | the gate (owners in MaintenanceGate), `shutdown`, the end of the process, `recover_in_progress_turns` |

`CreateRow`, `Continues`, `CanFit`, `Release`, `Settle`, `Abandon` are the
helpers several handlers call.  A task cancelled before its first step
(`DieUnstarted`) never enters `_run`, so its `finally` does not run either; this
is the case `interrupt_turn` has its second half for.

The executor is external to the runtime: of it remain the four points at which
it meets the turn (`lock()`, `append_messages`, return, exception).

### TurnPromise - what the runtime promises

An abstract specification without tasks, capacity, locks or seals: a thread
serves one turn; the outcome is written once, in the step in which the waiter is
told, `turn/completed` is published and the thread is free; a waiter that gets
no outcome gets an error and no event; only recovery writes outcomes nobody
waits for.  `ConversationRuntime` implements it under the mapping

| TurnPromise | ConversationRuntime |
|---|---|
| `outcome` | `Outcome`: `queued` and `in_progress` are both "open" |
| `holder` | `owner` (`_active_by_thread`) |
| `told` | `future` (`_results`) |
| `heard` | `announced` |

`Begin`, `Seal`, `AppendTranscript`, `ExecutorReturns`, `DieUnstarted`,
`Interrupt`, the gate and `CancelTasks` are stuttering steps: a caller can see
none of them.  `KeepsPromise` is checked by TLC and proved.

### MaintenanceGate - who may close admission

Three owners share the one flag `_accepting_turns`: a deployment lease with its
expiry task, the restart an agent asks for (`agent/restart.py`
`RestartCoordinator` with its watchdog), and the settings restart of
`main.py`.  A turn is reduced to its task and terminal.  `Arm`,
`MarkDelivered`, `MarkDeliveryFailed`, `Watchdog`, `EndTurn` (which reports the
terminal) are the coordinator's operations; `GrantLease`, `JoinLease`,
`AnswerPrepare`, `CancelDeployment`, `ExpireDeployment` those of the lease;
`SettingsQuiesce`, `SettingsCommit`, `SettingsAbort` the SIGUSR2 path.
`Shutdown` is shared.  The model is one life of the process.

A deployment id is used for one lease: the controller derives it from its
operation id.  (Were an id granted again, the expiry task of the first lease,
which compares ids only, could release the second.)  `prepare_deployment` may
answer "drained" while a task that was cancelled unstarted still waits in
`_tasks` for its interrupter; it does no work, so `PreparedMeansQuiet` speaks of
live tasks.

### TurnReplay - events, trims and subscribers

The per-turn event log, the per-turn and the global trim, the expiry of a
terminal replay, and `subscribe` with its bounded queue.  An event is its number
and size.  `_history`, `_history_sequences` and `_replay_order` hold the same
events and are one sequence `log`.  `Take` carries the bookkeeping of an
observer: which number it expects (`want`), whether a notice announced a gap
(`told`), whether one went by unannounced (`gap`).  A consumer that left, or was told the
end, may subscribe again, as a client that reconnects does.

A subscriber that joins after a turn was abandoned without a terminal
(`_fail_streams`) waits for good; the code promises an end only with the
terminal, so `StreamsEnd` does not cover it, and `hazards` records it.

### ChatLane - one sender per chat

`ChatLane` of `bus/queue.py`: the state object of a chat, found or made by
`_acquire_state` and forgotten by `_release_state`, its counts, its tickets and
its condition.  The callers are inbound messages, queued outbound messages,
direct passive sends and pushes.  `Enter*`, `Wake*`, `Leave*` are the stretches
between two awaits of `run_passive` and `run_non_passive`; `notify_all` is the
set `awake`.  Objects are values because a caller keeps the object it found
while another may have replaced it in `_states`.

### InboundHandoff - a mobile message from receipt to answer

`MobileChannel.handle_command`, the durable half of `MessageBus`
(`publish_inbound`, `recover_durable_inbounds`, `complete_inbound` and its
retry), the handoff table of `SessionStore`, and the lanes of
`PassiveMessageWorker`, with crashes between any two commits.

Simplifications, each an observation about the code: publish, a recovery page
and complete are one step because nobody suspends while holding the durable lock
or a lane's condition (SQLite is synchronous here); `handle_command` is one step
except for a crash between its commits (`CrashInSend`); the bus queue and the
worker's queue of a session lose their content together and keep its order, so
one sequence stands for both; the three delivery attempts of `_deliver_terminal`
are one outcome; the retry loops around `start_turn` are waiting.  Not modelled:
session admissions, other channels, attachments.  The lane keeps the pending
count of a command it stranded (`StartFails`, `TurnAbandoned`), so pushes to that
chat wait until the next start; `tests/test_message_bus_admission.py:22` asserts
this, and it is outside the module.

### SnapshotStore - plugin generations behind leases

`RuntimeSnapshotStore` of `agent/plugins/snapshot.py`, the procedures of
`agent/plugins/manager.py` that publish through it, and the phases of the reload
journal.  A snapshot maps every loaded plugin to one generation; consecutive
snapshots share all generations but one, which is why the drain of one snapshot has
to look at the others.  `op` is the one procedure that holds
`_candidate_prepare_lock` and the await it is suspended at; everything else (leases,
forks, waiters, drain tasks) runs at any of its awaits.

| action | code |
|---|---|
| `Compile`, `Quiesced`, `Begin`, `Commit`, `CommitLatest`, `Finish`, `PublicationFails`, `Abort`, `CandidateGone` | `_publish_prepared` and `_deactivate_plugin`, by kind: `replace`, `stage`, `disable`, `remove` |
| `Promote`, `Sealed`, `Promoted`, `PromotionFails` | `switch_ready` |
| `Drop`, `Dropped`, `CandidateGone` | `_drop_ready`, `discard_latest` |
| `Reconcile`, `RetryDrains`, `RetryFails`, `RetryCancelled`, `RetryRaises`, `CancelEnds`, `Reconciled`, `Return` | `_reconcile_changed_locked`, `retry_drains` |
| `RemoveAgain`, `Unused`, `UsesCancelled`, `Removed` | `reconcile_disabled_and_drain`, `wait_for_generation_drained` |
| `DrainGoes`, `DrainStops`, `DrainFails` | `_run_drain`, `_on_snapshot_drained`, `_dispose_generation`, `aclose` |
| `Acquire`, `Wake`, `AcquireCancelled`, `Fork`, `Release` | leases |

Simplifications: the event loop runs callbacks in the order they were scheduled, so
`Finish` comes after the first stretch of the drain that the commit started; the
workspace MCP generation is one more generation; which plugin a procedure takes and
whether its endpoints differ are inputs.  Not modelled: `close()`, the synchronous
`lease()`, loading a plugin, `after_open` raising in `commit` (it only logs), and errors
of the journal's own database.  The pointer files and the boot recovery are in
PluginRollout.

### PluginRollout - a version from install to stable

One installed plugin: the turn that owns an install or an uninstall
(`turn_rollout.py`), the manager's procedures on the candidate, and what they leave on
disk: `disk` (the pair of pointers), `manifest`, `journal` with the transitions
`reload_journal.py` allows, `fact` (what the next user turn is told).  A step is what
runs between two durable writes; `HostDies` is possible between any two, and the `Boot*`
actions decide from the disk alone.  `proc` is the one procedure under
`_candidate_prepare_lock`.

| action | code |
|---|---|
| `Install`, `InstallListed`, `InstallSame`, `CutInstall`, `Watch`, `Begin`, `Prepare`, `LoadFails`, `PublishFails`, `StagingGivenUp`, `CandidateReady`, `PublishAtOnce` | `install_candidate`, the watcher, `_load_one` |
| `Uninstall`, `Revert`, `StartChild`, `EndChild`, `EndTurn` | `turn_rollout.py` |
| `Seal`, `SwitchRefused`, `Quiet`, `Promote`, `Point`, `CommitFails`, `SwitchCommits`, `Track`, `Drained` | `switch_ready` |
| `Drop`, `Restore`, `RestoreFails`, `Dropped`, `NothingToDrop` | `_drop_ready`, `discard_latest` |
| `Disable`, `Deactivate`, `WatcherDeactivates`, `Removable`, `RemoveArtifacts`, `Forget` | uninstall |
| `BootPointsBack`, `BootGivesUp`, `BootLoads`, `BootRefuses` | `load_all` |

### OutboundQueue - a reply from queue to receipt

The outbound half of `MessageBus` and the order in which `AppRuntime.shutdown` ends the
tasks around it.  `Publish`, `Enqueued`, `Answered`, `SenderCancelled` are the two
`publish_outbound` methods; `Take`, `Enters`, `Sends`, `Raises`, `Excuses`, `Settle`,
`Observes` are the stretches of `dispatch_outbound` and `_send_outbound`; `Shutdown`,
`Cancelled`, `Drain`, `Drained` end it.  A cancelled dispatcher may or may not have
given back the lane's count, as the cancellation may arrive inside `run_passive`.

### DurableEvents - the numbered events of a device

`storage.py`, `inbox.py` and `gateway.py` of `infra/mobile_realtime`: a row per event,
the cursors `next`, `sent` and `acked`, a replay window frozen at connect, a drain task
for what is published meanwhile, and the barrier a command sets so that its reply comes
after the events before it.  `Prepared` is `_prepare_resume` in the order of its checks.
The device is external: it handles frames in order and, on a reset, fetches what was
published so far.  `LinkDrops`, `ServerRestarts`, `DeviceForgets`, `RowLost` and
`RolledBack` are the faults.  `log` keeps rows an acknowledgement deleted, for the
property only.

### CompactionLedger - the history a prompt tells

A checkpoint is committed over two SQLite files: `Prepare` fences the session,
`WriteReceipt` goes to the other file, `Persist` inserts the generation, moves the cursor
and drops the fence in one transaction; `Recover` and `Project` run at the next
projection.  The dashboard edits and deletes (`EditMessage`, `DeleteMessage`,
`DeleteInteraction`, `DeleteSession`) while no turn is admitted, and `Crash` may hit any
step.  A unit is its number and the version of its text.

### SettingsBridge - a save that reaches the running gateway

The settings thread, the supervisor and the gateway: `Apply` publishes the file and asks
with a number; the supervisor (`sup.pc`) signals and reads answers that carry none
(`ReadLifecycle`); the gateway loads at boot and on SIGUSR1.  `TakeRollback`, `Crashed`,
`Restarted`, `BootTimeout` and `ApiTimeout` are its ways out.

### Deployment - a run of the host's controller

`run_once` from the fetch to the report: `Fetch`, `Checkout`, `PrepareVenv`, `Prepare`
(the lease), `Drained`, `Switch`, `RestartNew`, `HealthyNew`, `WriteState`, and the way
back (`FailApplied`, `SwitchBack`, `RestartOld`, `FailUndo`).  `Killed` is possible at
every step.  The service runs turns, dies, is started by systemd with whatever the link
names, and forgets its lease when it dies.

### NotesBridge and NotesPromise - a note written over a link

Three ledgers (`receipt`, `audit`, `mac`) that cannot see each other, one link that
drops with messages in it, and restarts of both sides.  `NotesPromise` is what the user
is promised: a note called unsaved is never written, one called saved is there, none is
written twice, and "unknown" is only ever improved by finding the note.  NotesBridge
implements it (`told` is read off the receipt, `written` counts what Apple Notes did).

### ModelRegistry - the models an execution may call

The registry database has two writers, the settings process and the gateway's model
management; `log` is all it has held.  `Enter`, `Notified`, `Leave` are
`execution_scope` with the refresh in front; `Look`, `Execute`, `Refuse` a management
command with its optimistic commit; `OpenPage`, `SetRole`, `Apply`, `ReadSource`,
`BackUp`, `Replace`, `Ask`, `Answered`, `ReplaceFails`, `Withdraw`, `Withdrawn` a save
with its reload and the withdrawal of both.

### Scheduler, WakeReservoir - two durable registers of a loop

Scheduler: the file of jobs is rewritten whole before memory changes; `Tick` starts a
task for each due job, `Finish` commits what it did, across whose awaits the user adds
and cancels; `Restart` and `Load` repair what was missed.  `EarlyAdds` lets a turn run
before `Load`, which the code allows (section 6).  WakeReservoir: `Flush*` tells the
sources what is settled, `Ingest` stores what they offer, which may be anything again,
`Decide*` and `Expire` choose, `Send` and `Consume` settle.

### ShellExecutions, Subagents - what a turn leaves running

ShellExecutions: the spawn lock lets `Launch`, `PruneKills`, `PruneDrops`, `Spawn`
exclude `Sweep*` (`terminate_owner`); `WriteStdin`, `WaitEnds`, `WaiterRemoves`, `Stop*`
and `TimeoutFails` take no lock and await between reading the register and removing the
entry.  A kill may stay unconfirmed.  Subagents: a slot is taken without an await
(`Spawn`), the done callback gives it back (`Forget`), `Cancel`, `CancelTold` and
`CancelCut` are the three stretches of `cancel`, and `WaitCut`/`WaitEnds` are an
interrupted `spawn_sync`.  A cancellation ends the worker (`CancelHits`) unless it meets
the clean-up of an agent that failed, where it is dropped (`CancelLost`, section 6).

### Composition

Modules that share nothing are checked in one instance of TLC: `MCRuntime`, `MCControl`,
`MCDelivery` and `MCServices` have a variable `part` that names the module a behaviour
runs; the others stay in an initial state.  Where names allow it, the module extends its
parts, and takes the others as instances.  The behaviours of such a module are the union
of those of its parts, each padded with constant variables, so an invariant holds in it
iff it holds in each part, and properties of one part are either stated for it
(`part = "..." => ...`) or true of any initial state.  Fairness is sound under
this union because each fair action either names its part or is not enabled in
the initial state its part rests in.  `MCRuntime` and `MCDelivery` add `Rest`, a stutter of
the parts that may end, which keeps the deadlock check alive for the turns and the snapshots.

`ConversationRuntime` and `MaintenanceGate` share `_accepting_turns`: in the
first anybody may set it at any time (`SetAccepting`), in the second its three
owners do; whatever they do to it, the first allows, so its properties hold under
them.  `InboundHandoff`
uses the runtime through `start_turn`, its result and `recover_in_progress_turns`,
with the guarantees that `ConversationRuntime` checks (one result per turn,
recovery leaves no open row).  `ChatLane` is below both and below `OutboundQueue`, which
enters a lane with `mark_passive_send_pending` and leaves it through `run_passive`.
`SnapshotStore` meets them only through its leases: a turn, or a background subagent, is
a holder that acquires before it runs and releases after it ended.  `PluginRollout` takes
the store's guarantees (a replaced snapshot drains when its last lease ends) as one
action, `Drained`.  `Deployment` meets `MaintenanceGate` through the lease: "drained" is
the answer `PreparedMeansQuiet` is about.

## 3. Runs

| run | instance | distinct states | checks |
|---|---|---|---|
| `runtime_safety` (MCRuntime) | 3 turns, 2 threads, 2 sizes, limits 2 turns / 3 bytes, store writes may raise, symmetric; 2 units, 3 generations, 2 upsets; 3 events of 5 numbers, queue of 2, 2 faults | 457 099 | the turns, the compaction ledger, the durable events, and the refinement `KeepsPromise` |
| `control` (MCControl) | 1 chat, a turn, a queued and 2 direct replies, 2 pushes, 2 objects; 2 turns and a lease at the gate; 2 turns on 2 threads without store errors; 2 replies, one awaited, 2 failures; fair | 120 753 | lanes, gate, resolution of turns, outbound queue |
| `delivery` (MCDelivery) | 2 turns, 1 subscriber, 4 events a turn, 2 retained; 2 commands in 2 sessions, pages of 1, 2 crashes, 2 faults, 1 expiry; 2 plugins, 3 snapshots, a turn and a fork, 1 fault; fair | 372 744 | replay, mobile handoff, plugin snapshots |
| `services` (MCServices) | see below | 1 360 102 | nine services beside the turns |
| `runtime_two_answers`, `gate_drain_holds`, `replay_silent_gap`, `handoff_interrupted`, `snapshot_once`, `scheduler_early`, `subagents_cancelled`, `rollout_boot` | smaller or equal instances | - | one statement of the repository each, which the code does not keep (section 6) |

The properties, by hazard:

- *Two actors on one turn.* `OneLiveTurnPerThread` although
  `_release_turn_ownership` pops the thread's owner without looking whose it is;
  `InterruptBeforeSeal`: an interrupt never discards an answer that is being
  committed; `AcceptedTurnsResolve`: every accepted turn resolves, and an interrupted
  unstarted task does not leave its row behind.
- *Several ways out, one account.* `ResultAgrees`, `AdmissionExact`,
  `PredecessorsOpen`, `KeepsPromise`: every exit of a turn, store errors and recovery
  included, settles the same books.
- *Several owners of one gate.* `GateIsOrderly` (the gate is closed exactly while
  somebody holds it, "drained" means quiet, a committed restart cuts nothing off) and
  `GateIsLeft` (a commit is final, a holder that disappears is timed out): lease, restart
  and settings restart may be requested, expire, be cancelled and time out in any order.
- *Bounded logs and queues.* `ReplaysAreHonest`,
  `StreamsEnd`: two trims and an overflow, with a consumer of any speed.
  `EventsReachDevices`: cursors, windows and barriers over lost links and restarts.
- *Objects forgotten and remade.* `OneSender`, `CountsMatch`, `PushesYield`,
  `PushesInOrder`, `WaitersMove`: cancellations at any wait, tickets that are
  never served, objects made anew between two calls.
- *Failures of a send.* `RepliesAreAccounted`: a receipt is true, no excuse is sent for a
  reply whose sender will try again, a reply keeps its place until the observer heard of
  it.  `SendersAreAnswered`: a waiter is answered or cancelled.
- *Crashes between commits.* `OwnersAreExact`, `OnceAndNeverLost`, `RowsAreAnswered`: a
  command may be resent, recovered twice, answered and not deleted, deleted late.
  `LedgerStands`: any two steps of a compaction may be cut apart.  `RolloutIsHonest`:
  journal, pointers, manifest and fact at every point of a rollout.
  `DeploymentsAreHonest`: a kill between switch and record.  `NothingIsToldTwice`,
  `SourcesHearOfAll`, `PeriodRunsOnce`, `OnlyCancelRemoves`: registers behind a restart.
- *Shared generations, overlapping drains.* `NothingInUseIsDisposed`, `ReportsAreTrue`,
  `UnusedAreDrained`: several snapshots drain while others are published, leased and
  forked, drains fail or are cancelled with the procedure that waits for them.
  `AdmissionIsExact`, `WaitersMove`: the pause of admission, on every way out.
- *Links that lose messages.* `LedgersAgree` and `KeepsPromise` (notes),
  `ReloadsAreHonest` (answers without a number).
- *Two writers, one reader.* `ModelsAreHonest`.
- *Register read, then awaited.* `CommandsStayOwned` and `SubagentsAreHonest`: an entry,
  a slot or a snapshot may not go before what lives in it, and of a job announced as
  cancelled at most an error is announced after that.

Where two invariants of a part answer one question, a run states their conjunction under
one name (`GateIsOrderly`, `ReportsAreTrue`, `RolloutIsHonest` and so on); the parts keep
their own names and comments in the modules.

**Bounds and why they are enough.**  Two threads, commands or turns make two
owners of one thing; the third turn makes a turn that arrives while one ends and
one waits, and a chain of three attempts.  `MaxBytes` below the sum of two large
requests lets the byte limit bind before the turn limit.  `MaxEvents` = 4 with two
retained events and a global limit of 3 bytes lets each trim cut the turn that
publishes and the other one.  Two pushes make a cancelled ticket ahead of a live one
(one in the middle of three is covered by the proof); two objects make one that is
forgotten while another lives.  A page of
one row makes a backlog larger than a page out of two commands; two crashes make
a recovery of a recovery.  Three snapshots of two plugins give two retired ones that
share a generation with each other and with the current one; one of the plugins is
installed and so is staged and promoted, the other is replaced at once.  The fault is a
drain or a promotion that fails, or a cancelled retry or lease wait; the safety properties
are proved for any number of faults, and the liveness runs have one to repair.

Compaction: three generations make one that is withdrawn under another and a third built
on what is left; two upsets are any two of a crash, an edit and a deletion.  Events: a queue of two
overflows with the third event; two faults are a loss during the recovery from a loss.

`services`: notes 1 operation with 2 faults (operations share only the one call at a time
of the broker; any number of both is proved); settings 2 configurations, 3 requests, 3 boots; scheduler 2 jobs, interval
2, grace 1, lead 2, time to 4, 1 stop (a job that runs early, on time and late around a
restart); wake 1 alert, 2 contents, 3 cuts; rollout 2 turns and an operator, 2 revisions,
2 transactions, 2 deaths (a boot that is itself cut off); deployment 3 commits (a run
superseded by the next); shell 3 executions in a register of 2, 1 session, 1 call;
models 2 executions, 3 changes, 4 generations; subagents 2 background and 1 synchronous
job for 2 slots, 2 cancels.  The names `Max...`, with `LastCommit`, are the only counters
capped in guards; turns, calls, jobs and commands are finite because each id is used once.

**Fairness.**  `control`: `RunStep` and `ReapQueued` of each turn are weakly
fair, since the loop runs every ready callback and an executor ends (its provider
calls and tools have timeouts); the watchdog and the expiry task of the gate are
`asyncio.sleep`s; in a lane notified waiters run, sends and turns end; the dispatcher
goes on, a shutdown that began goes on, and a failed task ends the application
(`_run_primary_tasks`).  Store errors, crashes, interrupts, failing sends and the
beginning of a shutdown are not fair, and the properties except a closed runtime.
`delivery`: a consumer keeps taking; the service manager starts the process again, lanes
and delete retries go on; faults and crashes are bounded and unfair.  The liveness of the
handoff excepts what the code itself gives up: a fatal store error, a command its lane
dropped, a page full of dropped ones.  In its snapshots a started procedure goes on, drain tasks
and notified waiters run, a disposal ends (`aclose` and `terminate` of a plugin are taken
to end), and so does every turn; beginning a procedure, failing and cancelling are not
fair.  `runtime_safety` and `services` check safety and refinement without fairness.

**Deadlock** is checked for the turns (`runtime_safety`) and the snapshots (`delivery`).  The others stop where the
program really may be idle: all events published and read, every call made, every
command answered, every service at rest.

## 4. Proofs

| theorem | says, for every value of the constants |
|---|---|
| `RuntimeProofs!TypeCorrect` | `Spec => []TypeOK` |
| `OneLiveTurn`, `ResultsAgree`, `AdmissionIsExact`, `ChainsAreOpen` | the invariants of the turns in `runtime_safety` |
| `NoRowIsOrphaned` | the safety half of `AcceptedTurnsResolve`: while every store write succeeds, an open row is its thread's active turn |
| `TerminalsAreFinal`, `InterruptsPrecedeSeal`, `OnlyShutdownCancels` | action properties: a terminal is never overwritten, a sealed turn is not interrupted, only a shutdown ends a turn as cancelled |
| `RuntimeProofs!Implements` | `Spec => KeepsPromise` |
| `HistoryProofs!LedgerInvariant`, `RuntimeProofs!LedgerStaysSound` | the inductive invariant of the compaction below, and `LedgerStands` of `runtime_safety` |
| `HistoryProofs!EventsInvariant`, `RuntimeProofs!EventsReachEveryDevice` | the inductive invariant of the durable events below, and `EventsReachDevices` of `runtime_safety` |
| `ControlProofs!GateInvariant`, `GateStaysOrderly` | `GateIsOrderly` of `control`, and the inductive invariant `GInv` it needs |
| `ControlProofs!CommitsAreFinal` | the safety half of `GateIsLeft` |
| `ControlProofs!TypeCorrect`, `OneAtATime`, `NothingIsLost`, `PushesWaitForPassive`, `PushesKeepTheirOrder` | every safety and action property of the lane |
| `ControlProofs!LanesStayOrderly` | the same properties of the lane, beside the other parts of `control` |
| `ControlProofs!RepliesInvariant`, `RepliesStayAccounted` | `RepliesAreAccounted` of `control`, and the invariant it needs |
| `SnapshotStoreProofs!SnapshotInvariant` | the inductive invariant of the snapshots below |
| `InUseIsNeverDisposed`, `AdmissionStaysExact`, `ReportsStayTrue` | the three invariants of the snapshots in `delivery` |
| `NotesProofs!NotesInvariant` | the inductive invariant of the bridge below |
| `ServiceProofs!LedgersAlwaysAgree`, `ToolsKeepTheirPromise` | `LedgersAgree` and the refinement `KeepsPromise` of `services`; `NotesProofs` has both of the bridge by itself |
| `ServiceProofs!SubagentsInvariant`, `SubagentsStayHonest` | `SubagentsAreHonest`, and the invariant it needs |
| `ServiceProofs!ModelsInvariant`, `ModelsStayHonest` | `ModelsAreHonest`, and the invariant it needs |
| `BackgroundProofs!RegisterInvariant`, `PeriodsRunOnce`, `OnlyCancelsForget` | `PeriodRunsOnce`, and that no cancelled job comes back and a loaded file forgets only cancelled ones, for `Interval` a positive natural |
| `BackgroundProofs!CancelsRemove` | `OnlyCancelRemoves`, which also needs that nothing is added or cancelled before the file is loaded (`EarlyAdds = FALSE`; the code does not ensure it, section 6) |
| `BackgroundProofs!ReservoirInvariant`, `NeverToldTwice`, `SourcesAreTold` | both reservoir properties |
| `BackgroundProofs!SettingsInvariant`, `ReloadsStayHonest` | `ReloadsAreHonest` of `services`, and the invariant it needs |
| `BackgroundProofs!DeployInvariant`, `DeploymentsStayHonest` | `DeploymentsAreHonest` of `services`, its action property included, and the invariant it needs |
| `HostProofs!ShellInvariant`, `CommandsStayWithOwners` | `CommandsStayOwned` of `services`, its action property included, and the invariant it needs |
| `HostProofs!RolloutInvariant`, `RolloutStaysHonest` | `RolloutIsHonest` of `services`, its three action properties included, and the invariant it needs |
| `HostProofs!HandoffInvariant`, `OwnersStayExact`, `CommandsRunOnce` | `OwnersAreExact` and `OnceAndNeverLost` of `delivery`, and the invariant they need |

The theorems of HostProofs are about `ExecSpec`, `RolloutSpec` and `HandoffSpec`, the
specifications of the three parts: a behaviour of `services` or `delivery` that runs a part
is one of its specification, and one that does not leaves the variables of the part as they
began.

*The runtime.*  None of its invariants is inductive alone.  `IInv` adds to
`TypeOK` what the code keeps implicitly: which row, owner and future go with each
point at which a task is suspended (`TaskMatchesRow`), that an owner entry has a task
of its thread (`OwnerHasTask`), that whoever is past `lock()` is sealed
(`PastLockIsSealed`), that a pending cancellation has a cause - an interrupt before
the seal, or shutdown (`CancelHasCause`), what was told about each row
(`ToldMatchesRow`), that a row not yet created is named by nothing (`RowsExist`),
that a predecessor has no task that could still complete it
(`PredecessorsClosed`), and that a dead process holds nothing (`DownIsEmpty`).
`OneLiveTurnPerThread` then follows because `owner` is a function.
`AdmissionIsExact` is a second induction on top of `IInv`: the cardinality of
`Admitted` moves by one in step with `liveObjects`, by `FiniteSetTheorems`.
`NoOrphanRow` is a third: with a store that does not fail, every step by which a turn
leaves its thread writes its terminal first, and recovery closes the rows a crash left
open before the owner accepts a turn.  The preservation proof has one lemma per action.

*The refinement.*  `Init` maps to `Init`; each step, under `IInv`, maps to the step of
`TurnPromise` named in section 2 or to a stutter.

*The gate.*  `GInv` adds to `TypeOK`, `GateMatchesOwners` and `PreparedMeansQuiet` what
each holder relies on: under a lease nothing starts, so the drain knows every task that
still runs (`DrainCoversActive`); under a pending restart only the turn that asked for it
runs (`OnlyTheOwnerRuns`); and what the coordinator recorded of that turn is so
(`FlagsAreTrue`).  That a committed restart cuts nothing off is then a consequence.

The theorems are about `ControlSpec`: whatever part runs, the variables of the gate and
those of the lane change by their own steps only.  `None` must be nobody (`NoneIsNobody`).

*The compaction.*  What a prompt tells is decided by the whole line of generations behind
the cursor, so `LedgerInv` speaks of all of them, the withdrawn ones included.  Each goes
on where its parent's summary ended and leaves no live row out (`GenerationsSound`); a
summary in force tells only what generations in force consumed (`ToldByActive`) and these
name no deleted turn (`ActiveIsLive`); a parent in force has no other generation in force
between it and its child (`LineEnds`).  The fence keeps the same of the checkpoint that may
become a generation (`FenceSound`), and the running turn of the units its next
checkpoint may consume (`TurnSound`).  `Summarised` is a recursive function over the
line: that there is one (`LedgerTells`) is part of the invariant, and that two functions
that satisfy its equation are equal is an argument by a least counterexample, so no
induction over data is needed.

*The events.*  `EventInv` follows the numbers from the database to the device.  The frames
on the wire continue the last one the device handled, one by one or by a reset
(`WireSound`); what is sent next continues the wire (`TipSound`), through the frozen window
or through the queue, which holds all that was published since the connection was
registered (`QueueSound`), in the order of its numbers; the barrier of a
command is ahead of the drain task or behind what it sent (`BarrierSound`).  `device.last`
is below the next number unless the database was outgrown (`DeviceSound`), which the
property excepts.

*The lane.*  `IInv` says that a caller inside a call holds the object its chat has
now (`HeldIsRegistered`: this is why a forgotten object cannot come back), that a
spare object is blank and a registered one is needed (`SpareIsBlank`,
`NothingLeaks`), that the users, the flag and the counts of an object are those of
the callers inside (`FitUsers`, `FitFlag`, `FitCounts`), and that every ticket from
`serving` on belongs to exactly one push inside or is cancelled, the served one to a push that
is not cancelled (`FitTickets`).  That the skip over cancelled tickets ends is an
argument by a least counterexample (`WellFoundedInduction`).

*The replies.*  `OutInv` says that a reply is in one place only - in the queue once, or in
the hands of the dispatcher - and what has not been done to it there (`Untouched`: not
shown, excused, settled or reported).  A receipt is then true because
at "settle" the dispatcher remembers of this reply whether it was shown
(`DispatcherFits`), and nobody will touch it again once it was observed.

*The scheduler.*  A period is run once because the time on an enabled job is past every
run of it that was committed (`TimesAhead`), and a task in flight holds the job exactly
as the register does unless it was cancelled (`FlightMatches`).  The arithmetic of the
next period is two lemmas on division.  That the file holds *all* that was
accepted and not cancelled is a conjunct of its own (`NothingForgotten`), conditional on
`EarlyAdds = FALSE`: without it a turn before `Load` writes a file of one job, which is
`scheduler_early`.  What is left then is `OnlyCancelsForget`: memory is empty or equal to
the file (`SInv`), so only a commit made before `Load` can drop what was not cancelled.

*The reservoir.*  What was sent stays "consumed"; what was let go stays "pending_expiry"
until its tombstone stands for it (`RowsRemember`), so that an offer finds one or the other.

*The settings.*  Neither signal nor answer carries a number, so `SettingsInv` relates the
file to the last thing the gateway read: once no request waits to be taken, the gateway has
a signal to read the file, is loading it, runs with it, or has refused it
(`LastReadIsFile`).  An answer belongs to the generation the supervisor holds because at
most one reading is under way, and only for a held generation (`OneReading`); a request that
was given up while its answer was due breaks exactly this (`Lost`), and stays the
exception of the property.  `HeldFit` says that a held generation is unanswered and, unless
a newer request waits, the last.

*The deployment.*  `DeployInv` says, step by step of `run_once`, what link and record are.
They agree but for the stretch from the switch to the record, or to the link moved back,
where the link names the candidate and the record what the link named before (`LinkFits`); a kill
there sets `cut`, and no later run gets past its first check.  The record is a release that
answered its health check, and from the drain on it is the base of the candidate
(`RecordFits`); a drained service has nothing to do while the lease lasts (`QuietFits`).

*The snapshots.*  A snapshot in use is safe because of what everything else must still do,
so the invariant is mostly about what is owed.  `StoreInv` does not look at the procedure:
the counts are those of the leases (`CountsMatch`); a drain runs only for a retired or
aborted snapshot without leases (`Drains`); no generation of a live snapshot has been begun
(`LiveRight`); and a generation that is not closed is owed by a snapshot in use, by one
whose drain has yet to come to its plugin, or by one that disposes it now
(`EveryGenerationOwed`).  The last is what several drains over shared generations need:
each of them disposes what no other snapshot holds, and passing a generation over is right
because another snapshot then owes it.  The other parts say, await by await, what
the one procedure may rely on: `Pointers` and `ReadyRight` (what is committed is stable or
latest), `Publishing`, `Promotes`, `Finishing`, `Dropping` (its candidate), `Paused` (where
admission is closed and no lease is left), `TrackedRight` (what is in use and neither stable
nor latest is on record as draining) and `Removing`: a removal that retries has in its wait
the drain of every snapshot that still holds a generation it is done with.
`RemovedAreClosed` follows from that and `EveryGenerationOwed`.  There is a lemma per
action; that `Min` of a non-empty set exists is well-foundedness.

*The notes.*  Each party sees its own ledger only, so `NotesInv` says what a ledger lets it
conclude about the others.  The Mac (`MacInv`): its rows agree with the notes, a request
before its script has its row in "executing" and has changed nothing, after it the
reconcile command may have settled the row as "committed", and every
answer on the link is true.  The cloud (`CloudInv`): a write whose audit row is before the
commit boundary is at most reserved on the Mac **and no commit of it is on its way**; a rejected one is so too,
unless its script refused it and the row says so; what is called settled is settled on the Mac; the one call under way is at a step its own audit
row allows (`CallFits`).  `LedgersAgree` follows.  `Init` maps to the promise's `Init`, and
each step, under `NotesInv`, to one of its steps or a stutter: only the service's steps
(`Create`, `StartWrite`, the two that settle, `Reconcile`, `Cancel`) touch a receipt and
only `MacScript` writes a note, all else is a stutter.
The two theorems are carried to `services` by showing that every behaviour of
`ServiceSpec` is, on the variables of the bridge, a behaviour of NotesBridge.

*The subagents.*  `SpawnInv`: slots, registered tasks and live workers are one set of jobs
(`SlotsFollow`); a snapshot is held or on its way back only where the worker's stage allows
(`SnapshotsFit`, `DownIsEmpty`); before a shutdown a chat has heard of a job before its task
is cancelled or ends (`HeardFirst`); and a job announced as cancelled has that cancellation
ahead of it, lost it in the clean-up of a failed agent, or is past its own announcement
(`CancelledStays`), which is why a result never follows "cancelled".  That an error may
follow is `subagents_cancelled`.

*The executions.*  A register that several calls clean up at once is right because of what
each call saw before it let the lock go: who is about to remove an entry saw its process
end, or its failure noted for the owner (`RemovesFit`); a launch that prunes has room as
soon as its victim has no entry, whoever removed it (`RoomFits`); what runs has an entry
or was reported to its owner (`SeenFits`); and what a cleanup has yet to end is on its list,
since nobody launches while it holds the lock (`LockFits`, `SweepFits`).  The register is a
list without repetitions (`Listed`), which a removal and a move to the end keep
(`WithoutIs`, `UsedIs`); the register has room for one entry at least (`RegisterHasRoom`,
which `__init__` demands).

*The rollout.*  What the next boot loads is decided by the disk alone, so `RolloutInv` says
for every point between two durable writes what the disk is.  At most one transaction is
neither promoted nor given up, and while the process runs it is the ready candidate or the
one being staged (`CandidateFits`); as long as it lasts, the pointers are its base and its
revision, its base twice, or, once its promotion or its dropping is in the journal, its
revision twice (`PointersFit`).  The other parts add what each procedure knows while it
holds the lock: which phase goes with which stretch of a staging (`StagingFits`), that a
transaction is left "committed" only until the call that committed it goes on
(`TrackFits`), how far the promotion or the dropping of the ready candidate is
(`ReadyFits`), and what the call and the operation of the turn rely on (`CallFits`,
`OperationFits`: the candidate of an operation that is to be switched is the ready one, and
was tried).  A dead process remembers nothing (`MemoryFits`), so a death keeps
the parts that speak of the disk and makes the others vacuous; the boot then settles each
transaction from its phase and the pointers.  That the stable pointer moves by right and
that a fact is true are then read off the step, under the invariant.  The proof has a lemma
per kind of step, over one about what a transition of the journal leaves alone (`Advance`).

*The handoff.*  `OneOwner` says that a command at work has its one owner and an owner its
row; a page that gives a second owner to a row would break it only steps later, when both
objects are completed.  `HandoffInv` adds what makes it inductive: a lane holds commands of
its own session, each once and not the one it works on (`LanesFit`, so an item that is
dropped is nowhere else); only the row of a delivered answer is being deleted again, and its
owner is still there (`CleaningFits`); a turn record is there exactly for what ran, so the
lane starts nothing twice (`RunsFit`, `StepsFit`).  A page of the recovery, the lane's
completion, the retried delete and the start of the worker are one lemma (`PagesKeep`): rows
with a delivered answer go, and rows that nobody owns are queued.  It rests on `KeptIs`, which
says what a filtered sequence keeps: the rank of a position among those kept is an injection
between two sets of one size, hence onto.

*The models.*  `LeaseInv`: the count of a generation is the number of executions that run
with it.  `Known`: whatever is shown, decided upon or kept as a backup was once in
the database, and an execution that waits for its notification was shown models that were the
latest since it entered.  A command that finds its revision then finds the models its
author saw - unless a withdrawn revision was used again, so the honest part of `ModelInv` is
`Reused \/ Honest`: the first case is the exception the property has, and once true it
stays true.

*Assumptions*: the named `ASSUME`s of the modules (limits are positive naturals, sizes
positive, the "none" values differ from the others, callers finite and of one kind),
which the runs evaluate (those of the compositions are `NoneIsNobody`, `BoundsAreNumbers`,
`CommitsAreNumbered` and `NoFileIsNoConfig`; the rollout's, `RolloutIsBounded`, gives it a
revision and at most the operator to ask for it), and those written into a
theorem: the bounds are naturals (NotesProofs, HistoryProofs), `Interval \in Nat \ {0}`
(Scheduler) and, in `CancelsRemove` alone, `EarlyAdds = FALSE`.

`Contiguous`, `InOrder` (DurableEvents), `Results` (SettingsBridge), `PruneCandidate` and
`RegisterWithout` (ShellExecutions) and `Kept` (InboundHandoff) are defined by the positions of what they look for, and not with
`SelectSeq`, `SortSeq` or `Remove`, because the provers have no definition of those, or one
by a fold.

*Only model-checked*: all liveness (`AcceptedTurnsResolve`, `GateIsLeft`, `StreamsEnd`,
`WaitersMove`, `RowsAreAnswered`, `UnusedAreDrained`, `SendersAreAnswered`), since the
prover has no rules for fairness and `ENABLED`; and TurnReplay
(`ReplaysAreHonest`), whose trims sum the sizes of a sequence of events: what they leave for
every log is an induction over data, which this prover cannot do.

## 5. What is left

In order of what it would add:

1. **Event bus** (`bus/event_bus.py`): the order of events behind a snapshot admission,
   and what `close` cancels.
2. **Operator uninstall** in PluginRollout, which no turn owns, and the manager's `close`.
3. **Session store**: undo and deletion against an admitted turn, beyond what
   CompactionLedger has of them.

## 6. Where the code and its documentation disagree

Each with a run whose counterexample shows it:

- `runtime_two_answers`: a turn that failed, was cancelled or was cut off after
  its transcript was committed is continued by the next one, which appends a
  second terminal assistant to the interaction; `docs/projectneed.md:450` speaks of
  the unique one.
- `gate_drain_holds`: the end of a lease or of a pending restart reopens admission
  while a settings restart still waits for a running turn (`runtime.py:1609`).  With none
  running the restart is committed in one step, and the flag no longer matters.
- `replay_silent_gap`: a cursor whose every event was trimmed is answered with
  neither events nor a notice (`runtime.py:1308`).
- `handoff_interrupted`: a command that ran, but left no message, is reported as
  interrupted and safe to retry (`channel.py:690`).
- `snapshot_once`: two drains whose snapshots share a generation both dispose it, so
  its `terminate()` is called twice, also after its scope was closed
  (`manager.py:1259`); ADR 0008 line 67 says that resources are cleaned up once.
- `scheduler_early`: a job added before the scheduler has loaded its file overwrites every
  registered job (`scheduler.py:653`); `docs/design/persistence-state-map.md:92` lets only
  a cancel remove one.
- `subagents_cancelled`: `SubAgent.run` keeps the error of an agent that failed when its
  shell clean-up raises, so a cancellation that arrives there is dropped
  (`subagent.py:227`) and the job, announced as cancelled, is announced as failed too;
  `agent/tools/spawn.py:196` says that the event of a cancelled job is "cancelled".
- `rollout_boot`: a death while a replaced version still drains and a second candidate has
  begun, or an uninstall has disabled the plugin, leaves a journal no boot gets past
  (`manager.py:910`, `:1001`); the rollout design promises recovery from any crash point.

Read while modelling, without a run of their own.  Turns and snapshots:

- `reconcile_disabled_and_drain` may return while a scope is still closing.  The second of two
  drains that dispose a generation finds its scope marked closed (`scope.py:169` sets
  the mark before the cleanups run), forgets the generation, and a repeated removal then
  sees nothing to wait for.  `RemovedAreClosed` therefore speaks of calls that found
  a generation to wait for; the erratum of ADR 0008 asks it of every retry.
- The same call reads `_draining_generations[plugin_id]` after an await; when the
  drain has ended by then it raises `KeyError` (`Finish` ends in `Idle`).
- A drain task cancelled before its first step never leaves `_drain_tasks`
  (`drain = "lost"`): until a lease of its snapshot is released, every
  `retry_drains` raises `CancelledError`, which the watcher's `except Exception`
  does not catch.
- In `_publish_prepared`, `begin_publish` and the journal's "validating" are outside
  the `try`: if one of them raised, admission would stay paused.
- After a store error a turn gives its thread back with an open row, and the next
  attempt continues it; `docs/projectneed.md:548` wants the terminal first.
- `quiesce_and_drain` gathers without `return_exceptions`; a task cancelled unstarted
  makes it raise (`runtime.py:1461`).  `wait_for_turn_boundary` is applied by
  `ControlService.start_turn` alone.  A subscriber that joins a turn abandoned without a
  terminal waits on a queue nobody writes (`runtime.py:1268`).

Plugin rollout:

- An install binds `_pending` after its owner turn may have ended, and a cut install
  leaves a ready candidate without an owner (`turn_rollout.py:67`; ADR 0026 lines 16, 18).
- After a rejected promotion whose pointers had moved, a death after "discarding" makes the
  next boot write "候选已丢弃，原版本保持可用" (`manager.py:1010`) while the rejected
  candidate is the stable one: `FactsAreTrue` excepts `MovedAndRejected`.  A death in the
  first phases of an in-place change writes the same although the boot loads the new source.
- `load_all`'s docstring promises to rebuild the latest candidate, but "restore_candidate"
  is never produced.  A death between the installer's pointer write and `begin` leaves a
  version that the watcher stages without an owner; one between manifest and removal,
  followed by a reinstall, leaves a candidate in "discarding" until the next restart.

Links and devices:

- Two lookups of one note share the id `find-<op>` (`service.py:713`); the Mac refuses the
  second as a conflict and the connection is dropped.
- A reload answer that comes after its wait was given up is credited to the next
  generation (`supervisor.py:512`): `AnswerIsFreshUnlessLate` excepts it.
- A mobile database restored from a backup and then outgrown by new events leaves the
  device believing it is caught up (`gateway.py:817`): `NothingIsMissed` excepts `outgrown`.
  An acknowledgement between `send_text` and `mark_sent` closes the connection.
- An observer that raises ends the dispatcher and with it the application
  (`bus/queue.py:782`, `bootstrap/app.py:122`); replies that turns publish after
  `message_bus.aclose` stay in the queue unsent.
- An event that waits for snapshot admission is overtaken by later ones and cancelled at
  close (`bus/event_bus.py:176`).

Host and registers:

- A kill, or a link that cannot be moved back, after the switch leaves `current` and
  `state.json` apart, and every later run refuses (`controller.py:979`; the docstring at
  `:310` says that a failure keeps the old `current`).  The restarts of a rollback cut off
  admitted turns, the rollback's health check uses the candidate's plugin lock, a broken
  worktree must be removed by hand, and `_check_control_ready` does not look which
  release answers.
- After a failed hard timeout the next `_build_result` (`unified_exec.py:546`) removes the
  entry of a process that is not confirmed dead, and a later `terminate_owner` succeeds:
  the properties except executions whose owner was told.
- `restore_from` after a failed save puts the revision back; another commit may reuse it,
  and `_refresh_from_store_if_changed` compares for equality (`registry.py:184`), so the
  withdrawn models stay in use: `ModelsAreHonest` excepts `RevisionReused`.
  `replace_from_llm_config` takes no expected revision, so a save overwrites a concurrent
  commit (`docs/design/model-manager-plugin.md:15`).
- A dashboard edit makes the retained copy of a generation stale, and later commits of the
  session are refused (`bootstrap/dashboard_api.py:1212`).
- A push that was sent before its job's commit is repeated after a restart within the grace
  period (`scheduler.py:660`).
- A cancel of a job that is telling its result, or a second cancel, is announced as well
  (`subagent_manager.py:373`); a second interrupt of `spawn_sync` ends the wait before the
  worker has ended although the log says that its cleanup is confirmed (`:224`); a shutdown
  loses a result that is being announced.

## 7. Not modelled

`PROJECT.json` gives the reason for each part.  In short: model calls, prompts,
retrieval and memory extraction (data, no protocol); channel adapters, HTTP,
pairing and key handling (external services, cryptography); bundles and the sources an
install fetches (file handling); the MCP client and the host bridge (one request, one
answer over a library); frontend, evaluation and packaging.  What has a protocol of its own
and is still missing is section 5.

## 8. Running

In this directory: `tlc -config <cfg> <module>` with the pairs of
`PROJECT.json` `runs`, among them `Runtime.cfg MCRuntime`, `Control.cfg MCControl`,
`Delivery.cfg MCDelivery` and
`Services.cfg MCServices`; each takes up to four minutes with two workers.  `tlapm
<module>.tla` for `RuntimeProofs`, `ControlProofs`, `HostProofs`,
`BackgroundProofs`, `SnapshotStoreProofs`, `NotesProofs`, `ServiceProofs` and
`HistoryProofs`; the slowest take about five minutes each.
