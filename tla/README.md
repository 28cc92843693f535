# KD4: TLA+ verification of the concurrent parts

KD4 (a Windows-only fork of Codex) is a large Rust workspace. Most of it
transforms data or talks to the operating system and to external services. What
is hard to test in it is a smaller set of coordination protocols: who owns a
lock, an input, a connection, a watch or a turn when tasks interleave, requests
are retried, connections close and the process dies. This directory models those
protocols, checks them with TLC and proves the central results with TLAPS.

Paths below are relative to `src/codex-rs/`. `PROJECT.json` maps every
definition that models code to the lines it stands for.

## 1. Inventory

How the parts meet. A client talks to the app server over a connection. The
dispatcher (`message_processor.rs`) puts a request into the queue of its key
(`request_serialization.rs`), whose drain runs the handler under the gate of the
connection (`connection_rpc_gate.rs`). Handlers register resources that belong
to the connection (watches, processes, subscriptions) and call core. Follow-up
messages of a thread wait in a durable queue (`thread_queue.rs`) until core can
start a turn for them; input receipts make a submission idempotent. In core,
agents run as sessions under one control tree, which limits how many run and how
many stay loaded, and which owns the advisory resource locks agents coordinate
with.

What was looked for in every part: shared state, the processes that touch it,
what can fail or be dropped between two steps, what must hold, what must
eventually happen. The hazards found that way, with the source line where each
one bites and the properties that cover it, are `hazards` in `PROJECT.json`.

| Part | Source | State |
| --- | --- | --- |
| Agent resource locks | `core/src/agent/resource_locks.rs` | modelled: `ResourceLocks`; every critical section of AgentResourceLocks and the life of the runtimes around it; list only reads |
| Thread follow-up queue | `app-server-handlers/src/request_processors/thread_queue.rs` | partly: `ThreadQueue`; all operations, recovery, kicks, pauses, retirement, sealing; revisions, pagination and change notifications are on the plan |
| Durable input receipts | `core/src/session/input_receipts.rs`, `state/src/runtime/input_receipts.rs` | partly: `ThreadQueue`; the start receipts; steer receipts and payload artifacts are not modelled |
| Connection RPC gate | `app-server-rpc/src/connection_rpc_gate.rs` | modelled: `ConnectionRpcGate`; every critical section of the gate and both graces of its shutdown; composed into RequestSerialization |
| Request serialization queues | `app-server-rpc/src/request_serialization.rs`, `app-server-handlers/src/message_processor.rs` | modelled: `RequestSerialization`; enqueue, drain and cancel_for_gate, the two-stage dispatch of thread requests and the closing of connections; key resolution is abstracted to the key it yields |
| File-system watches of connections | `app-server-handlers/src/fs_watch.rs` | partly: `FsWatch`; reservation, blocking setup, commit, worker, unwatch and connection cleanup; the contents of notifications and the cooldown after a failed watcher start are left out |
| Turn start admission and turn lifecycle | `app-server-handlers/src/request_processors/turn_processor.rs`, `core/src/tasks/mod.rs` | not modelled: only the part the queue meets is in ThreadQueue; a module of its own is planned (TurnLifecycle) |
| Agent control: execution slots, residency, registry | `core/src/agent/control/execution.rs`, `core/src/agent/control/residency.rs`, `core/src/agent/registry.rs` | not modelled: planned: AgentExecution, AgentResidency |
| Agent task coordinator and task store | `core/src/agent/task_coordinator.rs`, `agent-task-store/src/lib.rs` | not modelled: planned after agent control |
| Code Mode client, host and runtime | `code-mode/src/lib.rs`, `code-mode-host/src/lib.rs`, `code-mode-runtime/src/lib.rs` | not modelled: planned: the cell protocol between client, host and cell actor |
| Exec server sessions and process transport | `exec-server/src/lib.rs` | not modelled: planned: session recovery and ordered delivery |
| Rollout recorder and thread store | `rollout/src/recorder.rs`, `thread-store/src/live_thread.rs` | not modelled: planned: RolloutRecorder |
| Session, turn loop and tools | `core/src/session/mod.rs`, `core/src/tools/router.rs` | not modelled: the turn loop is driven by the model's answers; its scheduling skeleton may follow TurnLifecycle |
| Model client, HTTP and websocket transport | `model-client/src/lib.rs`, `http-client/src/lib.rs`, `websocket-client/src/lib.rs` | not modelled: I/O and streaming against an external service |
| App-server transport and remote control | `app-server-transport/src/lib.rs` | not modelled: transport I/O; the remote-control sequence tracking is a later candidate |
| Outgoing messages and server requests | `app-server-rpc/src/outgoing_message.rs` | not modelled: later candidate: callbacks of server requests against connection closure |
| Unified exec and PTY processes | `core/src/unified_exec/mod.rs`, `utils/pty/src/lib.rs` | not modelled: operating-system process handling |
| State database | `state/src/lib.rs` | not modelled: SQL over SQLite; the rows the queue uses are variables of ThreadQueue |
| Configuration, features and runtime config | `config/src/lib.rs`, `runtime-config/src/lib.rs`, `features/src/lib.rs` | not modelled: sequential merging of layers, well covered by unit tests |
| Protocol types, projections and schemas | `protocol/src/lib.rs`, `app-server-protocol-types/src/lib.rs`, `app-server-protocol-projection/src/lib.rs`, `app-server-protocol-schema/src/lib.rs` | not modelled: data types and generated schemas, no state |
| Conversation history and context projection | `conversation/src/lib.rs` | not modelled: large data transformations; out of a model checker's reach except for small algorithms |
| Tool artifacts | `tool-artifacts/src/lib.rs` | not modelled: content-addressed storage, file I/O |
| MCP clients and connection manager | `rmcp-client/src/lib.rs`, `codex-mcp/src/lib.rs` | not modelled: external servers; the startup and refresh state machine is a later candidate |
| Hooks, plugins, skills and extensions | `hooks/src/lib.rs`, `core-plugins/src/lib.rs`, `core-skills/src/lib.rs` | not modelled: loading and dispatch of external code |
| Login and authentication | `login/src/lib.rs` | not modelled: external identity service; token refresh is a later candidate |
| Models manager | `models-manager/src/lib.rs` | not modelled: cache refresh, later candidate |
| Sandboxing, exec policy and command analysis | `sandboxing/src/lib.rs`, `execpolicy/src/lib.rs`, `command-analysis/src/lib.rs`, `windows-sandbox-rs/src/lib.rs` | not modelled: policy evaluation over parsed commands and Windows APIs |
| apply-patch, git and file utilities | `apply-patch/src/lib.rs`, `git-utils/src/lib.rs`, `file-search/src/lib.rs`, `file-watcher/src/lib.rs` | not modelled: text and file-system algorithms; the file watcher's registration table is a later candidate |
| Telemetry, analytics and timing | `otel/src/lib.rs`, `analytics/src/lib.rs`, `turn-timing/src/lib.rs` | not modelled: observations only |
| App-server command and process execution | `app-server-exec/src/lib.rs` | not modelled: later candidate: the per-connection process tables and their cleanup follow the pattern of FsWatch |
| App-server clients | `app-server-client/src/lib.rs`, `app-server-test-client/src/lib.rs` | not modelled: clients and test drivers of the protocol |
| Agent graph store and agent identity | `agent-graph-store/src/lib.rs`, `agent-identity/src/lib.rs` | not modelled: storage of parent edges and signing of identities; the edges enter with agent control |
| Cloud configuration, backend and ChatGPT clients | `cloud-config/src/lib.rs`, `backend-client/src/lib.rs`, `chatgpt/src/lib.rs`, `codex-client/src/lib.rs`, `codex-api/src/lib.rs` | not modelled: clients of external services |
| Secrets, keyring and AWS credentials | `secrets/src/lib.rs`, `keyring-store/src/lib.rs`, `aws-auth/src/lib.rs` | not modelled: wrappers of external stores |
| Model providers and local model servers | `model-provider/src/lib.rs`, `model-provider-info/src/lib.rs`, `lmstudio/src/lib.rs`, `ollama/src/lib.rs` | not modelled: provider descriptions and HTTP probes |
| Local sockets, stdio bridge, async and file-system utilities | `uds/src/lib.rs`, `stdio-to-uds/src/lib.rs`, `async-utils/src/lib.rs`, `file-system/src/lib.rs` | not modelled: thin wrappers of operating-system interfaces |
| Prompts, context fragments, feedback and terminal detection | `prompts/src/lib.rs`, `context-fragments/src/lib.rs`, `feedback/src/lib.rs`, `terminal-detection/src/lib.rs` | not modelled: text and environment probing, no shared state |
| CLI, exec front end, SDKs and scripts | `cli/src/main.rs`, `exec/src/lib.rs`, `src/sdk/typescript/src/codex.ts` | not modelled: front ends and packaging without shared state |

## 2. Modules

| Module | Models | Composition |
| --- | --- | --- |
| `ResourceLocks` | `core/src/agent/resource_locks.rs` and the shutdown of runtimes | stands alone |
| `ResourceLocksInvariant` | its inductive invariant, lemmas about its operators | extends `ResourceLocks` |
| `ResourceLocksAcquire`, `ResourceLocksDrop`, `ResourceLocksSessions` | its steps keep the invariant | extend `ResourceLocksInvariant` |
| `ResourceLocksProofs` | the theorems about it | extends these three |
| `ThreadQueue` | `thread_queue.rs` with the core, receipts, listener and connections it meets | stands alone |
| `ConnectionRpcGate` | `connection_rpc_gate.rs` | instantiated by the next two |
| `RequestSerialization` | `request_serialization.rs`, the dispatch in `message_processor.rs`, `connection_closed` | instantiates `ConnectionRpcGate`; implements `OrderedAccess` |
| `OrderedAccess` | abstract: FIFO readers-writer order per key | refined by `RequestSerialization` |
| `FsWatch` | `fs_watch.rs` | instantiates `ConnectionRpcGate` |
| `MC*` | constants for TLC | extend the module they name |

Operators whose comment begins "Mutant of" are altered versions of a definition.
No specification uses them; each shows that a property notices the error.

### ResourceLocks

State: the lock table (`holder`, `token`), the wait queues (`queued`, `ahead`,
`notified`), `pending` waits, one record per `acquire_wait` call in progress
(`pc`, `target`, `reg`, `old`, `cancelled`, `expired`), the life of a runtime
(`shutting`, `retirement`, `released`, `gone`) and the root's `recovery`.

Every critical section of the owner mutex is one action. What happens between
two critical sections is a step of its own: a registration that is dropped after
the mutex was released (`Settle`, `Deregister`), the biased `select`
(`Signalled`, `GiveUp`), a dropped future (`DropFuture`). A `VecDeque` is a set
with the set of waiters ahead of each one, which is what its operations observe
and what the proofs need. Names are ranks; a call reuses two registration
identities because dropping one erases every trace of it.

### ThreadQueue

State: the durable rows (`queue`, `history`, `receipts`), the appended input that
is not on disk yet (`buffered`), core as the queue sees it (`loaded`, `turn`, `status`, `events`, `inProgress`), the holder of the file
lock (`op`), the spawned tasks, the in-memory capabilities (`origins`,
`retiring`), and the connections.

An operation holds the per-thread file lock from `Lock` to `Done`. What it does
between two awaits is one action, so `recover` is four steps (history, the
listener's turn, the agent status, the save) and a start is selection,
publication of the capability (`InsertOrigin`), claim, submission and
acknowledgement; a claim that fails keeps the capability. The row can only
change under the lock, so the operation's copy is the row itself. Crashes and
I/O errors can come between any two steps.

An image add gives the lock back while it seals its input; `preparing` is a bag,
because equal adds seal side by side, each on its own. A pause drops the
capabilities, then reads the row without the lock, then takes the lock
(`pausing` says how far it is). A turn appends its input and publishes the
event, then flushes, then consumes the receipt; the history check of `recover`
flushes a loaded thread in the same critical section in which it looks, and the
end of a turn flushes too, but goes on if that fails.

`Workloads` bounds a run: a behaviour chooses one workload at the start (its
requests, identities, limits and faults) and keeps it, so one run covers several
small mixes instead of their product. `MCThreadQueue` names them.

Three simplifications, with their reasons. A terminal event and the status
precede the release of the turn slot, but a start waits for the finalization of
the old turn, so the end of a turn is one step. The answer of a replayed start
depends on the old turn's terminal event and is a free choice. An unload happens
when no turn is active, its events are drained and no submission is in flight,
as `finish_thread_unload` waits for all three.

### ConnectionRpcGate, RequestSerialization, OrderedAccess

The gate is four variables: `accepting`, the `tracked` tasks, the `aborted` ones
and the `phase` of the connection's shutdown. `abort_handles` is not a variable
of its own: a task has its handle before it may start and until it ends.

A request is one or two jobs, `<<r, "prepare">>` and `<<r, "handle">>`: ordinary
thread requests resolve their key in a global exclusive lane first. `stage` says
where a job is: queued, held by a drain, running in a task of its gate, ended,
done. Only one deque of a `KeyQueues` is ever used, because control requests
have a key of their own (`LaneFor`), so a lane is one sequence. A drain is a
small program: `Refill` holds the mutex and pops, `Launch` is the first poll of
a popped request, `Completed` and `Notified` are the branches of its `select`,
and `Release` is the separate critical section that returns a control slot.
`Notify` is a one-permit flag. `CancelForGate` is one critical section over all
lanes. The outer budget of outstanding requests (`admit_request_work`) and the
resolution of paths are abstracted to which requests arrive with which keys.

The refinement maps `waiting` to the queues, `active` to the jobs a drain holds
and `reads` to the shared reads among them.

### FsWatch

A watch has three parties: the handler of `fs/watch` (`pc`), the blocking setup
(`setup`) and the forwarding worker (`worker`); `native` follows the watcher
handles through their owners, and `entries` is the map. A handler is wrapped in
a `select` with its connection's cancellation, so `DropHandler` may drop it at
any await once the gate is closed; setup and worker go on. Calls for one watch
id run one after the other, which is what `RequestSerialization` provides. A
stop that times out aborts the worker, and an aborted task may be in the middle
of its last step, so `StopEnds` leaves it free to take that step.

## 3. Runs

| Run | Properties | Bounds |
| --- | --- | --- |
| `locks_duplicate_calls` | `TypeOK`, `NoLostWakeup`, `ReleasedHoldsNothing`, `LostOnlyWhenReleasedOrDrained` | 3 calls of 2 runtimes, one lock, 3 tokens (symmetric); one call can be cancelled, one can expire, one runtime dies, the lock can be recovered |
| `locks_order` | `NoWaitCycle` | 3 calls of 2 runtimes, 2 locks; the smallest circle needs two of each |
| `locks_liveness` | `FreeLockIsTaken` | as the first, without expiry and recovery |
| `queue_custody` | `TypeOK`, `NoInputLost`, `ReceiptsAreTrue`, `PendingKeepsEntry`, `OnlyStartResumes`, `DroppedStaysDropped` | workloads `Custody` (2 entries, 2 turns; lost acknowledgements, aborted turns, crashes), `Editing` (2 entries, text and image; update, delete, reorder, start), `Failing` (failing I/O and locks with interrupts, rejections, aborts and crashes), `Evicting` (3 entries in a row with room for one entry or receipt) |
| `queue_identity` | `RecordedOnce`, `OneEntryPerClient`, `ImagesAreSealed` | workloads `Twice` (one client id, 1 entry, 3 turns of which one is started directly; rejections, aborts, crashes, unload), `Sealing` (2 entries with the same client id, text and image input, two adds sealing at a time; add, update, close), `Evicting` |
| `queue_connections` | `ClosedConnectionsAreForgotten`, `RetirementIsFenced` | 2 connections (symmetric), 1 entry; close, unsubscribe, interrupt, I/O errors, unload |
| `queue_liveness` | `FollowUpsSettle` | 2 entries, 3 turns, one started directly; no faults |
| `queue_install` | `CustodyUntilRecorded`, violated | 1 entry, list and add; see Findings |
| `requests_safety` | `TypeOK`, `TotalsAreExact`, `NoStrandedRequest`, `ThreadRequestsInOrder`, `NoTaskOutlivesShutdown`, `ImplementsOrderedAccess` | 2 connections, one closes; any 2 requests of 7 kinds, any 3 of one key, 3 of one thread; limits of 2 requests, 2 readers, 1 control |
| `requests_liveness` | `FreeReaderSlotsFill`, `ControlIsNotBlocked`, `AcceptedRequestsSettle` | the same limits; 5 sequences of 2 or 3 requests |
| `requests_control` | `ControlIsSerialized`, violated | a thread request and an interrupt of the same thread; see Findings |
| `fs_watch` | `TypeOK`, `ClosedConnectionWatchesNothing`, `ActiveWatchesAreKept`, `ReservationsSettle`, `NativeHandlesAreReleased` | any 3 calls for one watch id, or 2 watches at a time competing for 1 setup permit; the connection may close at any point |

The bounds are the smallest at which the interesting cases happen: two calls of
one runtime beside one of another, a writer between two reads, a retry of a
submission that is pending or whose receipt was evicted, two equal adds that
seal at once, a watch id that is reused. Each property is
accompanied by an altered definition (`mutants` in `PROJECT.json`) under which
the same run fails, so each of these cases is reached. Runs turn the deadlock
check off: clients may stop sending, and the bounds stop them.

Fairness is weak fairness of runnable tasks: the calls of `acquire_wait`, the
holder of the queue's lock and its spawned tasks, the listener and a turn's
worker, the drains and launches, the blocking setups and the cleanup of a
connection. tokio polls a task that was woken, and the mutexes involved are held
for bounded critical sections. Nothing is assumed about clients, deadlines,
cancellations, faults or the holders of resource locks. In `requests_liveness`
ordinary handlers are not assumed to return; `AcceptedRequestsSettle` makes that
assumption explicit in its premise.

## 4. Findings

Core acknowledges a start when its worker is installed; the worker publishes
`TurnStarted` afterwards. In that gap neither history, nor the listener's turn,
nor the agent status shows the turn, so `recover` settles its claim as not
recorded and pauses the queue. The input is not lost or recorded twice
(`NoInputLost`, `RecordedOnce` hold), but the comment in `recover` that worker
installation is not enough to release custody does not describe what the code
does (`queue_install`). A consequence: the entries behind such a turn are not
started when it completes, although nothing failed and nobody interrupted,
because the queue is paused; `FollowUpsSettle` therefore allows a paused queue.

A control request (`turn/interrupt`) has a queue and a drain of its own beside
those of its thread, so its handler runs beside an ordinary handler that is
already running. The code wants this, and `ControlIsNotBlocked` depends on it:
"queue priority alone cannot interrupt a handler that is already running"
(`request_serialization.rs`). The doc comment of `ThreadControl` in
`client_requests.rs` says that control work "is still serialized against that
thread"; it is not (`requests_control`).

A pause whose read, save or lock fails leaves an unpaused row whose entries have
no capability. Nothing starts them by accident (`DroppedStaysDropped`); an
automatic start takes the first entry only, so entries added later wait behind
them, in a queue that does not show as paused, for an explicit start.

Met while modelling and not turned into a run: an entry restored after a
rejected start whose receipt was already reserved is answered by replay from
then on; and two app-server processes that share a `CODEX_HOME` can recover each
other's starts in flight.

## 5. Proofs

`ResourceLocksProofs` proves, for any finite set of calls, any runtimes and
tokens and any number of locks:

| Theorem | States |
| --- | --- |
| `TypeCorrect` | `TypeOK` always |
| `WakeupsAreKept` | `NoLostWakeup` always: a free lock with queued waiters has a retry in flight |
| `ReleaseIsFinal` | `ReleasedHoldsNothing` always |
| `WaitsStayAcyclic` | `NoWaitCycle` always |
| `LocksAreNotStolen` | the action property `LostOnlyWhenReleasedOrDrained` |
| `Invariance` | the inductive invariant `IInv` they follow from |

Assumptions: `CallsFinite`, `CallerType`, `NumResourcesType` and `NullsAreFresh`
(the null values are no runtimes, waiters or tokens). Finiteness is needed
because the front of a queue is found by counting the waiters ahead.

Argument. `NoLostWakeup` alone is not inductive: a wakeup in flight is lost if
its addressee disappears without passing it on. `QueueInv` says who is
responsible. Where a call is determines the registrations it owns (`CallsOwn`);
the pending waits are exactly those (`PendingOwned`); only a current one is
queued (`QueuedOwned`); a notified one is owned (`NotifiedOwned`), so its drop
will run `notify_next` again; and the queues are strict orders (`QueueOrdered`),
so `notify_next` finds a front whenever a waiter is left (`FrontExists`).
`NotifyNextServes`, `UnlockServes` and `DropServes` lift that to the operations
that free a lock or a registration. `WaitsOrdered` (a runtime waits only for
locks above those it holds) gives `NoWaitCycle`: a circle of waits would be an
increasing circle of ranks. `DrainFenced` (a holder that was seen drained is
fenced and takes no lock any more) with fresh tokens gives
`LostOnlyWhenReleasedOrDrained`. `NextInv` combines one lemma per kind of step,
which are in `ResourceLocksAcquire`, `ResourceLocksDrop` and
`ResourceLocksSessions`; the proofs are in several modules because the prover
slows down with the size of a module.

Only model-checked: the liveness properties (the prover does not do fairness),
and everything about `ThreadQueue`, `RequestSerialization`, `OrderedAccess` and
`FsWatch`.

## 6. Plan

In order; each step names its module, what it composes with, and its theorems.

1. Proofs for `RequestSerialization`: `NoStrandedRequest` and
   `NoTaskOutlivesShutdown` from an invariant that ties `stage`, `queue`,
   `running` and `tracked` (the last conjuncts of `TypeOK`), then the step
   simulation of `OrderedAccess` for every set of kinds and lanes.
2. Proofs for `FsWatch`: `ClosedConnectionWatchesNothing` and
   `ActiveWatchesAreKept`; both follow from the fence and from reservations
   being unique.
3. `AgentExecution` (`core/src/agent/control/execution.rs`, `registry.rs`):
   permits reserved for a submission, taken by its task, released by guards;
   never more than the limit, none leaked by a dropped submission. Theorem: the
   permits outstanding are the guards alive.
4. `AgentResidency` (`residency.rs`): slots, claims, eviction against a message
   that wakes the agent; composed with `AgentExecution` over the set of agents.
   Abstract specification: a bounded set of loaded agents in which no busy agent
   is evicted.
5. `TurnLifecycle` (`core/src/tasks/mod.rs`, `core/src/state/turn.rs`): start,
   replace, abort and finalization of the active turn; `ThreadQueue`'s `turn`
   becomes an abstraction of it.
6. `RolloutRecorder` (`rollout/src/recorder.rs`, `thread-store`): batching,
   retries of partly written batches, the append lock, crashes between write and
   flush; abstract specification: an append-only log.
7. `QueuePublication`: revisions of the queue row are published outside the lock
   by tasks that may overtake each other.
8. Proofs for `ThreadQueue`: `PendingKeepsEntry` and `ReceiptsAreTrue`.
9. Code Mode's cell protocol, exec-server session recovery, the callbacks of
   server requests, and the process tables of connections, as far as the number
   of runs stays readable.

Small algorithms to check against reference definitions: pagination, reordering
and payload accounting of the queue.
