# Verification of the V.E.L.O.C.I.T.Y. workflow engine

TLA+ models of the durable core of the Rust workflow engine
(`velocity-workflow-engine`), of its admission control and of the ring its
workers call it through, checked with TLC on small instances. Every safety
property, action property and refinement that a passing run checks is also proved
with TLAPS for every value of the constants; liveness is model-checked only.

`PROJECT.json` is the index: components, runs, the map from definitions to source
lines, mutants, findings, hazards and theorems. All paths below are relative to
`src/velocity-workflow-engine/src/` unless they say otherwise.

## 1. The system

A workflow is a numbered sequence of `total_steps` steps. The engine
(`engine.rs`) keeps one `WorkflowContext` per workflow key in a fixed-size pool,
puts the task of the next step in an in-memory task queue, and records what
happens in a write-ahead log. Workers poll the queue, execute the step in their
own process and call `complete_step` (or `complete_step_sync`,
`complete_step_durable`), which logs, applies, and enqueues the next task. After
a crash `recover_from_wal` rebuilds the contexts from the log.

| part | source | what it does |
|---|---|---|
| engine | `engine.rs`, `visibility.rs` | the calls on workflows, recovery |
| context pool | `workflow_slab_pool.rs` | key to context, slots and hash buckets under one mutex |
| task queue | `task_queue.rs` | named queues under one mutex and one condition variable |
| write-ahead log | `wal.rs` | append, background and forced fsync, rotation, replay |
| timers | `timer_engine.rs` | heap of deadlines and a checker thread |
| core data | `../../velocity-workflow-core/src/` | bitmask, slab, CRDTs, arena, transport |
| coordination | `saga.rs`, `durable_promises.rs`, `virtual_objects.rs`, `distributed_locks.rs`, ... | features beside the durable path |
| cluster | `raft_consensus.rs`, `membership.rs`, `shard_controller.rs`, `ndc_replication.rs`, ... | shards, membership, replication |
| limits | `concurrency_limiter.rs`, `rate_limiter.rs`, `circuit_breaker.rs` | admission |
| ring | `../../velocity-nmcp-protocol/src/shmem.rs` | calls of a worker on the same machine, over a file both sides read and write |
| surfaces | `grpc_server.rs`, `ffi.rs`, the servers, the SDKs, the C# layer | requests turned into engine calls |

How they interact: the engine calls the pool, the queue, the log and the
visibility index one after the other, each behind its own lock, and holds no lock
across a call. What the engine promises therefore depends on the order of these
steps and on what other threads, and failures, do between them. That is what the
models are about.

## 2. The modules

| module | role |
|---|---|
| `WorkflowContextPool` | the pool: one action per method (each holds the mutex throughout) |
| `WorkflowMap` | abstract: the `DashMap` the pool stands in for |
| `TaskQueue` | the queues, with `enqueue` cut where it releases a lock |
| `DurableLog` | abstract: an append-only log with a durable prefix |
| `Wal` | the log's files, one file-system call per step of a rotation |
| `WalRefinement` | `Wal` as an implementation of `DurableLog` |
| `WorkflowEngine` | the engine over an abstract log, map and queue |
| `TimerEngine` | timers, callers and the checker thread |
| `DurableSteps` | `complete_step_durable`: workers, the shared batch counter, fsync |
| `ConcurrencyLimiter` | slots for running workflows: counters, limits, overflow queue, locks |
| `ShmemRing` | the ring, one file access per step, with a client and a server |
| `WorkflowContextPoolProofs`, `TaskQueueProofs`, `WalProofs`, `WorkflowEngineProofs`, `TimerEngineProofs`, `DurableStepsProofs`, `ConcurrencyLimiterProofs`, `ShmemRingProofs` | theorems and proofs, one module per component (`WalProofs` is also about `WalRefinement`) |
| `MC*` | instances for TLC: symmetry sets and key sets |

A definition named "Mutant" is a plausible bug of the definition that follows it;
it is used only to confirm that a property notices it.

### WorkflowContextPool

`slots`, `contexts`, `key_index`, `free_list` and `active_count` are the fields
of the pool. `Insert`, `InsertIfAbsent`, `WithMut` and `Remove` are its methods,
`FindKeySlot` its lookup: an empty bucket means absent, a bucket that points
elsewhere leads to a linear scan. A context is an opaque value. Number of buckets
and number of slots are one constant, as in the code.

### TaskQueue

`enqueue` is three steps (`TakeId`, `InsertTask`, `NotifyOne`) because the id,
the deque and the notification are separate critical sections. A poll checks,
takes, waits or returns; waiting gives up the mutex and sleeps in one step, as a
condition variable does. Spurious wakeups and timeouts are one action
(`WakeUnnotified`). `shutdown` marks the queues, then notifies. `oldest_task_at`,
the backlog timestamp, is kept per queue with the updates the code makes on insert
and on a poll, and none where the code makes none. The total counters are left out.

### Wal

A file is an inode with a sequence of records; a record is the number of its
append; a record cut by a power failure is `Torn`. `on_disk` says how much of each
file is certain to survive. `rotate` fsyncs under the writer's lock and then works
without any: each `exists`, `rename`, `remove_file` and `open` is a step, and
threads interleave between them. A power failure leaves any prefix that includes
the durable part, with or without a torn record after it; a process death loses no
bytes but every thread. Directory operations are taken to be durable and in order:
the code does not fsync the directory, so this is an assumption on the file
system.

### WorkflowEngine

| action | code |
|---|---|
| `StartWorkflow`, `StartInsert`, `StartRegister`, `StartLog` | `start_workflow_with_attrs`: task, context, visibility, log record |
| `PollTask` | a worker takes a task |
| `StepLog`, `StepSync`, `StepApply`, `StepNext` | `complete_step` and, with the fsync, `complete_step_sync` |
| `SignalWorkflow`, `SignalApply`, `SignalNext`, `TakeSignal` | signals |
| `CloseWorkflow`, `CompleteWorkflow`, `CloseShow`, `CloseLog` | complete, fail, cancel, terminate |
| `ResetWorkflow`, `ResetShow`, `PurgeWorkflow`, `PurgeHide` | reset and purge, which log nothing |
| `BackgroundSync` | the log's fsync thread |
| `PowerFailure`, `ProcessDeath` | the end of the process, with and without loss of unsynced records |
| `ReplayRecord`, `RecoveryDone`, `RecoveryFails` | `recover_from_wal`; a torn record makes the server start fresh |

Abstractions: a context is its status, its set of completed steps (the bitmask)
and its pending signals; signals and tasks are sets, so equal ones merge; the
queue gives out any task it holds; the log is `DurableLog`'s state (`log`,
`synced`, plus `torn` for the record at the cut). A worker asks for completion
when it receives the task after the last step. `acked` is a history variable: the
steps of current runs that were applied after a forced fsync, each with whether
the workflow's start was already in the log when the step was logged.

The composition is by abstraction. `WorkflowEngine` uses the map of `WorkflowMap`
and the log of `DurableLog`; the runs `pool` and `wal_one` show that the
implementations provide them under stated conditions (no two keys in one bucket;
one appending thread).

### TimerEngine

`schedule` takes its id, reads the clock, pushes and notifies in four steps.
`Wake` may happen at any moment of the wait; `DueWake` is the part of it that has
to happen: a notification or the timeout. The checker is modelled as started.
Outside the tests nothing in the repository calls `TimerEngine::start`.

### DurableSteps

`complete_step_durable` acknowledges a step before it is on disk, unless
`sync_steps` is 0, and calls fsync once per `sync_steps` steps. The append, the
update of the context, the increment of the counter, the fsync and
the reset of the counter are five moments of a worker: `AppendStep` (or
`AppendFails`), `StrictSync` in the strict mode, `Apply` (or `ApplyMissing`),
`Count`, `SyncBatch`, `ResetCounter`. The code drops the results of append and
fsync; `io` remembers that one failed. Whether the flush interval has passed is
any boolean. The log is reduced to how far it is on disk.

### ConcurrencyLimiter

A key is one request for a slot, with its type and its namespace; `Dims` are these
two. `acquire` tests the global count (`Acquire`), the limit of each dimension
(`CheckLimit`), and counts in three more moments (`CommitGlobal`, `CommitDim`);
`handle_overflow` queues or rejects, with the lock of the full dimension still
held. `release` subtracts in three moments and runs `try_dequeue` (`Dequeue`,
`DequeueCheck`, `GiveUp`), which holds the queue's lock while it takes the
others. `lock` says which call holds which lock from one step to the next.
`global_active` wraps at `Word`, the others saturate at zero. Every key is acquired
and released once: that is the discipline the limiter asks of its callers.

### ShmemRing

| action | code |
|---|---|
| `BeginCall`, `SlotIsFree`, `SlotWaitEnds` | `call` reads `write_idx` and waits for the slot, at most 100000 polls |
| `WritePayload`, `WriteLen`, `WriteReady`, `AdvanceWriteIdx` | the request, in the order of the code |
| `ReplyIsReady`, `ReplyIsError`, `ReplyWaitEnds`, `ReadLen`, `ReadPayload`, `Consume` | the wait for the answer, also at most 100000 polls, and the return |
| `ServerStart`, `ClearSlot` | `run` sets `write_idx` to 0 and the slots to EMPTY, one write after the other |
| `SeeRequest`, `Claim`, `ServerReadLen`, `ServerReadPayload` | the server sees REQ_READY, writes PROCESSING, reads, and has the router execute the request |
| `ServerWriteLen`, `ServerWritePayload`, `ServerWriteReady`, `SeeConsumed` | the answer, and the wait without bound for EMPTY |
| `ServerReadFails`, `CallFails`, `ServerStop` | an access fails, the worker dies, the server is shut down or dies |

The two processes share only the file, so one access of it is one step. A payload
and a length field are represented by the frame they belong to; a payload read with
another frame's length may or may not parse. A wait that runs out is an action that
is enabled as long as the awaited state is not there: the number of polls and the
pauses between them are left out. Names of calls are reused when no byte stems from
their last use, which keeps the state finite for any number of calls; `executed`,
`disturbed` and `late` are history variables. There is one call at a time, the
SPSC use that the source documents. `call` takes `&self` and no lock: two calls at
once read the same `write_idx` and write one slot, which is outside this model.

## 3. The runs

Passing runs:

| run | checks | bounds and why they are enough |
|---|---|---|
| `pool` | slots conserved, index sound, stored workflows found, refinement of `WorkflowMap` | capacity 4, keys of distinct buckets, two contexts: the pool fills, empties and reuses slots in every order |
| `tq_safety` | conservation of tasks, priority order, no overtaking, no expiry of tasks without deadline | 3 tasks, 3 priorities, 2 queues, 2 enqueuers, deadline on or off: three tasks exercise insertion before, between and after |
| `tq_live` | no lost wakeup, no task stranded beside a blocked poller, shutdown releases | one queue, 2 enqueuers, 2 pollers, 3 tasks: more tasks than pollers, notifications overtaking polls |
| `wal_one` | sync's promise, retention, eventual durability, refinement of `DurableLog` | 6 records of one-record files, `retain_count` 2: the oldest file is deleted repeatedly; one power failure at any step |
| `wal_two` | record order and the missing path under overlapping rotations | 2 appenders, 4 records, one power failure and one process death |
| `engine` | survival of fsynced steps, no unlogged step, exact recovery | one key, 2 steps, 2 threads, 2 calls besides the workers', one power failure and one process death: every pair of calls on one workflow overlaps, cut off anywhere, recovery itself included |
| `durable` | how many returned steps a power failure can take back, how far the counter runs | 2 workers, strict mode and batches of 3, 6 records, one power failure: both workers are between fsync and reset at once, twice over |
| `limiter` | counts exact, overshoot of the limits, the queue's content, calls return | 5 requests of two types in one namespace, 2 threads, a global maximum of 2, limits 1 and 3, a queue of one, reject or queue: every limit is the binding one in some state |
| `ring` | at most one execution per run of the server, own answers, the two sides meet again | 2 slots, any number of calls and of waits that run out, one fault anywhere: calls go round the ring under a busy server; 560,000 states |
| `timers` | each timer has one fate, fires once and not early, pending timers fire, shutdown stops the checker | 2 callers, 2 timers, delays 0 and 2, a wait of at most 1, clock up to 3 |

One key is enough for the engine because no action touches two keys except
through the sequence of the log, which the theorems cover for any keys.

Runs that are expected to find a violation, each a statement of the
repository's own documentation that the code does not keep:

| run | the statement | what happens |
|---|---|---|
| `wal_overwrite` | `wal.rs:379`, each file moves to the next number, only files beyond `retain_count` are deleted | two threads rotate at once; the second renames the path over `.wal.1` |
| `engine_resume` | `engine.rs:886`, recovery "re-executes the rest" | recovery queues no task; a workflow that was running stays running and is never worked on |

Three further configurations are kept beside these. Each is run in the same
way and ends in a counterexample:

| configuration | the statement | what happens |
|---|---|---|
| `MCPoolReachable.cfg` (`MCWorkflowContextPool`) | `workflow_slab_pool.rs:539`, collisions are handled | `remove` empties the whole bucket; the other key of the bucket is no longer found though its slot is active. Its slot can then be neither read nor freed by key, and inserting the key again makes a second entry |
| `MCEngineEarly.cfg` (`MCWorkflowEngine`) | `engine.rs:837`, "Guarantees the step is durable on disk before returning" | the task is queued before the start is logged; a step completed and fsynced in between precedes its workflow's start in the log and recovery skips it |
| `MCTaskQueueSharedCondvar.cfg` (`MCTaskQueue`) | `task_queue.rs:98`, "Wakes one waiting poller on the matching queue" | all queues share one condition variable and `notify_one` may wake a poller of another queue; the task waits beside its sleeping poller |

The passing runs state what does hold in these places: `ReachableUnlessColliding`;
`StartedStepSurvives`, for every step logged after its workflow's start record;
`NoStrandedTask` for one queue.

Deadlock checking is off where the system may rest: an engine without callers or
tasks, timers after shutdown, workers and limiter when the bounded number of steps
or requests is used up. `TypeOK` of `TaskQueue`, `TimerEngine` and `ShmemRing` says
what their variables range over and is in no run.

### Fairness

- `TaskQueue`: weak fairness of a thread inside `enqueue` or `poll` and of the
  second half of shutdown. The mutex is held for one step only. No fairness for
  new calls, spurious wakeups or timeouts.
- `Wal`: weak fairness of the background fsync thread, which loops until
  shutdown, and of a rotation once begun.
- `WorkflowEngine` (`FairSpec`, for `Resumes`): calls that began go on, recovery
  goes on, and a worker that polls again and again gets a task if there is one
  again and again (strong fairness of `PollTask`, because other workers take tasks
  between two polls). New calls are nobody's duty.
- `ConcurrencyLimiter` (`FairSpec`): of the threads inside a call that are not
  blocked, some thread runs. Nothing is assumed of the callers.
- `ShmemRing`: a call that has begun goes on, since all its loops are bounded, and a
  server that runs goes on. No fairness for new calls and restarts.
  `Resynchronises` has its own premises: from some time on the server is up and no
  wait of a call runs out while the server has work to do, which is what the wait of
  100000 polls (up to a millisecond each) is meant to allow for.
- `TimerEngine`: the checker is scheduled, its timed wait ends, time passes.

## 4. What is proved

All theorems are about the specifications TLC runs, for every value of the
constants that satisfies the modules' assumptions (bounds included: they are
arbitrary natural numbers).

**Pool** (`WorkflowContextPoolProofs`; assumes a positive capacity, keys that are
natural numbers, a `None` that is not a context). Besides `TypeCorrect`, the inductive invariant
`PoolInv` adds `Linked` to the properties: without collisions, the bucket of a
live slot's key points to that slot. From it `SlotsConserved`,
`IndexNeverDangles` and `AllReachableWithoutCollisions`. Slot conservation needs
the distinctness of the free list to push and pop without duplication; index
soundness needs that a removed slot is reachable only from its own bucket.
`PoolIsAMap`: without collisions the pool implements `WorkflowMap`, where a key is
mapped to the context its lookup finds; an insert into a full pool is a stutter.

**Task queue** (`TaskQueueProofs`; any finite sets of queues, enqueuers and pollers,
any priorities, deadlines and number of tasks). Two facts about the deque come
first. `RetainKeeps`: `retain` leaves a subsequence that has every live task.
`PlacedAt`: a task with a priority is inserted behind tasks that are all at
least as urgent and, unless it goes last, directly in front of a less urgent one.
The first is proved by induction over the deque, the second from the least position
of a less urgent task. `QueueInv` adds to
the properties that an id is in one place only (`IdsOnce`), that it was handed out
(`IdsIssued`), what a queue's counters say of its deque (`Counted`) and what the
backlog timestamp can be (`Numbered`). The results:

- `UrgentTasksFirst` and `BacklogAge`;
- `OrderKept` and `DeadlineFreeKept`, the action properties `NoOvertaking` and
  `NeverExpires`;
- `TasksConserved`, which needs in addition that the counters of all queues add up
  (`Totals`; a sum over a set, by induction over its size);
- `SleepersCovered`: with one queue and a poller asleep there are no more tasks than
  polls awake and notifications on their way together. Each step is accounted
  for by the sizes of these sets.

**Log** (`WalProofs`; assumes `retain_count` of at least 1). `WalInv` adds
`Numbered` (no record is newer than the counter), `DistinctFiles` (no two names
lead to one file) and `WriterNewest` (the file being written, while it has a
name, is the newest). With these an append goes after everything, and a rename
moves a whole file one place up without passing another. `ReplayInOrder` and
`PathHasOneOpener` hold for any number of overlapping rotations and failures:
overlapping rotations can lose records, they cannot reorder them.

Three theorems state as a hypothesis that there is one appender
(`OneAppender`), and two of them that the process does not die alone
(`MaxKills = 0`; power failures remain). `wal_overwrite` and section 6 say why
they do not hold otherwise.

- `OldestDeleted` (`OnlyOldestDeleted`), from `RotationInv`: a rotation moves a file
  to a name that is free.
- `SyncedStaysDurable` (`SyncedIsDurable`), from `DiskInv`: every file but the one
  being written is on disk to its last record, and so is that one from the
  rotation's fsync until the next file is opened.
- `FilesAreOneLog` (`ImplementsLog`), from `LogInv`: the files, read oldest first and
  joined, are `DurableLog`'s sequence. An append extends the joined sequence,
  renames leave it alone, deleting the oldest file drops a prefix, and a
  power failure cuts it behind its durable part. What joining does is
  proved by induction over the number of files.

**Engine** (`WorkflowEngineProofs`). `DurabilityInv` consists of

- `TypeOK`, and `Quiet`: nobody is inside a call during recovery;
- `InFlight`: what a thread between logging and applying its step may rely on.
  The record is in the log; if the start was logged before, it comes after the
  start; after the fsync both are in the synced prefix;
- `AckedOnDisk`: every acknowledged step of a started workflow is in the synced
  prefix after its start;
- `RecoversTheLog`, `StepsAreLogged`, `StartedStepSurvives` themselves.

Most actions are `Harmless`: they extend the log, complete no step, and take none
away that they do not also remove from `acked` (`StartFrame`, `CallFrame`). The
steps of `complete_step` are treated one by one. A failure keeps the synced prefix
(`FailureInv`); `OneMoreRecord` and `ReplayRebuilds` show that replaying one more
record rebuilds exactly what one more record says; at the end of the log the
contexts have every step of `AckedOnDisk`. The results are `StartedStepsSurvive`,
`AppliedStepsAreLogged`, `RecoveryIsExact` and `TypeCorrect`.

**Batched steps** (`DurableStepsProofs`; any finite set of workers, any batch sizes).
`LossIsBounded`: as long as no append and no fsync failed, the steps that were
acknowledged and are not on disk number at most `sync_steps - 1` per worker, none
in the strict mode. `OneWorkerLosesOneBatch` gives the bound the code's doc
promises, for a single worker. `CounterIsBounded`: the counter passes the batch size by
less than the number of workers. `DurableInv` shares the loss out: `LossInv` bounds the exposed
steps, plus those the batch still takes, by `sync_steps - 1` for each worker that
has no counter to reset. A worker that has called fsync leaves that set, and may come
back with a new batch when it sets the counter to zero. `CounterInv`: every
increment past the batch size belongs to a worker that has yet to reset the counter.

**Limiter** (`ConcurrencyLimiterProofs`; any finite set of keys
smaller than the word, any limits and policies, any number of threads).
`CountersAgree` alone does not bound anything: a request that has passed the check is
not counted yet. The inductive invariant `LimiterInv` therefore bounds the slots
together with these reservations (`Passed`, `PassedDim`): a
reservation is made only below the limit, and there are never more requests in
flight than threads (`BusyInv`). `HolderInv` and `QueueInv` say which call holds
which lock at which place and that only the head of the queue is being admitted,
which `try_dequeue` needs to count it once; `EntryInv` that a request that passed
the check of a dimension has its entry, unless it was queued. Results: `CountsExact`,
`GlobalBound`, `LimitBound` (for limits other than zero: a dequeued request whose
type has no entry is admitted without a look at the limit), `QueueExact`,
`TypeCorrect`.

**Timers** (`TimerEngineProofs`; any sets of callers and delays, any horizon).
`TimerInv` says that an id that was handed out is in exactly one of six places, held
by its `schedule` call, in the heap, popped, fired, cancelled or dropped
(`OnePlace`), and once within it (`OncePerPlace`), and that what was popped has
expired (`CheckerInv`). It gives `TimersAccountedFor` and `FiresOnce`. The pop of a
whole batch needs that a finite heap has an order in which each entry occurs once,
and the checker's wait that a set of times has a least element.

**Ring** (`ShmemRingProofs`; any number of slots and of faults; at least four names,
so that a call finds one no trace is left of). `RingInv` consists of

- `TraceInv`: frames of a call are in its own slot, or in the server's memory while
  the server is there. The fresh name of a call (`FreshName`) follows from it;
- `ExecInv`: a request still in the file was not executed yet, but for the one the
  server is answering, which it writes over before it looks at the slot again;
- `LateInv`, `IdxInv`: where a slot was freed under the server's hands, `write_idx`
  has moved on by no more slots than `late` has counted;
- `OwnInv`: what the slot of an undisturbed call holds at each of its accesses, and
  where the server is. Either the request goes through the server's own accesses
  one by one (`InService`), or the server has been on an earlier request for a full
  round.

`ExecutedAtMostOnce` is `AtMostOnce` and `OwnAnswers` is `AnswerIsOwn`. One lemma
per file access shows that it keeps `RingInv`.

Where a proof needs induction, it is over a set of numbers: the set of those for
which the claim fails has no least element. `WalProofs`, `TaskQueueProofs` and
`ConcurrencyLimiterProofs` carry the few facts they use of the libraries as a
definition (`LeastElements`, `SetFacts`, `KeySizes`) that their lemmas assume; the libraries'
theorems establish it at the end of the module, and no theorem depends on it.

## 5. What is only model-checked

Liveness (`NoStrandedTask`, `ShutdownReleases`, `EventuallyDurable`,
`TimersFire`, `ShutdownStops`, the limiter's `CallsReturn`, the ring's
`Resynchronises`): fairness and `ENABLED` are outside the prover's reach. The violation
runs are counterexamples and need no proof.

## 6. Seen while modelling, without a run of its own

- Starting a closed key again replaces its context, but recovery keeps the first
  (`insert_if_absent`), so the second run comes back closed.
- Reset and purge are not logged; recovery undoes them.
- Two closers, or a closer and a start, may leave different statuses in the pool
  and in the visibility index.
- Closing and starting are logged after they are applied, although `wal.rs:2`
  says that events are logged first. `StepsAreLogged` is that sentence for steps,
  where it holds.
- A torn record fails the whole replay, and the server starts fresh. The
  survival properties exclude it (`~torn`).
- A signal that was taken is delivered again after recovery, and a signal to a
  closed workflow, ignored at the time, reappears. `RecoversTheLog` states what
  recovery does.
- `complete_step_durable` resets its counter of unsynced steps with a store that
  may come after another thread's increment. With two workers more than
  `sync_steps` acknowledged steps can be lost, against the doc's "lose at most
  `sync_steps` steps" (`LoseAtMostSyncSteps` of `DurableSteps`, not in a run);
  `LossBounded` is the bound the code keeps.
- The limiter's `acquire` takes the queue's lock while it holds the lock of a
  dimension; `try_dequeue` takes them the other way round. Two calls can block each
  other for good (`LockCycle`); `CallsReturn` says that nothing else blocks.
- A request queued because of the global limit, before its type had an entry, is
  admitted without being counted for its type.
- `grpc_server.rs` releases a slot when a worker completes a workflow, not when it is
  cancelled or terminated, and may release before the start has acquired.
- A call over the ring whose wait for an answer runs out returns what the slot holds,
  as a rule its own request, as a successful answer. No one compares the sequence
  numbers that `shmem.rs:17` says are "for response matching".
- Over the ring, a request can be executed twice across a restart of the server: a
  call that gave up waiting for its slot writes its request while the server, on
  an earlier sight of REQ_READY, is about to read that slot; the server executes it
  and dies, the next one clears the slot, and the call then marks it REQ_READY.
- `continue_as_new` uses the run id as the new key and logs nothing.
- `TaskQueue::shutdown` does not release pollers of queues that nothing was ever
  enqueued to; `ShutdownReleases` is stated for the queues it marks.
- Records appended while a rotation is under way go to the renamed file, and no
  later fsync reaches it; and after a process restart an explicit sync does
  nothing until something is appended. `SyncedIsDurable` is therefore checked
  with one appender and without process deaths.
- The fire callback installed by `init_timers` records the timer in the history;
  the doc of `schedule_timer` (`engine.rs:2401`) says a task is enqueued.

## 7. Not modelled

The map covers the log, the queue, the timers, the limiter and the ring nearly
whole, the pool the engine uses, and about a fifth of `engine.rs`. That is a little
over one percent of the code in the tree, chosen because every durable workflow
passes through it.

In the engine: activities with timeouts and retries, updates, child workflows, `continue_as_new`, `signal_with_start`, the
PostgreSQL journal, archiving, statistics. The older `WorkflowSlabPool`, which the
engine no longer uses for workflows. Byte formats and checksums, except for their
result (intact or torn). The rest of the tree is listed in `PROJECT.json` with a
reason for each part: query languages, wire formats and API surfaces are
conversions; persistence adapters and transports are input and output; the
Temporal-shaped second implementation of workflow state is not what the engine
runs on.

Most of the remaining parts hold nothing for a model checker to find. Sagas, durable
promises, virtual objects, leases, schedules, breakers and registries are tables
behind a lock, and the engine's durable path does not use them. The Raft tier (`raft_consensus.rs`) keeps terms and a
log on one node; no module sends its messages or counts votes, so there is no
protocol to check yet. Of the CRDTs the counter merges two scalars by maximum and the
set has no removal; neither is replicated by any code. Replication and sharding are
libraries that no server of the repository runs.

## 8. Running

    tlc -workers 2 -config MCEngine.cfg MCWorkflowEngine
    tlapm WorkflowEngineProofs.tla

The run's module and configuration are paired in `PROJECT.json`. The longest runs
take one to two minutes; the longest proofs, `TaskQueueProofs`, `WalProofs` and
`ConcurrencyLimiterProofs`, five to eight minutes each, the others one to two.
A leaf names its prover (`Zenon`, `SMTT`, `ZenonT`) where the default order of provers
would spend its time limit on the one that does not find the proof, or needs more
than the default time on a busy machine.
