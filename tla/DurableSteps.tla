---------------------------- MODULE DurableSteps ----------------------------
(***************************************************************************)
(* complete_step_durable (engine.rs): worker threads append every step to  *)
(* the write-ahead log and share one counter that decides who calls fsync. *)
(* The append, the update of the workflow, the increment of the counter,   *)
(* the fsync and the reset of the counter are five separate moments, under *)
(* different locks or none.                                                *)
(*                                                                         *)
(* A step is the number of its record.  The log is the one DurableLog      *)
(* promises, reduced to how far it is on disk.  Whether flush_interval_ms  *)
(* has elapsed is left open: any clock is covered.                         *)
(***************************************************************************)
EXTENDS Integers, FiniteSets

CONSTANTS
  Workers,        \* threads that complete steps
  SyncModes,      \* the values of durability_config.sync_steps considered
  MaxRecords,     \* bound on the number of appends
  MaxFailures     \* bound on the number of power failures

ASSUME DurableAssumption ==
  /\ IsFiniteSet(Workers) /\ Workers # {}
  /\ SyncModes \subseteq Nat /\ MaxRecords \in Nat /\ MaxFailures \in Nat

VARIABLES
  sync_steps,         \* durability_config.sync_steps; 0 is the strict mode
  appended,           \* number of records ever appended
  synced,             \* the records up to this one are on disk
  steps_since_sync,   \* the shared counter
  worker,             \* thread -> where it is in the call, and its record
  returned,           \* history: steps applied whose call has returned
  io,                 \* history: "failed" once an append or fsync failed
  failures

vars == <<sync_steps, appended, synced, steps_since_sync, worker, returned,
          io, failures>>

Places == {"idle", "strict", "apply", "count", "sync", "reset"}
NoRecord == 0
Idle == [at |-> "idle", rec |-> NoRecord]
At(t, pc) == worker[t].at = pc
GoTo(t, pc) == worker' = [worker EXCEPT ![t].at = pc]

\* The call of t returns, its step applied.
Returns(t) ==
  /\ worker' = [worker EXCEPT ![t] = Idle]
  /\ returned' = returned \cup {worker[t].rec}

Init ==
  /\ sync_steps \in SyncModes
  /\ appended = 0 /\ synced = 0
  /\ steps_since_sync = 0
  /\ worker = [t \in Workers |-> Idle]
  /\ returned = {}
  /\ io = "ok"
  /\ failures = 0

-----------------------------------------------------------------------------
(* One call, in program order *)

AfterAppend == IF sync_steps = 0 THEN "strict" ELSE "apply"

AppendStep(t) ==
  /\ At(t, "idle")
  /\ appended < MaxRecords
  /\ appended' = appended + 1
  /\ worker' = [worker EXCEPT ![t] = [at |-> AfterAppend, rec |-> appended']]
  /\ UNCHANGED <<sync_steps, synced, steps_since_sync, returned, io, failures>>

\* `let _ = wal.append(...)`: the call goes on with nothing in the log.
AppendFails(t) ==
  /\ At(t, "idle")
  /\ worker' = [worker EXCEPT ![t] = [at |-> AfterAppend, rec |-> NoRecord]]
  /\ io' = "failed"
  /\ UNCHANGED <<sync_steps, appended, synced, steps_since_sync, returned, failures>>

\* `let _ = wal.sync()`: what was appended so far is on disk, or the error
\* is dropped.
SyncLog ==
  \/ synced' = appended /\ UNCHANGED io
  \/ io' = "failed" /\ UNCHANGED synced

\* Strict mode: the fsync comes before the step is applied.
StrictSync(t) ==
  /\ At(t, "strict")
  /\ SyncLog
  /\ GoTo(t, "apply")
  /\ UNCHANGED <<sync_steps, appended, steps_since_sync, returned, failures>>

\* The workflow is in the pool: its context takes the step.
Apply(t) ==
  /\ At(t, "apply")
  /\ IF sync_steps = 0 THEN Returns(t)
                      ELSE GoTo(t, "count") /\ UNCHANGED returned
  /\ UNCHANGED <<sync_steps, appended, synced, steps_since_sync, io, failures>>

\* It is not: the call returns before it has counted anything.
ApplyMissing(t) ==
  /\ At(t, "apply")
  /\ worker' = [worker EXCEPT ![t] = Idle]
  /\ UNCHANGED <<sync_steps, appended, synced, steps_since_sync, returned, io,
                 failures>>

\* Mutant: a batch is full one step too late.
ThresholdLate(count) == count > sync_steps

Threshold(count) == count >= sync_steps

\* The increment, and the decision taken on the value it returned.
Count(t) ==
  /\ At(t, "count")
  /\ steps_since_sync' = steps_since_sync + 1
  /\ \E elapsed \in BOOLEAN :
       IF Threshold(steps_since_sync') \/ elapsed
       THEN GoTo(t, "sync") /\ UNCHANGED returned
       ELSE Returns(t)
  /\ UNCHANGED <<sync_steps, appended, synced, io, failures>>

SyncBatch(t) ==
  /\ At(t, "sync")
  /\ SyncLog
  /\ GoTo(t, "reset")
  /\ UNCHANGED <<sync_steps, appended, steps_since_sync, returned, failures>>

\* Mutant: the batch is taken off the counter, which the clock may have cut
\* short.
SubtractBatch == steps_since_sync - sync_steps

\* Mutant: the counter is never reset.
KeepCounter == steps_since_sync

ResetValue == 0

\* The counter is set to zero whatever was counted since the fsync.
ResetCounter(t) ==
  /\ At(t, "reset")
  /\ steps_since_sync' = ResetValue
  /\ Returns(t)
  /\ UNCHANGED <<sync_steps, appended, synced, io, failures>>

-----------------------------------------------------------------------------
(* The log's own fsync thread, and a power failure followed by a restart: *)
(* a new engine with its counter at zero                                  *)

BackgroundSync ==
  /\ synced # appended
  /\ synced' = appended
  /\ UNCHANGED <<sync_steps, appended, steps_since_sync, worker, returned, io,
                 failures>>

PowerFailure ==
  /\ failures < MaxFailures
  /\ failures' = failures + 1
  /\ worker' = [t \in Workers |-> Idle]
  /\ steps_since_sync' = 0
  /\ synced' = appended
  /\ io' = "ok"
  /\ UNCHANGED <<sync_steps, appended, returned>>

\* complete_step_durable
CompleteStep(t) ==
  \/ AppendStep(t) \/ AppendFails(t) \/ StrictSync(t)
  \/ Apply(t) \/ ApplyMissing(t)
  \/ Count(t) \/ SyncBatch(t) \/ ResetCounter(t)

\* with_durability_config is applied when the engine is built.
Next ==
  \/ \E t \in Workers : CompleteStep(t)
  \/ BackgroundSync
  \/ PowerFailure

Spec == Init /\ [][Next]_vars

-----------------------------------------------------------------------------
\* Type correctness; in particular no step is returned, and nothing is on
\* disk, beyond what was appended.
TypeOK ==
  /\ sync_steps \in SyncModes
  /\ appended \in 0 .. MaxRecords
  /\ synced \in 0 .. appended
  /\ steps_since_sync \in Nat
  /\ worker \in [Workers -> [at : Places, rec : 0 .. appended]]
  /\ returned \subseteq 0 .. appended
  /\ io \in {"ok", "failed"}
  /\ failures \in 0 .. MaxFailures

\* The steps a power failure would take back although their call returned.
Exposed == {r \in returned : r > synced}

\* The doc of complete_step_durable promises "lose at most `sync_steps`
\* steps".  A thread that has called fsync still has the counter to reset,
\* and by then the counter may describe steps that its fsync did not cover:
\* the reset forgets them.  What the code keeps is one batch less one step
\* for every worker, and nothing at all exposed in the strict mode, as long
\* as no append and no fsync has failed.
LossBounded ==
  io = "ok" =>
    IF sync_steps = 0 THEN Exposed = {}
    ELSE Cardinality(Exposed) <= Cardinality(Workers) * (sync_steps - 1)

\* The counter (an AtomicU32 that is only ever incremented or set to zero)
\* reaches past the batch size by less than the number of workers: every increment
\* beyond it is made by a worker that must itself reset the counter before
\* it counts again, an fsync that fails included.
CounterBounded ==
  steps_since_sync < sync_steps + Cardinality(Workers)

\* What the doc says, for comparison: it holds for one worker, not for two.
LoseAtMostSyncSteps ==
  io = "ok" => Cardinality(Exposed) <= sync_steps
=============================================================================
