--------------------------- MODULE WorkflowEngine ---------------------------
(***************************************************************************)
(* The engine's durable path (engine.rs): starting a workflow, completing  *)
(* its steps, signalling, closing, resetting and purging it, and the       *)
(* recovery from the write-ahead log.  A call takes several steps under    *)
(* different locks; calls of different threads interleave between them.    *)
(*                                                                         *)
(* The log is the abstract one of DurableLog: a sequence of records of     *)
(* which a prefix is certain to be on disk.  The pool of contexts is a     *)
(* map, as WorkflowMap has it; the task queue hands out any task it holds. *)
(***************************************************************************)
EXTENDS Integers, Sequences

CONSTANTS
  Keys,          \* workflow keys
  Clients,       \* threads calling the engine, workers included
  TotalSteps,    \* total_steps of every workflow
  Payloads,      \* signal payloads
  Closings,      \* the closing statuses in use
  MaxCalls,      \* bound on the calls that are not a worker's
  MaxFailures,   \* bound on power failures
  MaxDeaths      \* bound on process deaths

ASSUME EngineAssumption ==
  /\ TotalSteps \in Nat /\ MaxCalls \in Nat /\ MaxFailures \in Nat /\ MaxDeaths \in Nat
  /\ {"Completed"} \subseteq Closings
  /\ Closings \subseteq {"Completed", "Failed", "Canceled", "Terminated"}

VARIABLES
  pool,      \* key -> WorkflowContext
  visible,   \* key -> status in the visibility index
  tasks,     \* the task queue
  log,       \* the write-ahead log
  synced,    \* number of its records certain to be on disk
  torn,      \* a power failure cut a record short
  serving,   \* FALSE while recovering
  cursor,    \* records replayed so far
  thread,    \* client -> where it is inside a call
  calls, failures, deaths,
  acked      \* history: steps of the current runs, applied after their fsync

vars == <<pool, visible, tasks, log, synced, torn, serving, cursor, thread,
          calls, failures, deaths, acked>>
disk == <<log, synced, torn>>
control == <<torn, serving, cursor, failures, deaths>>

Steps == 0 .. TotalSteps - 1
Statuses == {"Absent", "Running"} \cup Closings

Absent == [status |-> "Absent", done |-> {}, signals |-> {}]
NewContext == [status |-> "Running", done |-> {}, signals |-> {}]
Present(k) == pool[k].status # "Absent"

WorkflowTask(k, i) == [kind |-> "workflow", key |-> k, step |-> i]
SignalTask(k) == [kind |-> "signal", key |-> k]

Started(k) == [event |-> "started", key |-> k]
StepCompleted(k, i) == [event |-> "step", key |-> k, step |-> i]
SignalReceived(k, p) == [event |-> "signal", key |-> k, payload |-> p]
Closed(k, how) == [event |-> "closed", key |-> k, how |-> how]

Idle == [at |-> "idle"]
Logged(r) == \E n \in DOMAIN log : log[n] = r
Forget(k) == {p \in acked : p.key # k}

Init ==
  /\ pool = [k \in Keys |-> Absent]
  /\ visible = [k \in Keys |-> "Absent"]
  /\ tasks = {}
  /\ log = <<>> /\ synced = 0 /\ torn = FALSE
  /\ serving = TRUE /\ cursor = 0
  /\ thread = [c \in Clients |-> Idle]
  /\ calls = 0 /\ failures = 0 /\ deaths = 0
  /\ acked = {}

\* A call that no task of the queue asked for.
NewCall(c) ==
  /\ serving /\ thread[c] = Idle
  /\ calls < MaxCalls
  /\ calls' = calls + 1

GoTo(c, where) == thread' = [thread EXCEPT ![c] = where]
Move(c, pc) == GoTo(c, [thread[c] EXCEPT !.at = pc])

-----------------------------------------------------------------------------
(* start_workflow_with_attrs: the task first, the log record last *)

StartWorkflow(c, k) ==
  /\ NewCall(c)
  /\ tasks' = tasks \cup {WorkflowTask(k, 0)}
  /\ GoTo(c, [at |-> "start:insert", key |-> k])
  /\ UNCHANGED <<pool, visible, log, synced, control, acked>>

StartInsert(c) ==
  /\ thread[c].at = "start:insert"
  /\ pool' = [pool EXCEPT ![thread[c].key] = NewContext]
  /\ acked' = Forget(thread[c].key)
  /\ Move(c, "start:register")
  /\ UNCHANGED <<visible, tasks, log, synced, control, calls>>

StartRegister(c) ==
  /\ thread[c].at = "start:register"
  /\ visible' = [visible EXCEPT ![thread[c].key] = "Running"]
  /\ Move(c, "start:log")
  /\ UNCHANGED <<pool, tasks, log, synced, control, calls, acked>>

StartLog(c) ==
  /\ thread[c].at = "start:log"
  /\ log' = Append(log, Started(thread[c].key))
  /\ GoTo(c, Idle)
  /\ UNCHANGED <<pool, visible, tasks, synced, control, calls, acked>>

-----------------------------------------------------------------------------
(* complete_step and complete_step_sync, called by a worker for its task *)

PollTask(c) ==
  /\ serving /\ thread[c] = Idle
  /\ \E t \in tasks :
       /\ tasks' = tasks \ {t}
       /\ GoTo(c, [at |-> "working", task |-> t])
  /\ UNCHANGED <<pool, visible, log, synced, control, calls, acked>>

\* Mutant: the append fails, and its error is ignored.
StepNotAppended(k, i) == log

StepAppended(k, i) == Append(log, StepCompleted(k, i))

StepLog(c, strict) ==
  /\ thread[c].at = "working"
  /\ thread[c].task.kind = "workflow" /\ thread[c].task.step \in Steps
  /\ LET k == thread[c].task.key
         i == thread[c].task.step
     IN  /\ log' = StepAppended(k, i)
         /\ GoTo(c, [at |-> IF strict THEN "step:sync" ELSE "step:apply", key |-> k,
                     step |-> i, strict |-> strict, started |-> Logged(Started(k))])
  /\ UNCHANGED <<pool, visible, tasks, synced, control, calls, acked>>

\* Mutant: the fsync is left to the background thread.
NoSync == UNCHANGED synced

ForcedSync == synced' = Len(log)

StepSync(c) ==
  /\ thread[c].at = "step:sync"
  /\ ForcedSync
  /\ Move(c, "step:apply")
  /\ UNCHANGED <<pool, visible, tasks, log, control, calls, acked>>

StepApply(c) ==
  /\ thread[c].at = "step:apply"
  /\ LET t == thread[c]
     IN  IF Present(t.key)
         THEN /\ pool' = [pool EXCEPT ![t.key].done = @ \cup {t.step}]
              /\ acked' = acked \cup IF t.strict
                   THEN {[key |-> t.key, step |-> t.step, started |-> t.started]} ELSE {}
              /\ Move(c, "step:next")
         ELSE GoTo(c, Idle) /\ UNCHANGED <<pool, acked>>
  /\ UNCHANGED <<visible, tasks, log, synced, control, calls>>

NextTask(k, i) == WorkflowTask(k, i + 1)

StepNext(c) ==
  /\ thread[c].at = "step:next"
  /\ tasks' = tasks \cup {NextTask(thread[c].key, thread[c].step)}
  /\ GoTo(c, Idle)
  /\ UNCHANGED <<pool, visible, log, synced, control, calls, acked>>

CompleteStep(c) ==
  (\E strict \in BOOLEAN : StepLog(c, strict)) \/ StepSync(c) \/ StepApply(c) \/ StepNext(c)

-----------------------------------------------------------------------------
(* signal_workflow and take_signal *)

SignalWorkflow(c, k, p) ==
  /\ NewCall(c)
  /\ log' = Append(log, SignalReceived(k, p))
  /\ GoTo(c, [at |-> "signal:apply", key |-> k, payload |-> p])
  /\ UNCHANGED <<pool, visible, tasks, synced, control, acked>>

SignalApply(c) ==
  /\ thread[c].at = "signal:apply"
  /\ LET t == thread[c]
     IN  pool' = IF pool[t.key].status = "Running"
                 THEN [pool EXCEPT ![t.key].signals = @ \cup {t.payload}]
                 ELSE pool
  /\ Move(c, "signal:next")
  /\ UNCHANGED <<visible, tasks, log, synced, control, calls, acked>>

SignalNext(c) ==
  /\ thread[c].at = "signal:next"
  /\ tasks' = IF Present(thread[c].key) THEN tasks \cup {SignalTask(thread[c].key)} ELSE tasks
  /\ GoTo(c, Idle)
  /\ UNCHANGED <<pool, visible, log, synced, control, calls, acked>>

TakeSignal(c) ==
  /\ thread[c].at = "working" /\ thread[c].task.kind = "signal"
  /\ LET k == thread[c].task.key
     IN  \/ pool[k].signals = {} /\ UNCHANGED pool
         \/ \E p \in pool[k].signals : pool' = [pool EXCEPT ![k].signals = @ \ {p}]
  /\ GoTo(c, Idle)
  /\ UNCHANGED <<visible, tasks, log, synced, control, calls, acked>>

-----------------------------------------------------------------------------
(* complete_, fail_, cancel_ and terminate_workflow: the log record last *)

CloseApply(c, k, how) ==
  /\ pool' = IF Present(k) THEN [pool EXCEPT ![k].status = how] ELSE pool
  /\ GoTo(c, [at |-> "close:show", key |-> k, how |-> how])
  /\ UNCHANGED <<visible, tasks, log, synced, control, acked>>

CloseWorkflow(c, k, how) == NewCall(c) /\ CloseApply(c, k, how)

\* The worker that has done the last step.
CompleteWorkflow(c) ==
  /\ thread[c].at = "working"
  /\ thread[c].task.kind = "workflow" /\ thread[c].task.step \notin Steps
  /\ CloseApply(c, thread[c].task.key, "Completed")
  /\ UNCHANGED calls

CloseShow(c) ==
  /\ thread[c].at = "close:show"
  /\ LET t == thread[c]
     IN  visible' = IF visible[t.key] # "Absent" THEN [visible EXCEPT ![t.key] = t.how] ELSE visible
  /\ Move(c, "close:log")
  /\ UNCHANGED <<pool, tasks, log, synced, control, calls, acked>>

CloseLog(c) ==
  /\ thread[c].at = "close:log"
  /\ log' = Append(log, Closed(thread[c].key, thread[c].how))
  /\ GoTo(c, Idle)
  /\ UNCHANGED <<pool, visible, tasks, synced, control, calls, acked>>

-----------------------------------------------------------------------------
(* reset_workflow and purge_workflow: not logged *)

ResetWorkflow(c, k, n) ==
  /\ NewCall(c)
  /\ pool[k].status \in {"Running", "Failed"}
  /\ pool' = [pool EXCEPT ![k].done = {i \in @ : i < n}, ![k].status = "Running"]
  /\ acked' = {p \in acked : p.key = k => p.step < n}
  /\ GoTo(c, [at |-> "reset:show", key |-> k])
  /\ UNCHANGED <<visible, tasks, log, synced, control>>

ResetShow(c) ==
  /\ thread[c].at = "reset:show"
  /\ LET k == thread[c].key
     IN  visible' = IF visible[k] # "Absent" THEN [visible EXCEPT ![k] = "Running"] ELSE visible
  /\ GoTo(c, Idle)
  /\ UNCHANGED <<pool, tasks, log, synced, control, calls, acked>>

PurgeWorkflow(c, k) ==
  /\ NewCall(c)
  /\ pool' = [pool EXCEPT ![k] = Absent]
  /\ acked' = Forget(k)
  /\ GoTo(c, [at |-> "purge:hide", key |-> k])
  /\ UNCHANGED <<visible, tasks, log, synced, control>>

PurgeHide(c) ==
  /\ thread[c].at = "purge:hide"
  /\ visible' = [visible EXCEPT ![thread[c].key] = "Absent"]
  /\ GoTo(c, Idle)
  /\ UNCHANGED <<pool, tasks, log, synced, control, calls, acked>>

-----------------------------------------------------------------------------
(* the background fsync, the failures, and recover_from_wal *)

BackgroundSync ==
  /\ synced < Len(log)
  /\ synced' = Len(log)
  /\ UNCHANGED <<pool, visible, tasks, log, control, thread, calls, acked>>

\* Everything in memory is gone; the engine recovers before it serves.
Restart ==
  /\ pool' = [k \in Keys |-> Absent]
  /\ visible' = [k \in Keys |-> "Absent"]
  /\ tasks' = {}
  /\ thread' = [c \in Clients |-> Idle]
  /\ serving' = FALSE /\ cursor' = 0
  /\ UNCHANGED <<calls, acked>>

PowerFailure ==
  /\ failures < MaxFailures
  /\ failures' = failures + 1
  /\ \E n \in synced .. Len(log), cut \in BOOLEAN :
       /\ cut => n < Len(log)
       /\ log' = SubSeq(log, 1, n) /\ synced' = n
       /\ torn' = (torn \/ cut)
  /\ Restart
  /\ UNCHANGED deaths

ProcessDeath ==
  /\ deaths < MaxDeaths
  /\ deaths' = deaths + 1
  /\ Restart
  /\ UNCHANGED <<disk, failures>>

\* Mutants: a second start replaces the context; the replayed step is numbered
\* from one.
ReplayStartedInsert(ctx) == NewContext
ReplayStepFromOne(ctx, i) == IF ctx.status = "Absent" THEN ctx ELSE [ctx EXCEPT !.done = @ \cup {i + 1}]

ReplayStarted(ctx) == IF ctx.status = "Absent" THEN NewContext ELSE ctx
ReplayStep(ctx, i) == IF ctx.status = "Absent" THEN ctx ELSE [ctx EXCEPT !.done = @ \cup {i}]
ReplaySignal(ctx, p) == IF ctx.status = "Absent" THEN ctx ELSE [ctx EXCEPT !.signals = @ \cup {p}]
ReplayClosed(ctx, how) == IF ctx.status = "Absent" THEN ctx ELSE [ctx EXCEPT !.status = how]

\* One record, applied to the context of its key.
Replayed(ctx, r) ==
  CASE r.event = "started" -> ReplayStarted(ctx)
    [] r.event = "step"    -> ReplayStep(ctx, r.step)
    [] r.event = "signal"  -> ReplaySignal(ctx, r.payload)
    [] r.event = "closed"  -> ReplayClosed(ctx, r.how)

ReplayRecord ==
  /\ ~serving /\ ~torn
  /\ cursor < Len(log)
  /\ cursor' = cursor + 1
  /\ LET r == log[cursor']
     IN  pool' = [pool EXCEPT ![r.key] = Replayed(@, r)]
  /\ UNCHANGED <<visible, tasks, log, synced, torn, serving, failures, deaths, thread, calls, acked>>

\* The recovered workflows are listed; none of their tasks is queued.
RecoveryDone ==
  /\ ~serving /\ ~torn
  /\ cursor = Len(log)
  /\ visible' = [k \in Keys |-> pool[k].status]
  /\ serving' = TRUE
  /\ UNCHANGED <<pool, tasks, log, synced, torn, cursor, failures, deaths, thread, calls, acked>>

\* "WAL recovery failed (starting fresh)"
RecoveryFails ==
  /\ ~serving /\ torn
  /\ serving' = TRUE
  /\ UNCHANGED <<pool, visible, tasks, log, synced, torn, cursor, failures, deaths, thread, calls, acked>>

Recovery == ReplayRecord \/ RecoveryDone \/ RecoveryFails

-----------------------------------------------------------------------------
\* The rest of a call, once it has begun.
Continue(c) ==
  \/ StartInsert(c) \/ StartRegister(c) \/ StartLog(c)
  \/ CompleteStep(c)
  \/ SignalApply(c) \/ SignalNext(c) \/ TakeSignal(c)
  \/ CompleteWorkflow(c) \/ CloseShow(c) \/ CloseLog(c)
  \/ ResetShow(c) \/ PurgeHide(c)

Call(c) ==
  \E k \in Keys :
    \/ StartWorkflow(c, k)
    \/ \E p \in Payloads : SignalWorkflow(c, k, p)
    \/ \E how \in Closings : CloseWorkflow(c, k, how)
    \/ \E n \in Steps : ResetWorkflow(c, k, n)
    \/ PurgeWorkflow(c, k)

Next ==
  \/ \E c \in Clients : Call(c) \/ PollTask(c) \/ Continue(c)
  \/ BackgroundSync
  \/ PowerFailure \/ ProcessDeath \/ Recovery

Spec == Init /\ [][Next]_vars

\* Calls return, workers poll, recovery runs: no fairness for new calls.
FairSpec ==
  /\ Spec
  /\ \A c \in Clients : WF_vars(Continue(c)) /\ SF_vars(PollTask(c))
  /\ WF_vars(Recovery)

-----------------------------------------------------------------------------
Tasks == [kind : {"workflow"}, key : Keys, step : 0 .. TotalSteps] \cup [kind : {"signal"}, key : Keys]

Records ==
  [event : {"started"}, key : Keys]
    \cup [event : {"step"}, key : Keys, step : Steps]
    \cup [event : {"signal"}, key : Keys, payload : Payloads]
    \cup [event : {"closed"}, key : Keys, how : Closings]

InStep == [at : {"step:sync", "step:apply", "step:next"}, key : Keys, step : Steps,
           strict : BOOLEAN, started : BOOLEAN]
Threads ==
  {Idle}
    \cup [at : {"working"}, task : Tasks]
    \cup [at : {"start:insert", "start:register", "start:log", "reset:show", "purge:hide"}, key : Keys]
    \cup InStep
    \cup [at : {"signal:apply", "signal:next"}, key : Keys, payload : Payloads]
    \cup [at : {"close:show", "close:log"}, key : Keys, how : Closings]

\* Type correctness.
TypeOK ==
  /\ pool \in [Keys -> [status : Statuses, done : SUBSET Steps, signals : SUBSET Payloads]]
  /\ visible \in [Keys -> Statuses]
  /\ tasks \subseteq Tasks
  /\ log \in Seq(Records) /\ synced \in 0 .. Len(log) /\ torn \in BOOLEAN
  /\ serving \in BOOLEAN /\ cursor \in Nat
  /\ thread \in [Clients -> Threads]
  /\ acked \subseteq [key : Keys, step : Steps, started : BOOLEAN]

Survives(p) == Present(p.key) /\ p.step \in pool[p.key].done

\* "ensures durability before returning", "Guarantees the step is durable on
\* disk before returning": a step applied after its fsync is in the workflow's
\* context whenever the engine serves, after any failures.
StrictStepSurvives == serving /\ ~torn => \A p \in acked : Survives(p)

\* The same, of steps that were logged after their workflow's start.
StartedStepSurvives == serving /\ ~torn => \A p \in acked : p.started => Survives(p)

\* "Every state-changing event is appended to the log before being applied to
\* memory", of steps: a context has no step that the log lacks.
StepsAreLogged == \A k \in Keys : \A i \in pool[k].done : Logged(StepCompleted(k, i))

\* What the first n records say of k.
After(k, n, r) == \E s, m \in 1 .. n : s < m /\ log[s] = Started(k) /\ log[m] = r
LastClosing(k, n, how) ==
  \E s, m \in 1 .. n :
    /\ s < m /\ log[s] = Started(k) /\ log[m] = Closed(k, how)
    /\ \A j \in m + 1 .. n : log[j].event = "closed" => log[j].key # k

\* A context built from the first n records: it exists if they start k, it has
\* the steps and signals logged after the start, and the last closing.
Rebuilt(ctx, k, n) ==
  /\ ctx.status # "Absent" <=> \E s \in 1 .. n : log[s] = Started(k)
  /\ ctx.done = {i \in Steps : After(k, n, StepCompleted(k, i))}
  /\ ctx.signals = {p \in Payloads : After(k, n, SignalReceived(k, p))}
  /\ \A how \in Closings : ctx.status = how <=> LastClosing(k, n, how)

\* Recovery, at every record, has rebuilt exactly what the log says so far.
RecoversTheLog == ~serving => \A k \in Keys : Rebuilt(pool[k], k, cursor)

\* "crash -> resume from last persisted step.  Never loses work.  Never locks
\* up": a running workflow is run to its end.
Resumes == \A k \in Keys : (serving /\ pool[k].status = "Running") ~> (pool[k].status # "Running")
=============================================================================
