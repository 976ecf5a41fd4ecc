------------------------ MODULE WorkflowEngineProofs ------------------------
(***************************************************************************)
(* Proofs about WorkflowEngine, for any sets of keys, clients and payloads *)
(* and any number of steps, calls and failures: among them that a step     *)
(* acknowledged after its fsync survives every failure, and that recovery  *)
(* rebuilds what the log says.                                             *)
(***************************************************************************)
EXTENDS WorkflowEngine, TLAPS

Contexts == [status : Statuses, done : SUBSET Steps, signals : SUBSET Payloads]

-----------------------------------------------------------------------------
\* The records, tasks and contexts the engine builds are of their types.
LEMMA Built ==
  ASSUME NEW k \in Keys
  PROVE  /\ Absent \in Contexts /\ NewContext \in Contexts
         /\ Started(k) \in Records
         /\ \A i \in Steps : StepCompleted(k, i) \in Records
         /\ \A p \in Payloads : SignalReceived(k, p) \in Records
         /\ \A how \in Closings : Closed(k, how) \in Records
         /\ \A i \in 0 .. TotalSteps : WorkflowTask(k, i) \in Tasks
         /\ SignalTask(k) \in Tasks
BY Zenon DEF Absent, NewContext, Contexts, Statuses, Started, StepCompleted, SignalReceived, Closed,
       Records, WorkflowTask, SignalTask, Tasks

\* Where a thread is says what it carries.
LEMMA ThreadShape ==
  ASSUME NEW t \in Threads
  PROVE  /\ t.at = "working" => t.task \in Tasks
         /\ t.at \in {"start:insert", "start:register", "start:log", "reset:show", "purge:hide"} => t.key \in Keys
         /\ t.at \in {"step:sync", "step:apply", "step:next"} => t \in InStep
         /\ t.at \in {"signal:apply", "signal:next"} => t.key \in Keys /\ t.payload \in Payloads
         /\ t.at \in {"close:show", "close:log"} => t.key \in Keys /\ t.how \in Closings
BY DEF Threads, InStep, Idle

\* A workflow task names a step or, past the last, the completion.
LEMMA TaskShape ==
  ASSUME NEW t \in Tasks
  PROVE  t.key \in Keys /\ (t.kind = "workflow" => t.step \in 0 .. TotalSteps)
BY Zenon DEF Tasks

\* No context, no task, no record: the engine starts empty.
LEMMA InitType == Init => TypeOK
<1> SUFFICES ASSUME Init PROVE TypeOK
  BY Zenon
<1> USE DEF Init
<1>1. pool \in [Keys -> Contexts]
  BY Zenon, Built
<1>2. visible \in [Keys -> Statuses] /\ thread \in [Clients -> Threads]
  BY Zenon DEF Statuses, Threads
<1>3. log \in Seq(Records) /\ synced \in 0 .. Len(log) /\ cursor \in Nat
  OBVIOUS
<1> QED
  BY Zenon, <1>1, <1>2, <1>3 DEF TypeOK, Contexts

\* The typed state, fact by fact.
LEMMA Types ==
  ASSUME TypeOK
  PROVE  /\ pool \in [Keys -> Contexts] /\ visible \in [Keys -> Statuses] /\ tasks \subseteq Tasks
         /\ log \in Seq(Records) /\ synced \in 0 .. Len(log) /\ torn \in BOOLEAN
         /\ serving \in BOOLEAN /\ cursor \in Nat /\ thread \in [Clients -> Threads]
         /\ acked \subseteq [key : Keys, step : Steps, started : BOOLEAN]
BY Zenon DEF TypeOK, Contexts

\* One more record in the log.
LEMMA LogGrows ==
  ASSUME log \in Seq(Records), NEW r \in Records, log' = Append(log, r), synced \in 0 .. Len(log), synced' = synced
  PROVE  /\ log' \in Seq(Records) /\ Len(log') = Len(log) + 1 /\ synced' \in 0 .. Len(log')
         /\ Len(log) \in Nat /\ DOMAIN log = 1 .. Len(log) /\ DOMAIN log' = 1 .. Len(log) + 1
         /\ \A n \in 1 .. Len(log) : log'[n] = log[n]
         /\ log'[Len(log) + 1] = r
OBVIOUS

\* The rest of a start, and of a step, keeps every variable in its type.
LEMMA StartType ==
  ASSUME TypeOK, NEW c \in Clients,
         (\E k \in Keys : StartWorkflow(c, k)) \/ StartInsert(c) \/ StartRegister(c) \/ StartLog(c)
  PROVE  TypeOK'
<1>0. /\ pool \in [Keys -> Contexts] /\ visible \in [Keys -> Statuses] /\ tasks \subseteq Tasks
      /\ log \in Seq(Records) /\ synced \in 0 .. Len(log) /\ torn \in BOOLEAN
      /\ serving \in BOOLEAN /\ cursor \in Nat /\ thread \in [Clients -> Threads]
      /\ acked \subseteq [key : Keys, step : Steps, started : BOOLEAN]
  BY Zenon, Types
<1>1. ASSUME NEW k \in Keys, StartWorkflow(c, k)
      PROVE  TypeOK'
  <2>1. thread' \in [Clients -> Threads]
    <3>1. [at |-> "start:insert", key |-> k] \in Threads
      BY Zenon DEF Threads
    <3> QED
      BY Zenon, <1>0, <1>1, <3>1 DEF StartWorkflow, GoTo
  <2>2. tasks' \subseteq Tasks
    <3>1. WorkflowTask(k, 0) \in Tasks
      BY Built, EngineAssumption
    <3> QED
      BY Zenon, <1>0, <1>1, <3>1 DEF StartWorkflow
  <2> QED
    BY Zenon, <1>0, <1>1, <2>1, <2>2 DEF StartWorkflow, control, TypeOK, Contexts
<1>2. CASE StartInsert(c)
  <2>1. thread[c] \in Threads /\ thread[c].key \in Keys
    BY Zenon, <1>0, <1>2, ThreadShape DEF StartInsert
  <2>2. thread' \in [Clients -> Threads]
    <3>1. [thread[c] EXCEPT !.at = "start:register"] \in Threads
      BY <1>2, <2>1 DEF StartInsert, Threads, InStep, Idle
    <3> QED
      BY Zenon, <1>0, <1>2, <3>1 DEF StartInsert, Move, GoTo
  <2>3. pool' \in [Keys -> Contexts]
    BY Zenon, <1>0, <1>2, <2>1, Built DEF StartInsert
  <2> QED
    BY Zenon, <1>0, <1>2, <2>2, <2>3 DEF StartInsert, control, TypeOK, Contexts, Forget
<1>3. CASE StartRegister(c)
  <2>1. thread[c] \in Threads /\ thread[c].key \in Keys
    BY Zenon, <1>0, <1>3, ThreadShape DEF StartRegister
  <2>2. thread' \in [Clients -> Threads]
    <3>1. [thread[c] EXCEPT !.at = "start:log"] \in Threads
      BY <1>3, <2>1 DEF StartRegister, Threads, InStep, Idle
    <3> QED
      BY Zenon, <1>0, <1>3, <3>1 DEF StartRegister, Move, GoTo
  <2>3. visible' \in [Keys -> Statuses]
    BY Zenon, <1>0, <1>3, <2>1 DEF StartRegister, Statuses
  <2> QED
    BY Zenon, <1>0, <1>3, <2>2, <2>3 DEF StartRegister, control, TypeOK, Contexts
<1>4. CASE StartLog(c)
  <2>1. thread[c] \in Threads /\ thread[c].key \in Keys
    BY Zenon, <1>0, <1>4, ThreadShape DEF StartLog
  <2>2. thread' \in [Clients -> Threads]
    BY Zenon, <1>0, <1>4 DEF StartLog, GoTo, Threads
  <2>3. log' \in Seq(Records) /\ synced' \in 0 .. Len(log')
    <3>1. Started(thread[c].key) \in Records
      BY Zenon, <2>1, Built
    <3> QED
      BY Zenon, <1>0, <1>4, <3>1, LogGrows DEF StartLog
  <2> QED
    BY Zenon, <1>0, <1>4, <2>2, <2>3 DEF StartLog, control, TypeOK, Contexts
<1> QED
  BY Zenon, <1>1, <1>2, <1>3, <1>4

\* So do the steps of a worker with its task.
LEMMA StepType ==
  ASSUME TypeOK, NEW c \in Clients, PollTask(c) \/ CompleteStep(c)
  PROVE  TypeOK'
<1>0. /\ pool \in [Keys -> Contexts] /\ visible \in [Keys -> Statuses] /\ tasks \subseteq Tasks
      /\ log \in Seq(Records) /\ synced \in 0 .. Len(log) /\ torn \in BOOLEAN
      /\ serving \in BOOLEAN /\ cursor \in Nat /\ thread \in [Clients -> Threads]
      /\ acked \subseteq [key : Keys, step : Steps, started : BOOLEAN]
  BY Zenon, Types
<1>t. thread[c] \in Threads
  BY Zenon, <1>0
<1>1. CASE PollTask(c)
  <2>1. PICK t \in tasks : tasks' = tasks \ {t} /\ thread' = [thread EXCEPT ![c] = [at |-> "working", task |-> t]]
    BY Zenon, <1>1 DEF PollTask, GoTo
  <2>2. [at |-> "working", task |-> t] \in Threads
    BY Zenon, <1>0 DEF Threads
  <2>3. thread' \in [Clients -> Threads] /\ tasks' \subseteq Tasks
    BY Zenon, <1>0, <2>1, <2>2
  <2> QED
    BY Zenon, <1>0, <1>1, <2>3 DEF PollTask, control, TypeOK, Contexts
<1>2. ASSUME NEW strict \in BOOLEAN, StepLog(c, strict)
      PROVE  TypeOK'
  <2> DEFINE k == thread[c].task.key
             i == thread[c].task.step
             there == [at |-> IF strict THEN "step:sync" ELSE "step:apply", key |-> k,
                       step |-> i, strict |-> strict, started |-> Logged(Started(k))]
  <2>1. k \in Keys /\ i \in Steps
    BY Zenon, <1>2, <1>t, ThreadShape, TaskShape DEF StepLog
  <2>2. log' = Append(log, StepCompleted(k, i)) /\ thread' = [thread EXCEPT ![c] = there]
    BY Zenon, <1>2 DEF StepLog, StepAppended, GoTo
  <2>3. log' \in Seq(Records) /\ synced' \in 0 .. Len(log')
    <3>1. StepCompleted(k, i) \in Records
      BY Zenon, <2>1, Built
    <3> QED
      BY Zenon, <1>0, <1>2, <2>2, <3>1, LogGrows DEF StepLog
  <2>4. thread' \in [Clients -> Threads]
    <3>1. Logged(Started(k)) \in BOOLEAN
      BY Zenon DEF Logged
    <3>2. there \in Threads
      BY Zenon, <2>1, <3>1 DEF Threads, InStep
    <3> QED
      BY Zenon, <1>0, <2>2, <3>2
  <2> QED
    BY Zenon, <1>0, <1>2, <2>3, <2>4 DEF StepLog, control, TypeOK, Contexts
<1>3. CASE StepSync(c)
  <2>1. thread[c] \in InStep
    BY Zenon, <1>3, <1>t, ThreadShape DEF StepSync
  <2>2. thread' \in [Clients -> Threads]
    <3>1. [thread[c] EXCEPT !.at = "step:apply"] \in Threads
      BY Zenon, <2>1 DEF Threads, InStep
    <3> QED
      BY Zenon, <1>0, <1>3, <3>1 DEF StepSync, Move, GoTo
  <2>3. synced' \in 0 .. Len(log)
    BY <1>0, <1>3 DEF StepSync, ForcedSync
  <2> QED
    BY Zenon, <1>0, <1>3, <2>2, <2>3 DEF StepSync, control, TypeOK, Contexts
<1>4. CASE StepApply(c)
  <2> DEFINE t == thread[c]
  <2>1. t \in InStep
    BY Zenon, <1>4, <1>t, ThreadShape DEF StepApply
  <2>2. CASE Present(t.key)
    <3>1. /\ pool' = [pool EXCEPT ![t.key].done = @ \cup {t.step}]
          /\ acked' \subseteq acked \cup {[key |-> t.key, step |-> t.step, started |-> t.started]}
          /\ thread' = [thread EXCEPT ![c] = [thread[c] EXCEPT !.at = "step:next"]]
      BY Zenon, <1>4, <2>2 DEF StepApply, Move, GoTo
    <3>2. [thread[c] EXCEPT !.at = "step:next"] \in Threads
      BY Zenon, <2>1 DEF Threads, InStep
    <3>3. thread' \in [Clients -> Threads]
      BY Zenon, <1>0, <3>1, <3>2
    <3>4. pool' \in [Keys -> Contexts]
      <4>1. t.key \in Keys /\ t.step \in Steps
        BY Zenon, <2>1 DEF InStep
      <4>2. [pool[t.key] EXCEPT !.done = @ \cup {t.step}] \in Contexts
        BY Zenon, <1>0, <4>1 DEF Contexts
      <4> QED
        BY Zenon, <1>0, <3>1, <4>1, <4>2
    <3>5. acked' \subseteq [key : Keys, step : Steps, started : BOOLEAN]
      BY <1>0, <2>1, <3>1 DEF InStep
    <3> QED
      BY Zenon, <1>0, <1>4, <3>3, <3>4, <3>5 DEF StepApply, control, TypeOK, Contexts
  <2>3. CASE ~Present(t.key)
    <3>1. thread' = [thread EXCEPT ![c] = Idle] /\ pool' = pool /\ acked' = acked
      BY Zenon, <1>4, <2>3 DEF StepApply, GoTo
    <3>2. thread' \in [Clients -> Threads]
      BY Zenon, <1>0, <3>1 DEF Threads
    <3> QED
      BY Zenon, <1>0, <1>4, <3>1, <3>2 DEF StepApply, control, TypeOK, Contexts
  <2> QED
    BY Zenon, <2>2, <2>3
<1>5. CASE StepNext(c)
  <2>1. thread[c] \in InStep
    BY Zenon, <1>5, <1>t, ThreadShape DEF StepNext
  <2>2. thread' \in [Clients -> Threads]
    BY Zenon, <1>0, <1>5 DEF StepNext, GoTo, Threads
  <2>3. tasks' \subseteq Tasks
    <3>1. thread[c].key \in Keys /\ thread[c].step + 1 \in 0 .. TotalSteps
      BY <2>1, EngineAssumption DEF InStep, Steps
    <3>2. NextTask(thread[c].key, thread[c].step) \in Tasks
      BY Zenon, <3>1, Built DEF NextTask
    <3> QED
      BY Zenon, <1>0, <1>5, <3>2 DEF StepNext
  <2> QED
    BY Zenon, <1>0, <1>5, <2>2, <2>3 DEF StepNext, control, TypeOK, Contexts
<1> QED
  BY Zenon, <1>1, <1>2, <1>3, <1>4, <1>5 DEF CompleteStep

\* So do the other calls: signals, closings, resets and purges.
LEMMA CallType ==
  ASSUME TypeOK, NEW c \in Clients,
         \/ \E k \in Keys : \/ \E p \in Payloads : SignalWorkflow(c, k, p)
                            \/ \E how \in Closings : CloseWorkflow(c, k, how)
                            \/ \E n \in Steps : ResetWorkflow(c, k, n)
                            \/ PurgeWorkflow(c, k)
         \/ SignalApply(c) \/ SignalNext(c) \/ TakeSignal(c) \/ CompleteWorkflow(c)
         \/ CloseShow(c) \/ CloseLog(c) \/ ResetShow(c) \/ PurgeHide(c)
  PROVE  TypeOK'
<1>0. /\ pool \in [Keys -> Contexts] /\ visible \in [Keys -> Statuses] /\ tasks \subseteq Tasks
      /\ log \in Seq(Records) /\ synced \in 0 .. Len(log) /\ torn \in BOOLEAN
      /\ serving \in BOOLEAN /\ cursor \in Nat /\ thread \in [Clients -> Threads]
      /\ acked \subseteq [key : Keys, step : Steps, started : BOOLEAN]
  BY Zenon, Types
<1>t. thread[c] \in Threads
  BY Zenon, <1>0
<1>1. ASSUME NEW k \in Keys, NEW p \in Payloads, SignalWorkflow(c, k, p)
      PROVE  TypeOK'
  <2>1. thread' \in [Clients -> Threads]
    <3>1. [at |-> "signal:apply", key |-> k, payload |-> p] \in Threads
      BY Zenon DEF Threads
    <3> QED
      BY ZenonT(30), <1>0, <1>1, <3>1 DEF SignalWorkflow, GoTo
  <2>2. log' \in Seq(Records) /\ synced' \in 0 .. Len(log')
    <3>1. SignalReceived(k, p) \in Records
      BY Zenon, Built
    <3> QED
      BY Zenon, <1>0, <1>1, <3>1, LogGrows DEF SignalWorkflow
  <2> QED
    BY Zenon, <1>0, <1>1, <2>1, <2>2 DEF SignalWorkflow, control, TypeOK, Contexts
<1>2. ASSUME NEW k \in Keys, NEW how \in Closings, CloseApply(c, k, how)
      PROVE  TypeOK'
  <2>1. thread' \in [Clients -> Threads]
    <3>1. [at |-> "close:show", key |-> k, how |-> how] \in Threads
      BY Zenon DEF Threads
    <3> QED
      BY Zenon, <1>0, <1>2, <3>1 DEF CloseApply, GoTo
  <2>2. pool' \in [Keys -> Contexts]
    BY ZenonT(30), <1>0, <1>2 DEF CloseApply, Contexts, Statuses
  <2> QED
    BY Zenon, <1>0, <1>2, <2>1, <2>2 DEF CloseApply, control, TypeOK, Contexts
<1>3. CASE CompleteWorkflow(c)
  <2>1. thread[c].task.key \in Keys
    BY Zenon, <1>3, <1>t, ThreadShape, TaskShape DEF CompleteWorkflow
  <2> QED
    BY Zenon, <1>2, <1>3, <2>1, EngineAssumption DEF CompleteWorkflow
<1>4. ASSUME NEW k \in Keys, NEW n \in Steps, ResetWorkflow(c, k, n)
      PROVE  TypeOK'
  <2>1. thread' \in [Clients -> Threads]
    <3>1. [at |-> "reset:show", key |-> k] \in Threads
      BY Zenon DEF Threads
    <3> QED
      BY Zenon, <1>0, <1>4, <3>1 DEF ResetWorkflow, GoTo
  <2>2. pool' \in [Keys -> Contexts]
    <3>1. pool[k] \in Contexts
      BY Zenon, <1>0
    <3>2. [pool[k] EXCEPT !.done = {i \in pool[k].done : i < n}, !.status = "Running"] \in Contexts
      BY Zenon, <3>1 DEF Contexts, Statuses
    <3>3. pool' = [pool EXCEPT ![k] = [pool[k] EXCEPT !.done = {i \in pool[k].done : i < n}, !.status = "Running"]]
      BY Zenon, <1>0, <1>4 DEF ResetWorkflow
    <3> QED
      BY Zenon, <1>0, <3>2, <3>3
  <2> QED
    BY Zenon, <1>0, <1>4, <2>1, <2>2 DEF ResetWorkflow, control, TypeOK, Contexts
<1>5. ASSUME NEW k \in Keys, PurgeWorkflow(c, k)
      PROVE  TypeOK'
  <2>1. thread' \in [Clients -> Threads]
    <3>1. [at |-> "purge:hide", key |-> k] \in Threads
      BY Zenon DEF Threads
    <3> QED
      BY Zenon, <1>0, <1>5, <3>1 DEF PurgeWorkflow, GoTo
  <2>2. pool' \in [Keys -> Contexts]
    BY Zenon, <1>0, <1>5, Built DEF PurgeWorkflow
  <2> QED
    BY Zenon, <1>0, <1>5, <2>1, <2>2 DEF PurgeWorkflow, control, TypeOK, Contexts, Forget
<1>6. CASE SignalApply(c)
  <2>1. thread[c].key \in Keys /\ thread[c].payload \in Payloads
    BY Zenon, <1>6, <1>t, ThreadShape DEF SignalApply
  <2>2. thread' \in [Clients -> Threads]
    <3>1. [thread[c] EXCEPT !.at = "signal:next"] \in Threads
      BY SMTT(30), <1>6, <1>t DEF SignalApply, Threads, InStep, Idle
    <3> QED
      BY Zenon, <1>0, <1>6, <3>1 DEF SignalApply, Move, GoTo
  <2>3. pool' \in [Keys -> Contexts]
    BY Zenon, <1>0, <1>6, <2>1 DEF SignalApply, Contexts
  <2> QED
    BY Zenon, <1>0, <1>6, <2>2, <2>3 DEF SignalApply, control, TypeOK, Contexts
<1>7. CASE SignalNext(c)
  <2>1. thread[c].key \in Keys
    BY Zenon, <1>7, <1>t, ThreadShape DEF SignalNext
  <2>2. thread' \in [Clients -> Threads] /\ tasks' \subseteq Tasks
    BY Zenon, <1>0, <1>7, <2>1, Built DEF SignalNext, GoTo, Threads
  <2> QED
    BY Zenon, <1>0, <1>7, <2>2 DEF SignalNext, control, TypeOK, Contexts
<1>8. CASE TakeSignal(c)
  <2> DEFINE k == thread[c].task.key
  <2>1. k \in Keys
    BY Zenon, <1>8, <1>t, ThreadShape, TaskShape DEF TakeSignal
  <2>2. thread' \in [Clients -> Threads]
    BY Zenon, <1>0, <1>8 DEF TakeSignal, GoTo, Threads
  <2>3. pool' \in [Keys -> Contexts]
    <3>1. CASE pool' = pool
      BY Zenon, <1>0, <3>1
    <3>2. ASSUME NEW p \in pool[k].signals, pool' = [pool EXCEPT ![k].signals = @ \ {p}]
          PROVE  pool' \in [Keys -> Contexts]
      BY Zenon, <1>0, <2>1, <3>2 DEF Contexts
    <3> QED
      BY Zenon, <1>8, <3>1, <3>2 DEF TakeSignal
  <2> QED
    BY Zenon, <1>0, <1>8, <2>2, <2>3 DEF TakeSignal, control, TypeOK, Contexts
<1>9. CASE CloseShow(c)
  <2>1. thread[c].key \in Keys /\ thread[c].how \in Closings
    BY Zenon, <1>9, <1>t, ThreadShape DEF CloseShow
  <2>2. thread' \in [Clients -> Threads]
    <3>1. [thread[c] EXCEPT !.at = "close:log"] \in Threads
      BY <1>9, <1>t DEF CloseShow, Threads, InStep, Idle
    <3> QED
      BY Zenon, <1>0, <1>9, <3>1 DEF CloseShow, Move, GoTo
  <2>3. visible' \in [Keys -> Statuses]
    BY Zenon, <1>0, <1>9, <2>1 DEF CloseShow, Statuses
  <2> QED
    BY Zenon, <1>0, <1>9, <2>2, <2>3 DEF CloseShow, control, TypeOK, Contexts
<1>10. CASE CloseLog(c)
  <2>1. thread[c].key \in Keys /\ thread[c].how \in Closings
    BY Zenon, <1>10, <1>t, ThreadShape DEF CloseLog
  <2>2. thread' \in [Clients -> Threads]
    BY Zenon, <1>0, <1>10 DEF CloseLog, GoTo, Threads
  <2>3. log' \in Seq(Records) /\ synced' \in 0 .. Len(log')
    <3>1. Closed(thread[c].key, thread[c].how) \in Records
      BY Zenon, <2>1, Built
    <3> QED
      BY Zenon, <1>0, <1>10, <3>1, LogGrows DEF CloseLog
  <2> QED
    BY Zenon, <1>0, <1>10, <2>2, <2>3 DEF CloseLog, control, TypeOK, Contexts
<1>11. CASE ResetShow(c) \/ PurgeHide(c)
  <2>1. thread[c].key \in Keys
    BY Zenon, <1>11, <1>t, ThreadShape DEF ResetShow, PurgeHide
  <2>2. thread' \in [Clients -> Threads] /\ visible' \in [Keys -> Statuses]
    BY Zenon, <1>0, <1>11, <2>1 DEF ResetShow, PurgeHide, GoTo, Threads, Statuses
  <2> QED
    BY Zenon, <1>0, <1>11, <2>2 DEF ResetShow, PurgeHide, control, TypeOK, Contexts
<1> QED
  BY Zenon, <1>1, <1>2, <1>3, <1>4, <1>5, <1>6, <1>7, <1>8, <1>9, <1>10, <1>11 DEF CloseWorkflow

\* What is left of the log is a log.
LEMMA LogCut ==
  ASSUME NEW s \in Seq(Records), NEW n \in 0 .. Len(s)
  PROVE  SubSeq(s, 1, n) \in Seq(Records) /\ Len(SubSeq(s, 1, n)) = n
         /\ \A m \in 1 .. n : SubSeq(s, 1, n)[m] = s[m]
BY SMTT(30)

\* Replaying a record makes a context of a context.
LEMMA ReplayType ==
  ASSUME NEW ctx \in Contexts, NEW r \in Records
  PROVE  Replayed(ctx, r) \in Contexts
<1>1. CASE r \in [event : {"started"}, key : Keys]
  BY Zenon, <1>1, Built DEF Replayed, ReplayStarted
<1>2. CASE r \in [event : {"step"}, key : Keys, step : Steps]
  BY Zenon, <1>2 DEF Replayed, ReplayStep, Contexts
<1>3. CASE r \in [event : {"signal"}, key : Keys, payload : Payloads]
  BY Zenon, <1>3 DEF Replayed, ReplaySignal, Contexts
<1>4. CASE r \in [event : {"closed"}, key : Keys, how : Closings]
  BY Zenon, <1>4 DEF Replayed, ReplayClosed, Contexts, Statuses
<1> QED
  BY Zenon, <1>1, <1>2, <1>3, <1>4 DEF Records

\* Failures and recovery keep the types.
LEMMA RecoveryType ==
  ASSUME TypeOK, BackgroundSync \/ PowerFailure \/ ProcessDeath \/ Recovery
  PROVE  TypeOK'
<1>0. /\ pool \in [Keys -> Contexts] /\ visible \in [Keys -> Statuses] /\ tasks \subseteq Tasks
      /\ log \in Seq(Records) /\ synced \in 0 .. Len(log) /\ torn \in BOOLEAN
      /\ serving \in BOOLEAN /\ cursor \in Nat /\ thread \in [Clients -> Threads]
      /\ acked \subseteq [key : Keys, step : Steps, started : BOOLEAN]
  BY Zenon, Types
<1>1. CASE BackgroundSync
  <2>1. synced' \in 0 .. Len(log)
    BY SMTT(30), <1>0, <1>1 DEF BackgroundSync
  <2> QED
    BY Zenon, <1>0, <1>1, <2>1 DEF BackgroundSync, control, TypeOK, Contexts
<1>2. ASSUME Restart
      PROVE  /\ pool' \in [Keys -> Contexts] /\ visible' \in [Keys -> Statuses] /\ tasks' \subseteq Tasks
             /\ serving' \in BOOLEAN /\ cursor' \in Nat /\ thread' \in [Clients -> Threads]
             /\ acked' = acked
  BY Zenon, <1>2, Built DEF Restart, Statuses, Threads
<1>3. CASE PowerFailure
  <2>1. PICK n \in synced .. Len(log), cut \in BOOLEAN :
          log' = SubSeq(log, 1, n) /\ synced' = n /\ torn' = (torn \/ cut)
    BY Zenon, <1>3 DEF PowerFailure
  <2>2. n \in 0 .. Len(log)
    BY <1>0
  <2>3. log' \in Seq(Records) /\ synced' \in 0 .. Len(log') /\ torn' \in BOOLEAN
    BY SMTT(30), <1>0, <2>1, <2>2, LogCut
  <2> QED
    BY Zenon, <1>0, <1>2, <1>3, <2>3 DEF PowerFailure, TypeOK, Contexts
<1>4. CASE ProcessDeath
  BY Zenon, <1>0, <1>2, <1>4 DEF ProcessDeath, disk, TypeOK, Contexts
<1>5. CASE ReplayRecord
  <2>1. cursor' = cursor + 1 /\ cursor' \in DOMAIN log
    BY SMTT(30), <1>0, <1>5 DEF ReplayRecord
  <2>2. log[cursor'] \in Records
    BY SMTT(30), <1>0, <2>1
  <2>3. log[cursor'].key \in Keys
    BY Zenon, <2>2 DEF Records
  <2>4. pool' \in [Keys -> Contexts]
    BY Zenon, <1>0, <1>5, <2>2, <2>3, ReplayType DEF ReplayRecord
  <2>5. cursor' \in Nat
    BY SMTT(30), <1>0, <2>1
  <2> QED
    BY Zenon, <1>0, <1>5, <2>4, <2>5 DEF ReplayRecord, TypeOK, Contexts
<1>6. CASE RecoveryDone \/ RecoveryFails
  <2>1. visible' \in [Keys -> Statuses] /\ serving' \in BOOLEAN
    BY Zenon, <1>0, <1>6 DEF RecoveryDone, RecoveryFails, Contexts
  <2> QED
    BY Zenon, <1>0, <1>6, <2>1 DEF RecoveryDone, RecoveryFails, TypeOK, Contexts
<1> QED
  BY Zenon, <1>1, <1>3, <1>4, <1>5, <1>6 DEF Recovery

\* Every step of the engine keeps the types.
LEMMA NextType == TypeOK /\ [Next]_vars => TypeOK'
<1> SUFFICES ASSUME TypeOK, [Next]_vars
             PROVE  TypeOK'
  BY Zenon
<1>1. ASSUME NEW c \in Clients, Call(c)
      PROVE  TypeOK'
  BY Zenon, <1>1, StartType, CallType DEF Call
<1>2. ASSUME NEW c \in Clients, PollTask(c)
      PROVE  TypeOK'
  BY Zenon, <1>2, StepType
<1>3. ASSUME NEW c \in Clients, Continue(c)
      PROVE  TypeOK'
  BY Zenon, <1>3, StartType, StepType, CallType DEF Continue
<1>4. CASE UNCHANGED vars
  BY Zenon, <1>4 DEF vars, TypeOK
<1> QED
  BY Zenon, <1>1, <1>2, <1>3, <1>4, RecoveryType DEF Next

\* Contexts, tasks, records and threads are always well formed: no call asks
\* for a step past the completion, no record names an unknown key.
THEOREM TypeCorrect == Spec => []TypeOK
BY InitType, NextType, PTL DEF Spec

-----------------------------------------------------------------------------
(* The inductive invariant behind the durability of the engine's steps, what
   keeps a record on record, and which steps can do a completed step no harm *)

\* Nobody is inside a call while the engine recovers.
Quiet == ~serving => cursor <= Len(log) /\ \A c \in Clients : thread[c] = Idle

\* What a thread that has logged its step may rely on.
StepInFlight(t) ==
  t.at \in {"step:sync", "step:apply"} =>
    /\ Logged(StepCompleted(t.key, t.step))
    /\ t.started => After(t.key, Len(log), StepCompleted(t.key, t.step))
    /\ t.at = "step:apply" /\ t.strict /\ t.started =>
         After(t.key, synced, StepCompleted(t.key, t.step))
InFlight == \A c \in Clients : StepInFlight(thread[c])

AckedOnDisk == \A p \in acked : p.started => After(p.key, synced, StepCompleted(p.key, p.step))

DurabilityInv ==
  /\ TypeOK /\ Quiet /\ InFlight /\ AckedOnDisk
  /\ RecoversTheLog /\ StepsAreLogged /\ StartedStepSurvives

\* The log only grows, and no more of it is at risk than before.
Extended ==
  /\ Len(log) <= Len(log') /\ synced <= synced'
  /\ \A m \in 1 .. Len(log) : log'[m] = log[m]

\* A step of c that completes no step: it touches no other thread, takes no
\* step away that it does not also forget, and leaves the disk alone but for a
\* record at the end.
Harmless(c) ==
  /\ Extended /\ serving' = serving /\ torn' = torn
  /\ thread[c] # Idle \/ serving
  /\ thread' = [thread EXCEPT ![c] = thread'[c]]
  /\ thread'[c].at \notin {"step:sync", "step:apply"}
  /\ acked' \subseteq acked
  /\ \A k \in Keys : pool'[k].done \subseteq pool[k].done
  /\ \A p \in acked' : Survives(p) => Survives(p)'

-----------------------------------------------------------------------------
\* What is on record stays on record while the log grows.
LEMMA Monotone ==
  ASSUME TypeOK, TypeOK', Extended, NEW k, NEW r
  PROVE  /\ Logged(r) => Logged(r)'
         /\ After(k, Len(log), r) => After(k, Len(log), r)'
         /\ After(k, synced, r) => After(k, synced, r)'
<1>0. log \in Seq(Records) /\ log' \in Seq(Records) /\ synced \in 0 .. Len(log) /\ synced' \in Int
  BY DEF TypeOK
<1>1. Logged(r) => Logged(r)'
  BY <1>0 DEF Extended, Logged
<1>2. ASSUME After(k, Len(log), r)
      PROVE  After(k, Len(log), r)'
  <2>1. PICK s \in 1 .. Len(log), t \in 1 .. Len(log) : s < t /\ log[s] = Started(k) /\ log[t] = r
    BY Zenon, <1>2 DEF After
  <2>2. /\ s \in 1 .. Len(log') /\ t \in 1 .. Len(log') /\ s < t
        /\ log'[s] = Started(k) /\ log'[t] = r
    BY <1>0, <2>1 DEF Extended
  <2> QED
    BY Zenon, <2>2 DEF After, Started
<1>3. ASSUME After(k, synced, r)
      PROVE  After(k, synced, r)'
  <2>1. PICK s \in 1 .. synced, t \in 1 .. synced : s < t /\ log[s] = Started(k) /\ log[t] = r
    BY Zenon, <1>3 DEF After
  <2>2. /\ s \in 1 .. synced' /\ t \in 1 .. synced' /\ s < t
        /\ log'[s] = Started(k) /\ log'[t] = r
    BY <1>0, <2>1 DEF Extended
  <2> QED
    BY Zenon, <2>2 DEF After, Started
<1> QED
  BY Zenon, <1>1, <1>2, <1>3

\* A record appended after the start of its workflow is on record after it.
LEMMA AppendedAfter ==
  ASSUME TypeOK, NEW k, NEW r \in Records, log' = Append(log, r)
  PROVE  /\ Extended \/ synced' # synced
         /\ Logged(r)'
         /\ Logged(Started(k)) => \E s, t \in 1 .. Len(log') : s < t /\ log'[s] = Started(k) /\ log'[t] = r
<1>0. log \in Seq(Records) /\ synced \in 0 .. Len(log)
  BY Zenon DEF TypeOK
<1>1. /\ log' \in Seq(Records) /\ Len(log') = Len(log) + 1 /\ log'[Len(log) + 1] = r
      /\ \A m \in 1 .. Len(log) : log'[m] = log[m]
  BY <1>0
<1>2. Logged(r)'
  BY <1>0, <1>1 DEF Logged
<1>3. Extended \/ synced' # synced
  BY <1>0, <1>1 DEF Extended
<1>4. ASSUME Logged(Started(k))
      PROVE  \E s, t \in 1 .. Len(log') : s < t /\ log'[s] = Started(k) /\ log'[t] = r
  <2>1. PICK s \in 1 .. Len(log) : log[s] = Started(k)
    BY <1>0, <1>4 DEF Logged
  <2>2. /\ s \in 1 .. Len(log') /\ Len(log) + 1 \in 1 .. Len(log') /\ s < Len(log) + 1
        /\ log'[s] = Started(k)
    BY <1>0, <1>1, <2>1
  <2> QED
    BY Zenon, <1>1, <2>2
<1> QED
  BY Zenon, <1>2, <1>3, <1>4

\* Starting a workflow is harmless: its new context replaces one whose steps
\* are forgotten with it.
LEMMA StartFrame ==
  ASSUME TypeOK, NEW c \in Clients,
         (\E k \in Keys : StartWorkflow(c, k)) \/ StartInsert(c) \/ StartRegister(c) \/ StartLog(c)
  PROVE  Harmless(c)
<1>0. /\ pool \in [Keys -> Contexts]
      /\ log \in Seq(Records) /\ synced \in 0 .. Len(log)
      /\ thread \in [Clients -> Threads]
      /\ acked \subseteq [key : Keys, step : Steps, started : BOOLEAN]
  BY Zenon, Types
<1>t. thread[c] \in Threads
  BY Zenon, <1>0
<1>1. ASSUME NEW k \in Keys, StartWorkflow(c, k)
      PROVE  /\ Extended /\ serving' = serving /\ torn' = torn /\ serving
             /\ thread' = [thread EXCEPT ![c] = thread'[c]]
             /\ thread'[c].at = "start:insert"
             /\ acked' = acked /\ pool' = pool
  BY <1>0, <1>1 DEF StartWorkflow, NewCall, GoTo, control, Extended
<1>2. CASE StartInsert(c)
  <2>1. thread[c].key \in Keys /\ thread[c] # Idle
    BY <1>2, <1>t, ThreadShape DEF StartInsert, Idle
  <2>2. /\ Extended /\ serving' = serving /\ torn' = torn
        /\ thread' = [thread EXCEPT ![c] = thread'[c]]
    BY <1>0, <1>2 DEF StartInsert, Move, GoTo, control, Extended
  <2>3. thread'[c].at = "start:register"
    BY Zenon, <1>0, <1>2, <2>1, <1>t DEF StartInsert, Move, GoTo, Threads, InStep, Idle
  <2>4. /\ pool' = [pool EXCEPT ![thread[c].key] = NewContext]
        /\ acked' = {p \in acked : p.key # thread[c].key}
    BY Zenon, <1>2 DEF StartInsert, Forget
  <2>5. \A p \in acked' : pool'[p.key] = pool[p.key]
    BY Zenon, <1>0, <2>1, <2>4
  <2>6. \A k \in Keys : pool'[k].done \subseteq pool[k].done
    BY Zenon, <1>0, <2>1, <2>4 DEF NewContext
  <2> QED
    BY Zenon, <2>1, <2>2, <2>3, <2>4, <2>5, <2>6 DEF Survives, Present, Harmless
<1>3. CASE StartRegister(c)
  <2>1. thread[c].key \in Keys /\ thread[c] # Idle
    BY <1>3, <1>t, ThreadShape DEF StartRegister, Idle
  <2>2. /\ Extended /\ serving' = serving /\ torn' = torn
        /\ thread' = [thread EXCEPT ![c] = thread'[c]]
        /\ acked' = acked /\ pool' = pool
    BY <1>0, <1>3 DEF StartRegister, Move, GoTo, control, Extended
  <2>3. thread'[c].at = "start:log"
    BY Zenon, <1>0, <1>3, <2>1, <1>t DEF StartRegister, Move, GoTo, Threads, InStep, Idle
  <2> QED
    BY Zenon, <2>1, <2>2, <2>3 DEF Survives, Present, Harmless
<1>4. CASE StartLog(c)
  <2>1. thread[c].key \in Keys /\ thread[c] # Idle
    BY <1>4, <1>t, ThreadShape DEF StartLog, Idle
  <2>2. /\ serving' = serving /\ torn' = torn
        /\ thread' = [thread EXCEPT ![c] = thread'[c]] /\ thread'[c] = Idle
        /\ acked' = acked /\ pool' = pool
    BY Zenon, <1>0, <1>4 DEF StartLog, GoTo, control
  <2>3. Extended
    <3>1. Started(thread[c].key) \in Records
      BY Zenon, <2>1, Built
    <3> QED
      BY Zenon, <1>4, <3>1, AppendedAfter DEF StartLog
  <2> QED
    BY <2>1, <2>2, <2>3 DEF Survives, Present, Idle, Harmless
<1>5. CASE \E k \in Keys : StartWorkflow(c, k)
  BY <1>1, <1>5 DEF Survives, Present, Harmless
<1> QED
  BY Zenon, <1>2, <1>3, <1>4, <1>5

\* A thread at rest is not inside a call.
LEMMA IdleAt == Idle.at = "idle"
BY Zenon DEF Idle

\* Polling, the end of a step and the other calls are harmless too.
LEMMA CallFrame ==
  ASSUME TypeOK, NEW c \in Clients,
         \/ PollTask(c) \/ StepNext(c)
         \/ \E k \in Keys : \/ \E p \in Payloads : SignalWorkflow(c, k, p)
                            \/ \E how \in Closings : CloseWorkflow(c, k, how)
                            \/ \E n \in Steps : ResetWorkflow(c, k, n)
                            \/ PurgeWorkflow(c, k)
         \/ SignalApply(c) \/ SignalNext(c) \/ TakeSignal(c) \/ CompleteWorkflow(c)
         \/ CloseShow(c) \/ CloseLog(c) \/ ResetShow(c) \/ PurgeHide(c)
  PROVE  Harmless(c)
<1>0. /\ pool \in [Keys -> Contexts]
      /\ log \in Seq(Records) /\ synced \in 0 .. Len(log)
      /\ thread \in [Clients -> Threads]
      /\ acked \subseteq [key : Keys, step : Steps, started : BOOLEAN]
  BY Zenon, Types
<1>t. thread[c] \in Threads
  BY Zenon, <1>0
<1>1. CASE PollTask(c)
  <2>1. /\ Extended /\ serving' = serving /\ torn' = torn /\ serving
        /\ acked' = acked /\ pool' = pool
    BY <1>0, <1>1 DEF PollTask, control, Extended
  <2>2. thread' = [thread EXCEPT ![c] = thread'[c]] /\ thread'[c].at = "working"
    BY SMTT(30), <1>0, <1>1 DEF PollTask, GoTo
  <2> QED
    BY Zenon, <2>1, <2>2 DEF Survives, Present, Harmless
<1>2. CASE StepNext(c) \/ SignalNext(c) \/ ResetShow(c) \/ PurgeHide(c)
  <2>1. /\ Extended /\ serving' = serving /\ torn' = torn
        /\ thread' = [thread EXCEPT ![c] = thread'[c]] /\ thread'[c] = Idle
        /\ acked' = acked /\ pool' = pool
    BY SMTT(30), <1>0, <1>2 DEF StepNext, SignalNext, ResetShow, PurgeHide, GoTo, control, Extended
  <2>2. thread[c] # Idle
    BY Zenon, <1>2, IdleAt DEF StepNext, SignalNext, ResetShow, PurgeHide
  <2> QED
    BY Zenon, <2>1, <2>2, IdleAt DEF Survives, Present, Harmless
<1>3. ASSUME NEW k \in Keys, NEW p \in Payloads, SignalWorkflow(c, k, p)
      PROVE  Harmless(c)
  <2>1. /\ serving' = serving /\ torn' = torn /\ serving
        /\ thread' = [thread EXCEPT ![c] = thread'[c]] /\ thread'[c].at = "signal:apply"
        /\ acked' = acked /\ pool' = pool
    BY Zenon, <1>0, <1>3 DEF SignalWorkflow, NewCall, GoTo, control
  <2>2. Extended
    <3>1. SignalReceived(k, p) \in Records
      BY Zenon, Built
    <3> QED
      BY Zenon, <1>3, <3>1, AppendedAfter DEF SignalWorkflow
  <2> QED
    BY Zenon, <2>1, <2>2 DEF Survives, Present, Harmless
<1>4. ASSUME NEW k \in Keys, NEW how \in Closings, CloseApply(c, k, how),
             thread[c] # Idle \/ serving
      PROVE  Harmless(c)
  <2>1. /\ Extended /\ serving' = serving /\ torn' = torn
        /\ thread' = [thread EXCEPT ![c] = thread'[c]] /\ thread'[c].at = "close:show"
        /\ acked' = acked
    BY <1>0, <1>4 DEF CloseApply, GoTo, control, Extended
  <2>2. /\ pool' = pool \/ pool' = [pool EXCEPT ![k].status = how]
        /\ how # "Absent"
    BY Zenon, <1>4, EngineAssumption DEF CloseApply
  <2>3. \A l \in Keys : pool'[l].done = pool[l].done /\ (pool[l].status # "Absent" => pool'[l].status # "Absent")
    BY <1>0, <2>2 DEF Contexts
  <2> QED
    BY Zenon, <1>0, <1>4, <2>1, <2>3 DEF Survives, Present, Harmless
<1>5. ASSUME NEW k \in Keys, NEW how \in Closings, CloseWorkflow(c, k, how)
      PROVE  Harmless(c)
  BY Zenon, <1>4, <1>5 DEF CloseWorkflow, NewCall
<1>6. CASE CompleteWorkflow(c)
  <2>1. thread[c].task.key \in Keys /\ thread[c] # Idle
    BY <1>6, <1>t, ThreadShape, TaskShape DEF CompleteWorkflow, Idle
  <2> QED
    BY ZenonT(30), <1>4, <1>6, <2>1, EngineAssumption DEF CompleteWorkflow
<1>7. ASSUME NEW k \in Keys, NEW n \in Steps, ResetWorkflow(c, k, n)
      PROVE  Harmless(c)
  <2>1. /\ Extended /\ serving' = serving /\ torn' = torn /\ serving
        /\ thread' = [thread EXCEPT ![c] = thread'[c]] /\ thread'[c].at = "reset:show"
    <3>1. /\ log' = log /\ synced' = synced /\ serving' = serving /\ torn' = torn /\ serving
          /\ thread' = [thread EXCEPT ![c] = [at |-> "reset:show", key |-> k]]
      BY Zenon, <1>7 DEF ResetWorkflow, NewCall, GoTo, control
    <3> QED
      BY SMTT(30), <1>0, <3>1 DEF Extended
  <2>2. /\ pool' = [pool EXCEPT ![k].done = {i \in @ : i < n}, ![k].status = "Running"]
        /\ acked' = {p \in acked : p.key = k => p.step < n}
    BY Zenon, <1>7 DEF ResetWorkflow
  <2>3. /\ pool'[k].done = {i \in pool[k].done : i < n} /\ pool'[k].status = "Running"
        /\ \A l \in Keys \ {k} : pool'[l] = pool[l]
    BY Zenon, <1>0, <2>2 DEF Contexts
  <2>4. \A p \in acked' : Survives(p) => Survives(p)'
    BY Zenon, <1>0, <2>2, <2>3 DEF Survives, Present
  <2>5. \A l \in Keys : pool'[l].done \subseteq pool[l].done
    BY Zenon, <2>3
  <2>6. acked' \subseteq acked
    BY Zenon, <2>2
  <2> QED
    BY Zenon, <2>1, <2>4, <2>5, <2>6 DEF Harmless
<1>8. ASSUME NEW k \in Keys, PurgeWorkflow(c, k)
      PROVE  Harmless(c)
  <2>1. /\ Extended /\ serving' = serving /\ torn' = torn /\ serving
        /\ thread' = [thread EXCEPT ![c] = thread'[c]] /\ thread'[c].at = "purge:hide"
    BY SMTT(30), <1>0, <1>8 DEF PurgeWorkflow, NewCall, GoTo, control, Extended
  <2>2. /\ pool' = [pool EXCEPT ![k] = Absent]
        /\ acked' = {p \in acked : p.key # k}
    BY Zenon, <1>8 DEF PurgeWorkflow, Forget
  <2>3. \A p \in acked' : pool'[p.key] = pool[p.key]
    BY Zenon, <1>0, <2>2
  <2>4. \A l \in Keys : pool'[l].done \subseteq pool[l].done
    BY Zenon, <1>0, <2>2 DEF Absent
  <2>5. acked' \subseteq acked
    BY Zenon, <2>2
  <2> QED
    BY Zenon, <2>1, <2>3, <2>4, <2>5 DEF Survives, Present, Harmless
<1>9. CASE SignalApply(c)
  <2>1. /\ Extended /\ serving' = serving /\ torn' = torn /\ thread[c] # Idle
        /\ thread' = [thread EXCEPT ![c] = thread'[c]]
        /\ acked' = acked
    BY <1>0, <1>9 DEF SignalApply, Move, GoTo, control, Extended, Idle
  <2>2. thread'[c].at = "signal:next"
    BY Zenon, <1>0, <1>9, <1>t DEF SignalApply, Move, GoTo, Threads, InStep, Idle
  <2>3. \A l \in Keys : pool'[l].done = pool[l].done /\ pool'[l].status = pool[l].status
    BY Zenon, <1>0, <1>9 DEF SignalApply, Contexts
  <2> QED
    BY Zenon, <1>0, <2>1, <2>2, <2>3 DEF Survives, Present, Harmless
<1>10. CASE TakeSignal(c)
  <2>1. /\ Extended /\ serving' = serving /\ torn' = torn /\ thread[c] # Idle
        /\ thread' = [thread EXCEPT ![c] = thread'[c]] /\ thread'[c] = Idle
        /\ acked' = acked
    <3>1. /\ log' = log /\ synced' = synced /\ serving' = serving /\ torn' = torn
          /\ thread' = [thread EXCEPT ![c] = Idle] /\ thread[c].at = "working" /\ acked' = acked
      BY Zenon, <1>10 DEF TakeSignal, GoTo, control
    <3> QED
      BY SMTT(30), <1>0, <3>1 DEF Extended, Idle
  <2>2. \A l \in Keys : pool'[l].done = pool[l].done /\ pool'[l].status = pool[l].status
    <3>1. CASE pool' = pool
      BY Zenon, <3>1
    <3>2. ASSUME NEW k, NEW x, pool' = [pool EXCEPT ![k].signals = x]
          PROVE  \A l \in Keys : pool'[l].done = pool[l].done /\ pool'[l].status = pool[l].status
      BY Zenon, <1>0, <3>2 DEF Contexts
    <3> QED
      BY Zenon, <1>10, <3>1, <3>2 DEF TakeSignal
  <2> QED
    BY Zenon, <1>0, <2>1, <2>2, IdleAt DEF Survives, Present, Harmless
<1>11. CASE CloseShow(c)
  <2>1. /\ Extended /\ serving' = serving /\ torn' = torn /\ thread[c] # Idle
        /\ thread' = [thread EXCEPT ![c] = thread'[c]]
        /\ acked' = acked /\ pool' = pool
    BY <1>0, <1>11 DEF CloseShow, Move, GoTo, control, Extended, Idle
  <2>2. thread'[c].at = "close:log"
    BY ZenonT(30), <1>0, <1>11, <1>t DEF CloseShow, Move, GoTo, Threads, InStep, Idle
  <2> QED
    BY Zenon, <2>1, <2>2 DEF Survives, Present, Harmless
<1>12. CASE CloseLog(c)
  <2>1. thread[c].key \in Keys /\ thread[c].how \in Closings
    BY Zenon, <1>12, <1>t, ThreadShape DEF CloseLog
  <2>2. /\ serving' = serving /\ torn' = torn /\ thread[c] # Idle
        /\ thread' = [thread EXCEPT ![c] = thread'[c]] /\ thread'[c] = Idle
        /\ acked' = acked /\ pool' = pool
    BY <1>0, <1>12 DEF CloseLog, GoTo, control, Idle
  <2>3. Extended
    <3>1. Closed(thread[c].key, thread[c].how) \in Records
      BY Zenon, <2>1, Built
    <3> QED
      BY Zenon, <1>12, <3>1, AppendedAfter DEF CloseLog
  <2> QED
    BY Zenon, <2>2, <2>3, IdleAt DEF Survives, Present, Harmless
<1> QED
  BY Zenon, <1>1, <1>2, <1>3, <1>5, <1>6, <1>7, <1>8, <1>9, <1>10, <1>11, <1>12

-----------------------------------------------------------------------------
\* A harmless step keeps the invariant.
LEMMA HarmlessInv ==
  ASSUME DurabilityInv, TypeOK', NEW c \in Clients, Harmless(c)
  PROVE  DurabilityInv'
<1>0. /\ pool \in [Keys -> Contexts] /\ pool' \in [Keys -> Contexts]
      /\ log \in Seq(Records) /\ synced \in 0 .. Len(log) /\ synced' \in Int
      /\ log' \in Seq(Records) /\ thread \in [Clients -> Threads]
      /\ acked \subseteq [key : Keys, step : Steps, started : BOOLEAN]
  BY DEF DurabilityInv, TypeOK, Contexts
<1>1. serving /\ serving' /\ TypeOK /\ Extended
  BY Zenon DEF DurabilityInv, Quiet, Harmless
<1>2. ASSUME NEW k, NEW r
      PROVE  /\ Logged(r) => Logged(r)'
             /\ After(k, Len(log), r) => After(k, Len(log), r)'
             /\ After(k, synced, r) => After(k, synced, r)'
  BY Zenon, <1>1, Monotone
<1>3. InFlight'
  <2> SUFFICES ASSUME NEW d \in Clients PROVE StepInFlight(thread[d])'
    BY Zenon DEF InFlight
  <2>1. CASE d = c
    BY Zenon, <2>1 DEF Harmless, StepInFlight
  <2>2. CASE d # c
    <3>1. thread'[d] = thread[d]
      BY Zenon, <1>0, <2>2 DEF Harmless
    <3>2. StepInFlight(thread[d])
      BY Zenon DEF DurabilityInv, InFlight
    <3> QED
      BY Zenon, <1>2, <3>1, <3>2 DEF StepInFlight, StepCompleted
  <2> QED
    BY Zenon, <2>1, <2>2
<1>4. AckedOnDisk'
  BY Zenon, <1>2 DEF DurabilityInv, AckedOnDisk, Harmless, StepCompleted
<1>5. StepsAreLogged'
  BY Zenon, <1>2 DEF DurabilityInv, StepsAreLogged, Harmless, StepCompleted
<1>6. StartedStepSurvives'
  BY Zenon, <1>1 DEF DurabilityInv, StartedStepSurvives, Harmless
<1> QED
  BY Zenon, <1>1, <1>3, <1>4, <1>5, <1>6 DEF DurabilityInv, Quiet, RecoversTheLog

\* Logging a step leaves on record what its thread will rely on.
LEMMA StepLogInv ==
  ASSUME DurabilityInv, TypeOK', NEW c \in Clients, NEW strict \in BOOLEAN, StepLog(c, strict)
  PROVE  DurabilityInv'
<1>0. /\ log \in Seq(Records) /\ synced \in 0 .. Len(log) /\ TypeOK
      /\ log' \in Seq(Records) /\ thread \in [Clients -> Threads]
  BY Zenon DEF DurabilityInv, TypeOK
<1>1. PICK k \in Keys, i \in Steps : k = thread[c].task.key /\ i = thread[c].task.step
  <2>1. thread[c] \in Threads
    BY Zenon, <1>0
  <2> QED
    BY Zenon, <2>1, ThreadShape, TaskShape DEF StepLog
<1>r. PICK r \in Records : r = StepCompleted(k, i)
  BY Zenon, Built
<1>2. /\ log' = Append(log, r) /\ synced' = synced /\ pool' = pool /\ acked' = acked
      /\ serving' = serving /\ torn' = torn /\ thread[c].at = "working"
      /\ thread' = [thread EXCEPT ![c] =
           [at |-> IF strict THEN "step:sync" ELSE "step:apply", key |-> k, step |-> i,
            strict |-> strict, started |-> Logged(Started(k))]]
  BY Zenon, <1>1, <1>r DEF StepLog, StepAppended, GoTo, control
<1>3. serving /\ serving'
  BY <1>2 DEF DurabilityInv, Quiet, Idle
<1>5. Extended
  BY Zenon, <1>0, <1>2, AppendedAfter
<1>6. ASSUME NEW l, NEW q
      PROVE  /\ Logged(q) => Logged(q)'
             /\ After(l, Len(log), q) => After(l, Len(log), q)'
             /\ After(l, synced, q) => After(l, synced, q)'
  BY Zenon, <1>0, <1>5, Monotone
<1>7. InFlight'
  <2> SUFFICES ASSUME NEW d \in Clients PROVE StepInFlight(thread[d])'
    BY Zenon DEF InFlight
  <2>1. CASE d = c
    <3>1. /\ thread'[d].key = k /\ thread'[d].step = i /\ thread'[d].strict = strict
          /\ thread'[d].started = Logged(Started(k))
          /\ thread'[d].at = IF strict THEN "step:sync" ELSE "step:apply"
      BY Zenon, <1>0, <1>2, <2>1
    <3>2. Logged(r)'
      BY Zenon, <1>0, <1>2, AppendedAfter
    <3>3. Logged(Started(k)) => After(k, Len(log), r)'
      BY SMTT(30), <1>0, <1>2, AppendedAfter DEF After, Started
    <3> QED
      BY Zenon, <1>r, <3>1, <3>2, <3>3 DEF StepInFlight, StepCompleted
  <2>2. CASE d # c
    <3>1. thread'[d] = thread[d]
      BY Zenon, <1>0, <1>2, <2>2
    <3>2. StepInFlight(thread[d])
      BY Zenon DEF DurabilityInv, InFlight
    <3> QED
      BY Zenon, <1>6, <3>1, <3>2 DEF StepInFlight, StepCompleted
  <2> QED
    BY Zenon, <2>1, <2>2
<1>8. AckedOnDisk' /\ StepsAreLogged' /\ StartedStepSurvives'
  BY Zenon, <1>2, <1>3, <1>6 DEF DurabilityInv, AckedOnDisk, StepsAreLogged, StartedStepSurvives, StepCompleted, Survives, Present
<1> QED
  BY Zenon, <1>3, <1>7, <1>8 DEF DurabilityInv, Quiet, RecoversTheLog

\* The forced sync puts the step on disk before it is applied.
LEMMA StepSyncInv ==
  ASSUME DurabilityInv, TypeOK', NEW c \in Clients, StepSync(c)
  PROVE  DurabilityInv'
<1>0. /\ log \in Seq(Records) /\ synced \in 0 .. Len(log) /\ TypeOK
      /\ log' \in Seq(Records) /\ thread \in [Clients -> Threads]
  BY Zenon DEF DurabilityInv, TypeOK
<1>1. thread[c] \in InStep
  <2>1. thread[c] \in Threads
    BY Zenon, <1>0
  <2> QED
    BY Zenon, <2>1, ThreadShape DEF StepSync
<1>2. /\ log' = log /\ synced' = Len(log) /\ pool' = pool /\ acked' = acked
      /\ serving' = serving /\ torn' = torn /\ thread[c].at = "step:sync"
      /\ thread' = [thread EXCEPT ![c] = [thread[c] EXCEPT !.at = "step:apply"]]
  BY Zenon DEF StepSync, ForcedSync, Move, GoTo, control
<1>3. serving /\ serving'
  BY <1>2 DEF DurabilityInv, Quiet, Idle
<1>5. Extended
  BY <1>0, <1>2 DEF Extended
<1>6. ASSUME NEW l, NEW q
      PROVE  /\ Logged(q) => Logged(q)'
             /\ After(l, Len(log), q) => After(l, Len(log), q)'
             /\ After(l, synced, q) => After(l, synced, q)'
  BY Zenon, <1>0, <1>5, Monotone
<1>7. InFlight'
  <2> SUFFICES ASSUME NEW d \in Clients PROVE StepInFlight(thread[d])'
    BY Zenon DEF InFlight
  <2>1. StepInFlight(thread[d])
    BY Zenon DEF DurabilityInv, InFlight
  <2>2. CASE d = c
    <3>1. /\ thread'[d].key = thread[d].key /\ thread'[d].step = thread[d].step
          /\ thread'[d].started = thread[d].started /\ thread[d].at = "step:sync"
      BY Zenon, <1>0, <1>1, <1>2, <2>2 DEF InStep
    <3>2. ASSUME NEW l, NEW q, After(l, Len(log), q)
          PROVE  After(l, synced, q)'
      BY Zenon, <1>2, <3>2 DEF After, Started
    <3> QED
      BY Zenon, <1>6, <2>1, <3>1, <3>2 DEF StepInFlight, StepCompleted
  <2>3. CASE d # c
    <3>1. thread'[d] = thread[d]
      BY Zenon, <1>0, <1>2, <2>3
    <3> QED
      BY Zenon, <1>6, <2>1, <3>1 DEF StepInFlight, StepCompleted
  <2> QED
    BY Zenon, <2>2, <2>3
<1>8. AckedOnDisk' /\ StepsAreLogged' /\ StartedStepSurvives'
  BY Zenon, <1>2, <1>3, <1>6 DEF DurabilityInv, AckedOnDisk, StepsAreLogged, StartedStepSurvives, StepCompleted, Survives, Present
<1> QED
  BY Zenon, <1>3, <1>7, <1>8 DEF DurabilityInv, Quiet, RecoversTheLog

\* Applying a step acknowledges one that is on disk.
LEMMA StepApplyInv ==
  ASSUME DurabilityInv, TypeOK', NEW c \in Clients, StepApply(c)
  PROVE  DurabilityInv'
<1>0. /\ log \in Seq(Records) /\ synced \in 0 .. Len(log) /\ TypeOK
      /\ pool \in [Keys -> Contexts] /\ thread \in [Clients -> Threads]
      /\ acked \subseteq [key : Keys, step : Steps, started : BOOLEAN]
  BY Zenon DEF DurabilityInv, TypeOK, Contexts
<1>1. PICK t \in InStep : t = thread[c]
  <2>1. thread[c] \in Threads
    BY Zenon, <1>0
  <2> QED
    BY Zenon, <2>1, ThreadShape DEF StepApply
<1>2. /\ log' = log /\ synced' = synced /\ serving' = serving /\ torn' = torn
      /\ t.at = "step:apply"
  BY Zenon, <1>1 DEF StepApply, control
<1>3. serving /\ serving'
  BY <1>1, <1>2 DEF DurabilityInv, Quiet, Idle
<1>4. t.key \in Keys /\ t.step \in Steps /\ StepInFlight(t)
  BY Zenon, <1>1 DEF InStep, DurabilityInv, InFlight
<1>5. /\ \A d \in Clients \ {c} : thread'[d] = thread[d]
      /\ thread'[c].at \in {"step:next", "idle"}
  BY <1>0, <1>1 DEF StepApply, Move, GoTo, InStep, Idle
<1>6. ASSUME NEW k, NEW n, NEW q
      PROVE  Logged(q)' = Logged(q) /\ After(k, synced, q)' = After(k, synced, q)
             /\ After(k, Len(log), q)' = After(k, Len(log), q)
  BY Zenon, <1>2 DEF Logged, After, Started
<1>7. InFlight'
  <2> SUFFICES ASSUME NEW d \in Clients PROVE StepInFlight(thread[d])'
    BY Zenon DEF InFlight
  <2>1. CASE d = c
    BY Zenon, <1>5, <2>1 DEF StepInFlight
  <2>2. CASE d # c
    <3>1. StepInFlight(thread[d]) /\ thread'[d] = thread[d]
      BY Zenon, <1>5, <2>2 DEF DurabilityInv, InFlight
    <3> QED
      BY <1>6, <3>1 DEF StepInFlight, StepCompleted
  <2> QED
    BY Zenon, <2>1, <2>2
<1>8. CASE ~Present(t.key)
  <2>1. pool' = pool /\ acked' = acked
    BY Zenon, <1>1, <1>8 DEF StepApply
  <2>2. AckedOnDisk' /\ StepsAreLogged' /\ StartedStepSurvives'
    BY SMTT(30), <1>2, <1>3, <1>6, <2>1 DEF DurabilityInv, AckedOnDisk, StepsAreLogged, StartedStepSurvives, StepCompleted, Survives, Present
  <2> QED
    BY Zenon, <1>3, <1>7, <2>2 DEF DurabilityInv, Quiet, RecoversTheLog
<1>9. CASE Present(t.key)
  <2>1. /\ pool' = [pool EXCEPT ![t.key].done = @ \cup {t.step}]
        /\ acked' = acked \cup IF t.strict
                      THEN {[key |-> t.key, step |-> t.step, started |-> t.started]} ELSE {}
    BY Zenon, <1>1, <1>9 DEF StepApply
  <2>2. /\ pool'[t.key].done = pool[t.key].done \cup {t.step}
        /\ pool'[t.key].status = pool[t.key].status
        /\ \A k \in Keys \ {t.key} : pool'[k] = pool[k]
    BY Zenon, <1>0, <1>4, <2>1 DEF Contexts
  <2>a. \A p \in acked' \ acked : t.strict /\ p.key = t.key /\ p.step = t.step /\ p.started = t.started
    BY <2>1
  <2>3. AckedOnDisk'
    <3> SUFFICES ASSUME NEW p \in acked', p.started
                 PROVE  After(p.key, synced, StepCompleted(p.key, p.step))'
      BY Zenon DEF AckedOnDisk
    <3>1. CASE p \in acked
      BY <1>6, <3>1 DEF DurabilityInv, AckedOnDisk, StepCompleted
    <3>2. CASE p \notin acked
      <4>1. t.strict /\ p.key = t.key /\ p.step = t.step /\ p.started = t.started
        BY Zenon, <2>a, <3>2
      <4> QED
        BY <1>2, <1>4, <1>6, <4>1 DEF StepInFlight, StepCompleted
    <3> QED
      BY Zenon, <3>1, <3>2
  <2>4. StepsAreLogged'
    <3> SUFFICES ASSUME NEW k \in Keys, NEW i \in pool'[k].done
                 PROVE  Logged(StepCompleted(k, i))'
      BY Zenon DEF StepsAreLogged
    <3>1. CASE i \in pool[k].done
      BY Zenon, <1>6, <3>1 DEF DurabilityInv, StepsAreLogged, StepCompleted
    <3>2. CASE i \notin pool[k].done
      <4>1. k = t.key /\ i = t.step
        BY Zenon, <2>2, <3>2
      <4> QED
        BY Zenon, <1>2, <1>4, <1>6, <4>1 DEF StepInFlight, StepCompleted
    <3> QED
      BY Zenon, <3>1, <3>2
  <2>5. StartedStepSurvives'
    <3> SUFFICES ASSUME ~torn', NEW p \in acked', p.started
                 PROVE  Survives(p)'
      BY Zenon DEF StartedStepSurvives
    <3>1. CASE p \in acked
      <4>1. p.key \in Keys /\ Survives(p)
        BY Zenon, <1>0, <1>2, <1>3, <3>1 DEF DurabilityInv, StartedStepSurvives
      <4> QED
        BY <2>2, <4>1 DEF Survives, Present
    <3>2. CASE p \notin acked
      <4>1. p.key = t.key /\ p.step = t.step
        BY Zenon, <2>a, <3>2
      <4> QED
        BY Zenon, <1>9, <2>2, <4>1 DEF Survives, Present
    <3> QED
      BY Zenon, <3>1, <3>2
  <2> QED
    BY Zenon, <1>3, <1>7, <2>3, <2>4, <2>5 DEF DurabilityInv, Quiet, RecoversTheLog
<1> QED
  BY Zenon, <1>8, <1>9

-----------------------------------------------------------------------------
\* What one more record adds to what the log says.
LEMMA OneMoreRecord ==
  ASSUME TypeOK, NEW k, NEW n \in Nat, n + 1 <= Len(log)
  PROVE  /\ (\E s \in 1 .. n + 1 : log[s] = Started(k))
              <=> (\E s \in 1 .. n : log[s] = Started(k)) \/ log[n + 1] = Started(k)
         /\ \A q : After(k, n + 1, q)
              <=> After(k, n, q) \/ (log[n + 1] = q /\ \E s \in 1 .. n : log[s] = Started(k))
         /\ \A how : LastClosing(k, n + 1, how)
              <=> \/ log[n + 1] = Closed(k, how) /\ \E s \in 1 .. n : log[s] = Started(k)
                  \/ LastClosing(k, n, how) /\ (log[n + 1].event = "closed" => log[n + 1].key # k)
<1>1. 1 .. n + 1 = (1 .. n) \cup {n + 1}
  OBVIOUS
<1>2. (\E s \in 1 .. n + 1 : log[s] = Started(k))
        <=> (\E s \in 1 .. n : log[s] = Started(k)) \/ log[n + 1] = Started(k)
  BY Zenon, <1>1
<1>3. ASSUME NEW q
      PROVE  After(k, n + 1, q)
               <=> After(k, n, q) \/ (log[n + 1] = q /\ \E s \in 1 .. n : log[s] = Started(k))
  BY SMTT(30), <1>1 DEF After
<1>4. ASSUME NEW how
      PROVE  LastClosing(k, n + 1, how)
               <=> \/ log[n + 1] = Closed(k, how) /\ \E s \in 1 .. n : log[s] = Started(k)
                   \/ LastClosing(k, n, how) /\ (log[n + 1].event = "closed" => log[n + 1].key # k)
  <2>1. ASSUME LastClosing(k, n + 1, how)
        PROVE  \/ log[n + 1] = Closed(k, how) /\ \E s \in 1 .. n : log[s] = Started(k)
               \/ LastClosing(k, n, how) /\ (log[n + 1].event = "closed" => log[n + 1].key # k)
    <3>1. PICK s \in 1 .. n + 1, m \in 1 .. n + 1 :
            /\ s < m /\ log[s] = Started(k) /\ log[m] = Closed(k, how)
            /\ \A j \in m + 1 .. n + 1 : log[j].event = "closed" => log[j].key # k
      BY Zenon, <2>1 DEF LastClosing
    <3>2. CASE m = n + 1
      BY <3>1, <3>2
    <3>3. CASE m # n + 1
      <4>1. s \in 1 .. n /\ m \in 1 .. n /\ n + 1 \in m + 1 .. n + 1
        BY <3>1, <3>3
      <4>2. \A j \in m + 1 .. n : log[j].event = "closed" => log[j].key # k
        BY <3>1, <4>1
      <4> QED
        BY Zenon, <3>1, <4>1, <4>2 DEF LastClosing
    <3> QED
      BY Zenon, <3>2, <3>3
  <2>2. ASSUME log[n + 1] = Closed(k, how), NEW s \in 1 .. n, log[s] = Started(k)
        PROVE  LastClosing(k, n + 1, how)
    <3>1. /\ s \in 1 .. n + 1 /\ n + 1 \in 1 .. n + 1 /\ s < n + 1
          /\ \A j \in (n + 1) + 1 .. n + 1 : log[j].event = "closed" => log[j].key # k
      OBVIOUS
    <3> QED
      BY Zenon, <2>2, <3>1 DEF LastClosing
  <2>3. ASSUME LastClosing(k, n, how), log[n + 1].event = "closed" => log[n + 1].key # k
        PROVE  LastClosing(k, n + 1, how)
    <3>1. PICK s \in 1 .. n, m \in 1 .. n :
            /\ s < m /\ log[s] = Started(k) /\ log[m] = Closed(k, how)
            /\ \A j \in m + 1 .. n : log[j].event = "closed" => log[j].key # k
      BY Zenon, <2>3 DEF LastClosing
    <3>2. s \in 1 .. n + 1 /\ m \in 1 .. n + 1 /\ m + 1 .. n + 1 = (m + 1 .. n) \cup {n + 1}
      OBVIOUS
    <3> QED
      BY Zenon, <2>3, <3>1, <3>2 DEF LastClosing
  <2> QED
    BY Zenon, <2>1, <2>2, <2>3
<1> QED
  BY Zenon, <1>2, <1>3, <1>4

\* Replaying the next record keeps a context in step with the log.
LEMMA ReplayRebuilds ==
  ASSUME TypeOK, NEW k \in Keys, NEW n \in Nat, n + 1 <= Len(log),
         NEW ctx \in Contexts, Rebuilt(ctx, k, n)
  PROVE  Rebuilt(IF log[n + 1].key = k THEN Replayed(ctx, log[n + 1]) ELSE ctx, k, n + 1)
<1> DEFINE r == log[n + 1]
           started == \E s \in 1 .. n : log[s] = Started(k)
<1>0. r \in Records
  BY SMTT(30) DEF TypeOK
<1>1. /\ (\E s \in 1 .. n + 1 : log[s] = Started(k)) <=> started \/ r = Started(k)
      /\ \A q : After(k, n + 1, q) <=> After(k, n, q) \/ (r = q /\ started)
      /\ \A how : LastClosing(k, n + 1, how)
           <=> \/ r = Closed(k, how) /\ started
               \/ LastClosing(k, n, how) /\ (r.event = "closed" => r.key # k)
  BY Zenon, OneMoreRecord
<1>2. /\ ctx.status # "Absent" <=> started
      /\ ctx.done = {i \in Steps : After(k, n, StepCompleted(k, i))}
      /\ ctx.signals = {p \in Payloads : After(k, n, SignalReceived(k, p))}
      /\ \A how \in Closings : ctx.status = how <=> LastClosing(k, n, how)
  BY Zenon DEF Rebuilt
<1>3. \A q : After(k, n, q) => started
  BY Zenon DEF After
<1>4. ctx.status \in Statuses /\ "Absent" \notin Closings /\ "Running" \notin Closings
  BY Zenon, EngineAssumption DEF Contexts
<1> HIDE DEF r, started
<1>5. ASSUME NEW new,
             new.status # "Absent" <=> started \/ r = Started(k),
             \A i \in Steps : i \in new.done <=> i \in ctx.done \/ (r = StepCompleted(k, i) /\ started),
             new.done \subseteq Steps,
             \A p \in Payloads : p \in new.signals <=> p \in ctx.signals \/ (r = SignalReceived(k, p) /\ started),
             new.signals \subseteq Payloads,
             \A how \in Closings : new.status = how
               <=> \/ r = Closed(k, how) /\ started
                   \/ ctx.status = how /\ (r.event = "closed" => r.key # k)
      PROVE  Rebuilt(new, k, n + 1)
  <2>1. new.status # "Absent" <=> \E s \in 1 .. n + 1 : log[s] = Started(k)
    BY Zenon, <1>1, <1>5
  <2>2. new.done = {i \in Steps : After(k, n + 1, StepCompleted(k, i))}
    BY Zenon, <1>1, <1>2, <1>5
  <2>3. new.signals = {p \in Payloads : After(k, n + 1, SignalReceived(k, p))}
    BY Zenon, <1>1, <1>2, <1>5
  <2>4. \A how \in Closings : new.status = how <=> LastClosing(k, n + 1, how)
    BY Zenon, <1>1, <1>2, <1>5
  <2> QED
    BY Zenon, <2>1, <2>2, <2>3, <2>4 DEF Rebuilt
<1>6. CASE r.key # k
  <2>1. /\ r # Started(k) /\ (\A i : r # StepCompleted(k, i)) /\ (\A p : r # SignalReceived(k, p))
        /\ \A how : r # Closed(k, how)
    BY <1>6 DEF Started, StepCompleted, SignalReceived, Closed
  <2>2. ctx.done \subseteq Steps /\ ctx.signals \subseteq Payloads
    BY Zenon DEF Contexts
  <2>3. Rebuilt(ctx, k, n + 1)
    BY Zenon, <1>2, <1>5, <1>6, <2>1, <2>2
  <2> QED
    BY Zenon, <1>6, <2>3 DEF r
<1>7. CASE r.key = k
  <2> DEFINE new == Replayed(ctx, r)
  <2> SUFFICES Rebuilt(new, k, n + 1)
    BY Zenon, <1>7 DEF r
  <2>0. new \in Contexts
    BY Zenon, <1>0, ReplayType
  <2> HIDE DEF new
  <2>t. new.done \subseteq Steps /\ new.signals \subseteq Payloads
    BY Zenon, <2>0 DEF Contexts
  <2>1. CASE r \in [event : {"started"}, key : Keys]
    <3>1. new = IF ctx.status = "Absent" THEN NewContext ELSE ctx
      BY Zenon, <2>1 DEF new, Replayed, ReplayStarted
    <3>2. /\ r = Started(k) /\ (\A i : r # StepCompleted(k, i)) /\ (\A p : r # SignalReceived(k, p))
          /\ (\A how : r # Closed(k, how)) /\ r.event # "closed"
      BY SMTT(30), <1>7, <2>1 DEF Started, StepCompleted, SignalReceived, Closed
    <3>3. CASE ctx.status = "Absent"
      <4>1. ctx.done = {} /\ ctx.signals = {}
        BY Zenon, <1>2, <1>3, <3>3
      <4>2. new.status = "Running" /\ new.done = {} /\ new.signals = {}
        BY Zenon, <3>1, <3>3 DEF NewContext
      <4> QED
        BY Zenon, <1>4, <1>5, <3>2, <3>3, <4>1, <4>2, <2>t
    <3>4. CASE ctx.status # "Absent"
      BY ZenonT(30), <1>2, <1>5, <3>1, <3>2, <3>4, <2>t
    <3> QED
      BY Zenon, <3>3, <3>4
  <2>2. CASE r \in [event : {"step"}, key : Keys, step : Steps]
    <3>1. new = IF ctx.status = "Absent" THEN ctx ELSE [ctx EXCEPT !.done = @ \cup {r.step}]
      BY Zenon, <2>2 DEF new, Replayed, ReplayStep
    <3>2. /\ r # Started(k) /\ (\A i : r = StepCompleted(k, i) <=> i = r.step)
          /\ (\A p : r # SignalReceived(k, p)) /\ (\A how : r # Closed(k, how)) /\ r.event # "closed"
      BY SMTT(30), <1>7, <2>2 DEF Started, StepCompleted, SignalReceived, Closed
    <3>3. /\ new.status = ctx.status /\ new.signals = ctx.signals
          /\ new.done = IF started THEN ctx.done \cup {r.step} ELSE ctx.done
      BY Zenon, <1>2, <3>1 DEF Contexts
    <3> QED
      BY Zenon, <1>2, <1>5, <3>2, <3>3, <2>t
  <2>3. CASE r \in [event : {"signal"}, key : Keys, payload : Payloads]
    <3>1. new = IF ctx.status = "Absent" THEN ctx ELSE [ctx EXCEPT !.signals = @ \cup {r.payload}]
      BY Zenon, <2>3 DEF new, Replayed, ReplaySignal
    <3>2. /\ r # Started(k) /\ (\A i : r # StepCompleted(k, i))
          /\ (\A p : r = SignalReceived(k, p) <=> p = r.payload)
          /\ (\A how : r # Closed(k, how)) /\ r.event # "closed"
      BY <1>7, <2>3 DEF Started, StepCompleted, SignalReceived, Closed
    <3>3. /\ new.status = ctx.status /\ new.done = ctx.done
          /\ new.signals = IF started THEN ctx.signals \cup {r.payload} ELSE ctx.signals
      BY Zenon, <1>2, <3>1 DEF Contexts
    <3> QED
      BY Zenon, <1>2, <1>5, <3>2, <3>3, <2>t
  <2>4. CASE r \in [event : {"closed"}, key : Keys, how : Closings]
    <3>1. new = IF ctx.status = "Absent" THEN ctx ELSE [ctx EXCEPT !.status = r.how]
      BY Zenon, <2>4 DEF new, Replayed, ReplayClosed
    <3>2. /\ r # Started(k) /\ (\A i : r # StepCompleted(k, i)) /\ (\A p : r # SignalReceived(k, p))
          /\ (\A how : r = Closed(k, how) <=> how = r.how) /\ r.event = "closed" /\ r.how \in Closings
      BY SMTT(30), <1>7, <2>4 DEF Started, StepCompleted, SignalReceived, Closed
    <3>3. /\ new.done = ctx.done /\ new.signals = ctx.signals
          /\ new.status = IF started THEN r.how ELSE "Absent"
      BY Zenon, <1>2, <3>1 DEF Contexts
    <3> QED
      BY Zenon, <1>2, <1>4, <1>5, <1>7, <3>2, <3>3, <2>t
  <2> QED
    BY Zenon, <1>0, <2>1, <2>2, <2>3, <2>4 DEF Records
<1> QED
  BY Zenon, <1>6, <1>7

-----------------------------------------------------------------------------
\* A failure leaves nothing in memory and everything synced on disk.
LEMMA FailureInv ==
  ASSUME DurabilityInv, TypeOK', PowerFailure \/ ProcessDeath
  PROVE  DurabilityInv'
<1>0. /\ log \in Seq(Records) /\ synced \in 0 .. Len(log) /\ TypeOK
      /\ log' \in Seq(Records) /\ synced' \in 0 .. Len(log')
  BY Zenon DEF DurabilityInv, TypeOK
<1>1. Restart /\ ~serving' /\ cursor' = 0 /\ acked' = acked
  BY Zenon DEF PowerFailure, ProcessDeath, Restart
<1>2. \A c \in Clients : thread'[c] = Idle
  BY Zenon, <1>1 DEF Restart
<1>3. \A k \in Keys : pool'[k] = Absent
  BY Zenon, <1>1 DEF Restart
<1>4. synced <= synced' /\ \A m \in 1 .. synced : log'[m] = log[m]
  <2>1. CASE PowerFailure
    <3>1. PICK n \in synced .. Len(log) : log' = SubSeq(log, 1, n) /\ synced' = n
      BY Zenon, <2>1 DEF PowerFailure
    <3>2. n \in 0 .. Len(log)
      BY <1>0
    <3>3. \A m \in 1 .. n : log'[m] = log[m]
      BY Zenon, <1>0, <3>1, <3>2, LogCut
    <3> QED
      BY <1>0, <3>1, <3>3
  <2>2. CASE ProcessDeath
    BY <1>0, <2>2 DEF ProcessDeath, disk
  <2> QED
    BY Zenon, <2>1, <2>2
<1>5. Quiet'
  BY <1>0, <1>1, <1>2 DEF Quiet
<1>6. InFlight'
  BY SMTT(30), <1>2 DEF InFlight, StepInFlight, Idle
<1>7. AckedOnDisk'
  <2> SUFFICES ASSUME NEW p \in acked, p.started
               PROVE  After(p.key, synced, StepCompleted(p.key, p.step))'
    BY Zenon, <1>1 DEF AckedOnDisk
  <2>1. PICK s \in 1 .. synced, m \in 1 .. synced :
          s < m /\ log[s] = Started(p.key) /\ log[m] = StepCompleted(p.key, p.step)
    BY Zenon DEF DurabilityInv, AckedOnDisk, After
  <2>2. /\ s \in 1 .. synced' /\ m \in 1 .. synced' /\ s < m
        /\ log'[s] = Started(p.key) /\ log'[m] = StepCompleted(p.key, p.step)
    BY <1>0, <1>4, <2>1
  <2> QED
    BY Zenon, <2>2 DEF After, Started, StepCompleted
<1>8. RecoversTheLog'
  <2>1. \A k \in Keys : Rebuilt(pool[k], k, cursor)'
    BY SMTT(30), <1>1, <1>3, EngineAssumption DEF Rebuilt, Absent, After, LastClosing
  <2> QED
    BY Zenon, <2>1 DEF RecoversTheLog
<1>9. StepsAreLogged' /\ StartedStepSurvives'
  BY <1>1, <1>3 DEF StepsAreLogged, StartedStepSurvives, Absent
<1> QED
  BY Zenon, <1>5, <1>6, <1>7, <1>8, <1>9 DEF DurabilityInv

\* Recovery replays the log in order and serves when it has replayed it all.
LEMMA RecoveryInv ==
  ASSUME DurabilityInv, TypeOK', BackgroundSync \/ Recovery
  PROVE  DurabilityInv'
<1>0. /\ log \in Seq(Records) /\ synced \in 0 .. Len(log) /\ TypeOK
      /\ pool \in [Keys -> Contexts] /\ cursor \in Nat
      /\ acked \subseteq [key : Keys, step : Steps, started : BOOLEAN]
  BY Zenon DEF DurabilityInv, TypeOK, Contexts
<1>1. log' = log /\ thread' = thread /\ acked' = acked /\ synced <= synced' /\ torn' = torn
  BY <1>0 DEF BackgroundSync, Recovery, ReplayRecord, RecoveryDone, RecoveryFails, control
<1>2. Extended
  BY <1>0, <1>1 DEF Extended
<1>3. ASSUME NEW k, NEW q
      PROVE  /\ Logged(q) => Logged(q)'
             /\ After(k, Len(log), q) => After(k, Len(log), q)'
             /\ After(k, synced, q) => After(k, synced, q)'
  BY Zenon, <1>0, <1>2, Monotone
<1>4. InFlight' /\ AckedOnDisk'
  <2>1. ASSUME NEW c \in Clients PROVE StepInFlight(thread[c])'
    <3>1. StepInFlight(thread[c]) /\ thread'[c] = thread[c]
      BY Zenon, <1>1 DEF DurabilityInv, InFlight
    <3> QED
      BY Zenon, <1>3, <3>1 DEF StepInFlight, StepCompleted
  <2>2. AckedOnDisk'
    BY Zenon, <1>1, <1>3 DEF DurabilityInv, AckedOnDisk, StepCompleted
  <2> QED
    BY Zenon, <2>1, <2>2 DEF InFlight
<1>5. CASE BackgroundSync
  <2>1. pool' = pool /\ serving' = serving /\ cursor' = cursor
    BY Zenon, <1>5 DEF BackgroundSync, control
  <2>2. Quiet' /\ StepsAreLogged' /\ StartedStepSurvives'
    BY ZenonT(30), <1>1, <1>3, <2>1 DEF DurabilityInv, Quiet, StepsAreLogged, StartedStepSurvives, Survives, Present, StepCompleted
  <2>3. RecoversTheLog'
    BY <1>1, <2>1 DEF DurabilityInv, RecoversTheLog, Rebuilt, After, LastClosing, Started, StepCompleted, SignalReceived, Closed
  <2> QED
    BY Zenon, <1>4, <2>2, <2>3 DEF DurabilityInv
<1>6. CASE ReplayRecord
  <2>1. /\ ~serving /\ ~serving' /\ cursor' = cursor + 1 /\ cursor + 1 <= Len(log)
        /\ pool' = [pool EXCEPT ![log[cursor + 1].key] = Replayed(@, log[cursor + 1])]
    BY SMTT(30), <1>0, <1>6 DEF ReplayRecord
  <2>2. ASSUME NEW k \in Keys
        PROVE  Rebuilt(pool'[k], k, cursor + 1)
    <3>1. pool[k] \in Contexts /\ Rebuilt(pool[k], k, cursor)
      BY Zenon, <1>0, <2>1 DEF DurabilityInv, RecoversTheLog
    <3>2. pool'[k] = IF log[cursor + 1].key = k THEN Replayed(pool[k], log[cursor + 1]) ELSE pool[k]
      BY Zenon, <1>0, <2>1
    <3> QED
      BY Zenon, <1>0, <2>1, <3>1, <3>2, ReplayRebuilds
  <2>3. RecoversTheLog'
    <3>1. ASSUME NEW k, NEW q
          PROVE  /\ After(k, cursor, q)' <=> After(k, cursor + 1, q)
                 /\ LastClosing(k, cursor, q)' <=> LastClosing(k, cursor + 1, q)
      BY Zenon, <1>1, <2>1 DEF After, LastClosing, Started, Closed
    <3>2. ASSUME NEW k \in Keys
          PROVE  Rebuilt(pool[k], k, cursor)'
      <4>1. Rebuilt(pool'[k], k, cursor + 1)
        BY Zenon, <2>2
      <4> QED
        BY Zenon, <1>1, <2>1, <3>1, <4>1 DEF Rebuilt, Started, StepCompleted, SignalReceived
    <3> QED
      BY Zenon, <3>2 DEF RecoversTheLog
  <2>4. Quiet'
    BY Zenon, <1>1, <2>1 DEF DurabilityInv, Quiet
  <2>5. StepsAreLogged'
    <3> SUFFICES ASSUME NEW k \in Keys, NEW i \in pool'[k].done
                 PROVE  Logged(StepCompleted(k, i))'
      BY Zenon DEF StepsAreLogged
    <3>1. After(k, cursor + 1, StepCompleted(k, i))
      BY Zenon, <2>2 DEF Rebuilt
    <3>2. Logged(StepCompleted(k, i))
      BY <1>0, <2>1, <3>1 DEF After, Logged
    <3> QED
      BY Zenon, <1>3, <3>2 DEF StepCompleted
  <2>6. StartedStepSurvives'
    BY Zenon, <2>1 DEF StartedStepSurvives
  <2> QED
    BY Zenon, <1>4, <2>3, <2>4, <2>5, <2>6 DEF DurabilityInv
<1>7. CASE RecoveryDone
  <2>1. ~serving /\ serving' /\ cursor = Len(log) /\ pool' = pool
    BY Zenon, <1>7 DEF RecoveryDone
  <2>2. StepsAreLogged'
    BY Zenon, <1>3, <2>1 DEF DurabilityInv, StepsAreLogged, StepCompleted
  <2>3. StartedStepSurvives'
    <3> SUFFICES ASSUME NEW p \in acked, p.started PROVE Survives(p)
      BY Zenon, <1>1, <2>1 DEF StartedStepSurvives, Survives, Present
    <3>1. PICK k \in Keys, i \in Steps : k = p.key /\ i = p.step
      BY Zenon, <1>0
    <3>2. After(k, synced, StepCompleted(k, i))
      BY Zenon, <3>1 DEF DurabilityInv, AckedOnDisk
    <3>3. After(k, cursor, StepCompleted(k, i))
      BY <1>0, <2>1, <3>2 DEF After
    <3>4. \E s \in 1 .. cursor : log[s] = Started(k)
      BY Zenon, <3>3 DEF After
    <3>5. Rebuilt(pool[k], k, cursor)
      BY Zenon, <2>1 DEF DurabilityInv, RecoversTheLog
    <3> QED
      BY Zenon, <3>1, <3>3, <3>4, <3>5 DEF Rebuilt, Survives, Present
  <2> QED
    BY Zenon, <1>4, <2>1, <2>2, <2>3 DEF DurabilityInv, Quiet, RecoversTheLog
<1>8. CASE RecoveryFails
  <2>1. serving' /\ torn' /\ pool' = pool
    BY Zenon, <1>8 DEF RecoveryFails
  <2>2. StepsAreLogged'
    BY Zenon, <1>3, <2>1 DEF DurabilityInv, StepsAreLogged, StepCompleted
  <2> QED
    BY Zenon, <1>4, <2>1, <2>2 DEF DurabilityInv, Quiet, RecoversTheLog, StartedStepSurvives
<1> QED
  BY Zenon, <1>5, <1>6, <1>7, <1>8 DEF Recovery

-----------------------------------------------------------------------------
\* The engine starts with an empty log and an empty pool.
LEMMA InitInv == Init => DurabilityInv
<1> SUFFICES ASSUME Init PROVE DurabilityInv
  BY Zenon
<1>1. TypeOK
  BY Zenon, InitType
<1>2. InFlight
  BY Zenon DEF Init, InFlight, StepInFlight, Idle
<1>3. Quiet /\ AckedOnDisk /\ RecoversTheLog /\ StartedStepSurvives
  BY Zenon DEF Init, Quiet, AckedOnDisk, RecoversTheLog, StartedStepSurvives
<1>4. StepsAreLogged
  BY Zenon DEF Init, StepsAreLogged, Absent
<1> QED
  BY Zenon, <1>1, <1>2, <1>3, <1>4 DEF DurabilityInv

\* Every step of the engine keeps the invariant.
LEMMA NextInv == DurabilityInv /\ [Next]_vars => DurabilityInv'
<1> SUFFICES ASSUME DurabilityInv, [Next]_vars
             PROVE  DurabilityInv'
  BY Zenon
<1>1. TypeOK /\ TypeOK'
  BY Zenon, NextType DEF DurabilityInv
<1>2. ASSUME NEW c \in Clients, Call(c) \/ PollTask(c) \/ Continue(c)
      PROVE  DurabilityInv'
  <2>1. CASE Harmless(c)
    BY Zenon, <1>1, <2>1, HarmlessInv
  <2>2. CASE \E strict \in BOOLEAN : StepLog(c, strict)
    BY Zenon, <1>1, <2>2, StepLogInv
  <2>3. CASE StepSync(c)
    BY Zenon, <1>1, <2>3, StepSyncInv
  <2>4. CASE StepApply(c)
    BY Zenon, <1>1, <2>4, StepApplyInv
  <2>5. CASE Call(c) \/ PollTask(c)
    <3>1. Harmless(c)
      BY Zenon, <1>1, <2>5, StartFrame, CallFrame DEF Call
    <3> QED
      BY Zenon, <2>1, <3>1
  <2>6. CASE Continue(c)
    <3>1. Harmless(c) \/ (\E strict \in BOOLEAN : StepLog(c, strict)) \/ StepSync(c) \/ StepApply(c)
      BY Zenon, <1>1, <2>6, StartFrame, CallFrame DEF Continue, CompleteStep
    <3> QED
      BY Zenon, <2>1, <2>2, <2>3, <2>4, <3>1
  <2> QED
    BY Zenon, <1>2, <2>5, <2>6
<1>3. CASE UNCHANGED vars
  <2>1. Quiet' /\ RecoversTheLog'
    BY SMTT(30), <1>3 DEF vars, DurabilityInv, Quiet, RecoversTheLog, Rebuilt, After, LastClosing
  <2>2. InFlight' /\ AckedOnDisk'
    BY Zenon, <1>3 DEF vars, DurabilityInv, InFlight, StepInFlight, AckedOnDisk, Logged, After
  <2>3. StepsAreLogged' /\ StartedStepSurvives'
    BY Zenon, <1>3 DEF vars, DurabilityInv, StepsAreLogged, StartedStepSurvives, Survives, Present, Logged
  <2> QED
    BY ZenonT(30), <1>1, <2>1, <2>2, <2>3 DEF DurabilityInv
<1> QED
  BY Zenon, <1>1, <1>2, <1>3, FailureInv, RecoveryInv DEF Next

\* The inductive invariant holds in every reachable state.
THEOREM DurabilityInvariant == Spec => []DurabilityInv
BY InitInv, NextInv, PTL DEF Spec

\* Whatever fails and whenever, a step that complete_step_sync applied, and
\* whose record follows its workflow's start, is in the workflow's context
\* whenever the engine serves from an intact log.
THEOREM StartedStepsSurvive == Spec => []StartedStepSurvives
BY DurabilityInvariant, PTL DEF DurabilityInv

\* No context has a step that the log lacks, before and after any recovery.
THEOREM AppliedStepsAreLogged == Spec => []StepsAreLogged
BY DurabilityInvariant, PTL DEF DurabilityInv

\* recover_from_wal rebuilds exactly the contexts the log describes.
THEOREM RecoveryIsExact == Spec => []RecoversTheLog
BY DurabilityInvariant, PTL DEF DurabilityInv
=============================================================================
