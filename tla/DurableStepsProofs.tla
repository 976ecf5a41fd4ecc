------------------------- MODULE DurableStepsProofs -------------------------
(***************************************************************************)
(* Proofs about complete_step_durable for any number of workers and any    *)
(* batch size.  The bound on the loss is not inductive: it needs an        *)
(* account of how many steps may still be returned without an fsync.  A    *)
(* worker that has called fsync and not yet reset the counter (it is not   *)
(* Free) will grant a whole new batch when it does; the counter leaves     *)
(* Slack steps of the present one.  What is exposed plus what the counter  *)
(* still grants is at most a batch for every free worker.                  *)
(***************************************************************************)
EXTENDS DurableSteps, FiniteSetTheorems, TLAPS

\* Workers with an fsync to call, or a counter to reset.
Parked == {t \in Workers : worker[t].at \in {"sync", "reset"}}

\* Workers with no counter to reset.
Free == {t \in Workers : worker[t].at # "reset"}

\* Steps a batch of n still takes without an fsync, c being counted.
SlackOf(c, n) == IF c < n THEN n - 1 - c ELSE 0
Slack == SlackOf(steps_since_sync, sync_steps)

\* Each mode has its places.
PlacesInv ==
  \A t \in Workers :
    IF sync_steps = 0 THEN worker[t].at \in {"idle", "strict", "apply"}
                      ELSE worker[t].at # "strict"

\* A worker past its own fsync holds a step that is on disk.
CoveredInv ==
  io = "ok" =>
    \A t \in Workers :
      \/ worker[t].at = "reset"
      \/ sync_steps = 0 /\ worker[t].at = "apply"
      => worker[t].rec <= synced

\* Whoever takes the counter past the batch size is parked until it has
\* reset it.
CounterInv ==
  steps_since_sync = 0 \/ steps_since_sync < sync_steps + Cardinality(Parked)

LossInv ==
  io = "ok" =>
    IF sync_steps = 0 \/ Free = {} THEN Exposed = {}
    ELSE Cardinality(Exposed) + Slack <= Cardinality(Free) * (sync_steps - 1)

DurableInv == TypeOK /\ PlacesInv /\ CoveredInv /\ CounterInv /\ LossInv

-----------------------------------------------------------------------------
(* Facts about numbers and finite sets *)

\* One more batch.
LEMMA OneMore ==
  ASSUME NEW k \in Nat, NEW m \in Nat
  PROVE  (k + 1) * m = k * m + m
  OBVIOUS

\* At least one batch.
LEMMA AtLeastOne ==
  ASSUME NEW k \in Nat, k # 0, NEW m \in Nat
  PROVE  m <= k * m
<1>1. k - 1 \in Nat
  OBVIOUS
<1>2. ((k - 1) + 1) * m = (k - 1) * m + m
  BY <1>1, OneMore
<1>3. (k - 1) * m >= 0
  BY <1>1
<1>4. (k - 1) + 1 = k
  OBVIOUS
<1> QED
  BY <1>1, <1>2, <1>3, <1>4

\* No more batches than there are workers.
LEMMA NoMore ==
  ASSUME NEW k \in Nat, NEW w \in Nat, k <= w, NEW m \in Nat
  PROVE  k * m <= w * m
  OBVIOUS

\* A count that is not zero can be lowered.
LEMMA OneLess ==
  ASSUME NEW n \in Nat, n # 0
  PROVE  n - 1 \in Nat
  OBVIOUS

\* One step exposed is one step less to grant.
LEMMA OneStep ==
  ASSUME NEW e \in Nat, NEW e1 \in Nat, NEW s \in Nat, NEW s1 \in Nat, NEW b \in Nat,
         e1 <= e + 1, s1 + 1 = s, e + s <= b
  PROVE  e1 + s1 <= b
  OBVIOUS

\* How many steps the counter still grants before a sync is due.
LEMMA SlackBounds ==
  ASSUME NEW n \in Nat, n # 0, NEW c \in Nat
  PROVE  /\ SlackOf(c, n) \in Nat /\ SlackOf(c, n) <= n - 1
         /\ SlackOf(0, n) = n - 1
         /\ \A d \in Nat : c <= d => SlackOf(d, n) <= SlackOf(c, n)
         /\ ~(c + 1 >= n) => SlackOf(c + 1, n) + 1 = SlackOf(c, n)
  BY DEF SlackOf

\* Sets of workers can be counted.
LEMMA WorkerSets ==
  ASSUME NEW S \in SUBSET Workers
  PROVE  /\ IsFiniteSet(S) /\ Cardinality(S) \in Nat
         /\ Cardinality(S) <= Cardinality(Workers)
         /\ (S # {} => Cardinality(S) # 0)
         /\ Cardinality(Workers) \in Nat \ {0}
<1>1. IsFiniteSet(Workers) /\ Workers # {}
  BY DurableAssumption
<1>2. IsFiniteSet(S) /\ Cardinality(S) <= Cardinality(Workers)
  BY <1>1, FS_Subset
<1> QED
  BY <1>1, <1>2, FS_CardinalityType, FS_EmptySet

\* Sets of records can be counted.
LEMMA RecordSets ==
  ASSUME NEW n \in Nat, NEW S \in SUBSET (0 .. n)
  PROVE  IsFiniteSet(S) /\ Cardinality(S) \in Nat
<1>1. IsFiniteSet(0 .. n)
  BY FS_Interval
<1> QED
  BY Zenon, <1>1, FS_Subset, FS_CardinalityType

-----------------------------------------------------------------------------
(* The initial states *)

\* The inductive invariant holds at the start.
LEMMA InitInv ==
  ASSUME Init
  PROVE  DurableInv
<1>1. TypeOK
  BY DurableAssumption DEF Init, TypeOK, Idle, Places, NoRecord
<1>2. PlacesInv /\ CoveredInv /\ CounterInv
  <2>1. \A t \in Workers : worker[t].at = "idle"
    BY DEF Init, Idle
  <2> QED
    BY <2>1 DEF Init, PlacesInv, CoveredInv, CounterInv
<1>3. Exposed = {}
  BY DEF Init, Exposed
<1>4. LossInv
  <2>1. Free # {}
    BY DurableAssumption DEF Free, Init, Idle
  <2>2. Cardinality(Free) \in Nat /\ Cardinality(Free) # 0
    <3>1. Free \in SUBSET Workers
      BY DEF Free
    <3> QED
      BY <3>1, <2>1, WorkerSets
  <2>3. CASE sync_steps = 0
    BY <2>3, <1>3 DEF LossInv
  <2>4. CASE sync_steps # 0
    <3>1. sync_steps \in Nat /\ sync_steps - 1 \in Nat
      BY <2>4, <1>1, DurableAssumption DEF TypeOK
    <3>2. sync_steps - 1 <= Cardinality(Free) * (sync_steps - 1)
      BY <3>1, <2>2, AtLeastOne
    <3>3. Slack = sync_steps - 1
      BY <3>1, <2>4, SlackBounds DEF Slack, Init
    <3>4. Cardinality(Exposed) = 0
      BY <1>3, FS_EmptySet
    <3> QED
      BY <3>1, <3>2, <3>3, <3>4, <2>1, <2>4 DEF LossInv
  <2> QED
    BY <2>3, <2>4
<1> QED
  BY <1>1, <1>2, <1>4 DEF DurableInv

-----------------------------------------------------------------------------
(* Steps *)

\* What every step needs of the state it starts from.
LEMMA Types ==
  ASSUME TypeOK
  PROVE  /\ sync_steps \in Nat /\ appended \in Nat /\ synced \in Nat
         /\ synced <= appended /\ steps_since_sync \in Nat
         /\ io \in {"ok", "failed"}
         /\ \A t \in Workers : /\ worker[t].at \in Places
                              /\ worker[t].rec \in Nat
                              /\ worker[t].rec <= appended
                              /\ worker[t] = [at |-> worker[t].at,
                                             rec |-> worker[t].rec]
         /\ \A r \in returned : r \in Nat /\ r <= appended
  BY DurableAssumption DEF TypeOK

\* The exposed steps can be counted.
LEMMA ExposedFinite ==
  ASSUME TypeOK
  PROVE  IsFiniteSet(Exposed) /\ Cardinality(Exposed) \in Nat
<1>1. appended \in Nat
  BY Types
<1>2. Exposed \in SUBSET (0 .. appended)
  BY Zenon DEF Exposed, TypeOK
<1> QED
  BY Zenon, <1>1, <1>2, RecordSets

\* None is left when the whole log is on disk.
LEMMA AllSynced ==
  ASSUME TypeOK, synced' = appended, UNCHANGED returned
  PROVE  Exposed' = {}
<1>1. \A r \in returned : ~(r > appended)
  BY Types
<1> QED
  BY <1>1 DEF Exposed

\* A set that gains one element at most.
LEMMA OneMoreAtMost ==
  ASSUME NEW S, IsFiniteSet(S), NEW x, NEW T \in SUBSET (S \cup {x})
  PROVE  Cardinality(T) \in Nat /\ Cardinality(T) <= Cardinality(S) + 1
<1>1. IsFiniteSet(S \cup {x})
  BY FS_AddElement
<1>2. Cardinality(S) \in Nat /\ Cardinality(S \cup {x}) \in Nat
  BY <1>1, FS_CardinalityType
<1>3. Cardinality(S \cup {x}) = IF x \in S THEN Cardinality(S) ELSE Cardinality(S) + 1
  BY FS_AddElement
<1>4. IsFiniteSet(T) /\ Cardinality(T) <= Cardinality(S \cup {x})
  BY <1>1, FS_Subset
<1>5. Cardinality(T) \in Nat
  BY <1>4, FS_CardinalityType
<1> QED
  BY <1>2, <1>3, <1>4, <1>5

\* A call that returns keeps the types.
LEMMA ReturnsType ==
  ASSUME TypeOK, NEW t \in Workers, Returns(t), UNCHANGED appended
  PROVE  /\ worker' \in [Workers -> [at : Places, rec : 0 .. appended']]
         /\ returned' \subseteq 0 .. appended'
<1>1. worker[t].rec \in 0 .. appended /\ Idle \in [at : Places, rec : 0 .. appended]
  BY DEF TypeOK, Idle, Places, NoRecord
<1> QED
  BY Zenon, <1>1 DEF TypeOK, Returns

\* No action changes the durability mode.
LEMMA ModeIsFixed == Next => UNCHANGED sync_steps
BY DEF Next, CompleteStep, AppendStep, AppendFails, StrictSync, Apply, ApplyMissing, Count,
       SyncBatch, ResetCounter, BackgroundSync, PowerFailure

\* Every step keeps the types.
LEMMA TypeStep ==
  ASSUME TypeOK, Next
  PROVE  TypeOK'
<1>1. ASSUME NEW t \in Workers, AppendStep(t) PROVE TypeOK'
  BY <1>1, DurableAssumption DEF TypeOK, Next, AppendStep, AfterAppend, Places, NoRecord
<1>2. ASSUME NEW t \in Workers, AppendFails(t) PROVE TypeOK'
  BY <1>2, DurableAssumption DEF TypeOK, Next, AppendFails, AfterAppend, Places, NoRecord
<1>3. ASSUME NEW t \in Workers, StrictSync(t) PROVE TypeOK'
  BY <1>3, DurableAssumption DEF TypeOK, Next, StrictSync, SyncLog, GoTo, Places
<1>4. ASSUME NEW t \in Workers, Apply(t) PROVE TypeOK'
  BY <1>4, DurableAssumption DEF TypeOK, Next, Apply, Returns, Idle, NoRecord, GoTo, Places
<1>5. ASSUME NEW t \in Workers, ApplyMissing(t) PROVE TypeOK'
  BY <1>5, DurableAssumption DEF TypeOK, Next, ApplyMissing, Idle, NoRecord, Places
<1>6. ASSUME NEW t \in Workers, Count(t) PROVE TypeOK'
  <2>1. CASE Returns(t)
    <3>1. UNCHANGED <<appended, synced, io, failures, sync_steps>> /\ steps_since_sync' \in Nat
      BY <1>6 DEF TypeOK, Next, Count
    <3> QED
      BY <3>1, <2>1, ReturnsType DEF TypeOK
  <2>2. CASE GoTo(t, "sync") /\ UNCHANGED returned
    BY <1>6, <2>2, DurableAssumption DEF TypeOK, Next, Count, GoTo, Places
  <2> QED
    BY <1>6, <2>1, <2>2 DEF Count
<1>7. ASSUME NEW t \in Workers, SyncBatch(t) PROVE TypeOK'
  BY <1>7, DurableAssumption DEF TypeOK, Next, SyncBatch, SyncLog, GoTo, Places
<1>8. ASSUME NEW t \in Workers, ResetCounter(t) PROVE TypeOK'
  <2>1. UNCHANGED <<appended, synced, io, failures, sync_steps>> /\ steps_since_sync' \in Nat
    BY <1>8 DEF TypeOK, Next, ResetCounter, ResetValue
  <2>2. Returns(t)
    BY <1>8 DEF ResetCounter
  <2> QED
    BY <2>1, <2>2, ReturnsType DEF TypeOK
<1>9. ASSUME BackgroundSync PROVE TypeOK'
  BY <1>9, DurableAssumption DEF TypeOK, Next, BackgroundSync
<1>10. ASSUME PowerFailure PROVE TypeOK'
  BY <1>10, DurableAssumption DEF TypeOK, Next, PowerFailure, Idle, NoRecord, Places
<1> QED
  BY <1>1, <1>2, <1>3, <1>4, <1>5, <1>6, <1>7, <1>8, <1>9, <1>10 DEF Next, CompleteStep

\* The places a step takes a worker to.
LEMMA PlacesStep ==
  ASSUME TypeOK, PlacesInv, Next
  PROVE  PlacesInv'
<1> USE DEF PlacesInv, TypeOK
<1>1. ASSUME NEW t \in Workers, CompleteStep(t) PROVE PlacesInv'
  <2>1. CASE AppendStep(t) \/ AppendFails(t)
    BY <2>1 DEF Next, AppendStep, AppendFails, AfterAppend
  <2>2. CASE StrictSync(t) \/ SyncBatch(t)
    BY <2>2 DEF Next, StrictSync, SyncBatch, GoTo, At
  <2>3. CASE Apply(t) \/ ApplyMissing(t)
    BY <2>3 DEF Next, Apply, ApplyMissing, GoTo, Returns, Idle, At
  <2>4. CASE Count(t)
    BY <2>4 DEF Next, Count, GoTo, Returns, Idle, At
  <2>5. CASE ResetCounter(t)
    BY <2>5 DEF Next, ResetCounter, Returns, Idle, At
  <2> QED
    BY <1>1, <2>1, <2>2, <2>3, <2>4, <2>5 DEF CompleteStep
<1>2. ASSUME BackgroundSync \/ PowerFailure PROVE PlacesInv'
  BY <1>2 DEF Next, BackgroundSync, PowerFailure, Idle
<1> QED
  BY <1>1, <1>2 DEF Next

\* A worker reaches "reset", or "apply" in the strict mode, through its own
\* fsync.
LEMMA CoveredStep ==
  ASSUME TypeOK, PlacesInv, CoveredInv, Next
  PROVE  CoveredInv'
<1> USE DEF CoveredInv, PlacesInv, TypeOK
<1>1. ASSUME NEW t \in Workers, CompleteStep(t) PROVE CoveredInv'
  <2>1. CASE AppendStep(t) \/ AppendFails(t)
    BY <2>1 DEF Next, AppendStep, AppendFails, AfterAppend
  <2>2. CASE StrictSync(t)
    BY <2>2 DEF Next, StrictSync, SyncLog, GoTo, At
  <2>3. CASE SyncBatch(t)
    BY <2>3 DEF Next, SyncBatch, SyncLog, GoTo, At
  <2>4. CASE Apply(t) \/ ApplyMissing(t)
    BY <2>4 DEF Next, Apply, ApplyMissing, GoTo, Returns, Idle, At
  <2>5. CASE Count(t)
    BY <2>5 DEF Next, Count, GoTo, Returns, Idle, At
  <2>6. CASE ResetCounter(t)
    BY <2>6 DEF Next, ResetCounter, Returns, Idle, At
  <2> QED
    BY <1>1, <2>1, <2>2, <2>3, <2>4, <2>5, <2>6 DEF CompleteStep
<1>2. ASSUME BackgroundSync PROVE CoveredInv'
  BY <1>2 DEF Next, BackgroundSync
<1>3. ASSUME PowerFailure PROVE CoveredInv'
  BY <1>3 DEF Next, PowerFailure, Idle
<1> QED
  BY <1>1, <1>2, <1>3 DEF Next

-----------------------------------------------------------------------------
(* The counter *)

\* A step that leaves the counter alone and releases no worker.
LEMMA CounterSame ==
  ASSUME TypeOK, CounterInv, UNCHANGED <<sync_steps, steps_since_sync>>,
         Parked \subseteq Parked'
  PROVE  CounterInv'
<1> Parked \in SUBSET Workers /\ Parked' \in SUBSET Workers
  BY DEF Parked
<1>1. Cardinality(Parked) \in Nat
  BY WorkerSets
<1>2. IsFiniteSet(Parked') /\ Cardinality(Parked') \in Nat
  BY WorkerSets
<1>3. Cardinality(Parked) <= Cardinality(Parked')
  BY <1>2, FS_Subset
<1>4. sync_steps \in Nat /\ steps_since_sync \in Nat
  BY Types
<1> QED
  BY <1>1, <1>2, <1>3, <1>4 DEF CounterInv

\* Every step keeps the bound on the counter.
LEMMA CounterStep ==
  ASSUME TypeOK, PlacesInv, CounterInv, Next
  PROVE  CounterInv'
<1> Parked \in SUBSET Workers /\ Parked' \in SUBSET Workers
  BY DEF Parked
<1>1. UNCHANGED sync_steps
  BY ModeIsFixed
<1>2. ASSUME NEW t \in Workers, CompleteStep(t) PROVE CounterInv'
  <2>1. CASE AppendStep(t) \/ AppendFails(t) \/ StrictSync(t) \/ Apply(t) \/ ApplyMissing(t)
    <3>1. UNCHANGED steps_since_sync
      BY <2>1 DEF AppendStep, AppendFails, StrictSync, Apply, ApplyMissing
    <3>2. Parked \subseteq Parked'
      BY <2>1 DEF TypeOK, Parked, AppendStep, AppendFails, AfterAppend, StrictSync, Apply,
                  ApplyMissing, GoTo, Returns, Idle, At
    <3> QED
      BY <3>1, <3>2, <1>1, CounterSame
  <2>2. CASE SyncBatch(t)
    <3>1. UNCHANGED steps_since_sync
      BY <2>2 DEF SyncBatch
    <3>2. Parked \subseteq Parked'
      BY <2>2 DEF TypeOK, Parked, SyncBatch, GoTo, At
    <3> QED
      BY <3>1, <3>2, <1>1, CounterSame
  <2>3. CASE Count(t)
    <3>1. /\ sync_steps \in Nat /\ steps_since_sync \in Nat
          /\ steps_since_sync' = steps_since_sync + 1
      BY <2>3, Types DEF Count
    <3>2. IsFiniteSet(Parked) /\ Cardinality(Parked) \in Nat
      BY WorkerSets
    <3>3. CASE ~Threshold(steps_since_sync')
      <4>1. Cardinality(Parked') \in Nat
        BY WorkerSets
      <4> QED
        BY <3>1, <3>3, <4>1, <1>1 DEF Threshold, CounterInv
    <3>4. CASE Threshold(steps_since_sync')
      <4>1. GoTo(t, "sync")
        BY <2>3, <3>4 DEF Count
      <4>2. t \notin Parked /\ Parked' = Parked \cup {t}
        BY <2>3, <4>1 DEF TypeOK, Parked, GoTo, Count, At
      <4>3. Cardinality(Parked') = Cardinality(Parked) + 1
        BY <3>2, <4>2, FS_AddElement
      <4>4. CASE steps_since_sync = 0
        <5>1. sync_steps # 0
          BY <2>3 DEF PlacesInv, Count, At
        <5> QED
          BY <4>3, <4>4, <5>1, <3>1, <3>2, <1>1 DEF CounterInv
      <4>5. CASE steps_since_sync < sync_steps + Cardinality(Parked)
        BY <4>3, <4>5, <3>1, <3>2, <1>1 DEF CounterInv
      <4> QED
        BY <4>4, <4>5 DEF CounterInv
    <3> QED
      BY <3>3, <3>4
  <2>4. CASE ResetCounter(t)
    BY <2>4 DEF ResetCounter, ResetValue, CounterInv
  <2> QED
    BY <1>2, <2>1, <2>2, <2>3, <2>4 DEF CompleteStep
<1>3. ASSUME BackgroundSync PROVE CounterInv'
  <2>1. UNCHANGED <<worker, steps_since_sync>>
    BY <1>3 DEF BackgroundSync
  <2>2. Parked' = Parked
    BY <2>1 DEF Parked
  <2> QED
    BY <2>1, <2>2, <1>1, CounterSame
<1>4. ASSUME PowerFailure PROVE CounterInv'
  BY <1>4 DEF PowerFailure, CounterInv
<1> QED
  BY <1>2, <1>3, <1>4 DEF Next

-----------------------------------------------------------------------------
(* The loss *)

\* Once everything is on disk one batch per free worker is within the bound.
LEMMA LossZero ==
  ASSUME TypeOK', Exposed' = {}
  PROVE  LossInv'
<1>1. sync_steps' \in Nat /\ steps_since_sync' \in Nat
  BY DurableAssumption DEF TypeOK
<1>2. CASE sync_steps' = 0 \/ Free' = {}
  BY <1>2 DEF LossInv
<1>3. CASE sync_steps' # 0 /\ Free' # {}
  <2>1. Free' \in SUBSET Workers
    BY DEF Free
  <2>2. Cardinality(Free') \in Nat /\ Cardinality(Free') # 0
    BY <2>1, <1>3, WorkerSets
  <2>3. sync_steps' - 1 \in Nat
    BY Zenon, <1>1, <1>3, OneLess
  <2>4. sync_steps' - 1 <= Cardinality(Free') * (sync_steps' - 1)
    BY <2>2, <2>3, AtLeastOne
  <2>5. Slack' \in Nat /\ Slack' <= sync_steps' - 1
    BY <1>1, <1>3, SlackBounds DEF Slack
  <2>6. Cardinality(Exposed') = 0
    BY FS_EmptySet
  <2>7. Cardinality(Exposed') + Slack' <= Cardinality(Free') * (sync_steps' - 1)
    BY <2>2, <2>3, <2>4, <2>5, <2>6
  <2> QED
    BY <2>7, <1>3 DEF LossInv
<1> QED
  BY <1>2, <1>3

\* A step that exposes nothing and grants nothing.
LEMMA LossSame ==
  ASSUME TypeOK, TypeOK', LossInv, io = "ok", UNCHANGED sync_steps,
         Free' = Free, Exposed' \in SUBSET Exposed,
         steps_since_sync <= steps_since_sync'
  PROVE  LossInv'
<1>1. CASE sync_steps = 0 \/ Free = {}
  <2>1. Exposed' = {}
    BY <1>1 DEF LossInv
  <2> QED
    BY <2>1, LossZero
<1>2. CASE sync_steps # 0 /\ Free # {}
  <2>1. /\ sync_steps \in Nat /\ sync_steps - 1 \in Nat
        /\ steps_since_sync \in Nat /\ steps_since_sync' \in Nat
    BY <1>2, DurableAssumption DEF TypeOK
  <2>2. Slack \in Nat /\ Slack' \in Nat /\ Slack' <= Slack
    BY <1>2, <2>1, SlackBounds DEF Slack
  <2>3. IsFiniteSet(Exposed) /\ Cardinality(Exposed) \in Nat
    BY ExposedFinite
  <2>4. Cardinality(Exposed') \in Nat /\ Cardinality(Exposed') <= Cardinality(Exposed)
    BY <2>3, FS_Subset, FS_CardinalityType
  <2>5. Cardinality(Exposed) + Slack <= Cardinality(Free) * (sync_steps - 1)
    BY <1>2 DEF LossInv
  <2>6. Cardinality(Free) \in Nat
    <3>1. Free \in SUBSET Workers
      BY DEF Free
    <3> QED
      BY <3>1, WorkerSets
  <2>7. Cardinality(Free) * (sync_steps - 1) \in Nat
    BY <2>1, <2>6
  <2>8. Cardinality(Exposed') + Slack' <= Cardinality(Free) * (sync_steps - 1)
    BY <2>2, <2>3, <2>4, <2>5, <2>7
  <2> QED
    BY <2>8, <1>2 DEF LossInv
<1> QED
  BY <1>1, <1>2

\* An fsync that succeeds leaves nothing exposed.
LEMMA LossSync ==
  ASSUME TypeOK, TypeOK', SyncLog, UNCHANGED <<returned, appended>>
  PROVE  LossInv'
<1>1. CASE io' = "failed"
  BY <1>1 DEF LossInv
<1>2. CASE synced' = appended
  <2>1. Exposed' = {}
    BY <1>2, AllSynced
  <2> QED
    BY <2>1, LossZero
<1> QED
  BY <1>1, <1>2 DEF SyncLog

\* The call of a worker that found the batch not full returns: one step more
\* is exposed, and the batch takes one less.
LEMMA LossReturn ==
  ASSUME TypeOK, TypeOK', PlacesInv, LossInv, io = "ok", UNCHANGED <<sync_steps, synced>>,
         NEW t \in Workers, At(t, "count"), Returns(t),
         steps_since_sync' = steps_since_sync + 1, ~Threshold(steps_since_sync')
  PROVE  LossInv'
<1>1. t \in Free /\ Free' = Free
  BY DEF Free, Returns, Idle, At, TypeOK
<1>2. /\ sync_steps \in Nat /\ sync_steps - 1 \in Nat
      /\ steps_since_sync \in Nat
      /\ sync_steps # 0
  BY DurableAssumption DEF TypeOK, PlacesInv, At
<1>3. Slack \in Nat /\ Slack' \in Nat /\ Slack' + 1 = Slack
  <2>1. steps_since_sync + 1 \in Nat /\ ~(steps_since_sync + 1 >= sync_steps)
    BY <1>2 DEF Threshold
  <2> QED
    BY Zenon, <2>1, <1>2, SlackBounds DEF Slack
<1>4. IsFiniteSet(Exposed) /\ Cardinality(Exposed) \in Nat
  BY ExposedFinite
<1>5. Exposed' \in SUBSET (Exposed \cup {worker[t].rec})
  BY DEF Exposed, Returns
<1>6. Cardinality(Exposed') \in Nat /\ Cardinality(Exposed') <= Cardinality(Exposed) + 1
  BY Zenon, <1>4, <1>5, OneMoreAtMost
<1>7. Cardinality(Exposed) + Slack <= Cardinality(Free) * (sync_steps - 1)
  BY <1>1, <1>2 DEF LossInv
<1>8. Cardinality(Free) * (sync_steps - 1) \in Nat
  <2>1. Free \in SUBSET Workers
    BY DEF Free
  <2>2. Cardinality(Free) \in Nat
    BY <2>1, WorkerSets
  <2> QED
    BY <2>2, <1>2
<1>9. Cardinality(Exposed') + Slack' <= Cardinality(Free) * (sync_steps - 1)
  BY Zenon, <1>3, <1>4, <1>6, <1>7, <1>8, OneStep
<1> QED
  BY <1>1, <1>2, <1>9 DEF LossInv

\* The reset of the counter grants a new batch, and makes its worker free.
LEMMA LossReset ==
  ASSUME TypeOK, TypeOK', CoveredInv, PlacesInv, LossInv, io = "ok",
         UNCHANGED sync_steps, NEW t \in Workers, ResetCounter(t)
  PROVE  LossInv'
<1>1. /\ At(t, "reset") /\ Returns(t) /\ UNCHANGED synced
      /\ steps_since_sync' = 0
  BY DEF ResetCounter, ResetValue
<1>2. t \notin Free /\ Free' = Free \cup {t}
  BY <1>1 DEF Free, Returns, Idle, At, TypeOK
<1>3. Exposed' = Exposed
  <2>1. ~(worker[t].rec > synced)
    <3>1. worker[t].rec <= synced
      BY <1>1 DEF CoveredInv, At
    <3>2. worker[t].rec \in Nat /\ synced \in Nat
      BY Zenon, Types
    <3> QED
      BY <3>1, <3>2
  <2> QED
    BY <2>1, <1>1 DEF Exposed, Returns
<1>4. CASE Free = {}
  <2>1. Exposed' = {}
    BY <1>3, <1>4 DEF LossInv
  <2> QED
    BY <2>1, LossZero
<1>5. CASE Free # {}
  <2>1. sync_steps \in Nat /\ sync_steps # 0 /\ sync_steps - 1 \in Nat
    BY <1>1, DurableAssumption DEF TypeOK, PlacesInv, At
  <2>2. Free \in SUBSET Workers
    BY DEF Free
  <2>3. IsFiniteSet(Free) /\ Cardinality(Free) \in Nat
    BY <2>2, WorkerSets
  <2>4. Cardinality(Free') = Cardinality(Free) + 1
    BY Zenon, <2>3, <1>2, FS_AddElement
  <2>5. Cardinality(Free') * (sync_steps - 1)
          = Cardinality(Free) * (sync_steps - 1) + (sync_steps - 1)
    BY <2>1, <2>3, <2>4, OneMore
  <2>6. Cardinality(Exposed) + Slack <= Cardinality(Free) * (sync_steps - 1)
    BY <1>5, <2>1 DEF LossInv
  <2>7. Slack \in Nat /\ Slack' = sync_steps - 1
    <3>1. steps_since_sync \in Nat
      BY DEF TypeOK
    <3> QED
      BY <3>1, <2>1, <1>1, SlackBounds DEF Slack
  <2>8. Cardinality(Exposed) \in Nat
    BY ExposedFinite
  <2>9. Cardinality(Free) * (sync_steps - 1) \in Nat
    BY <2>1, <2>3
  <2>10. Cardinality(Exposed') + Slack' <= Cardinality(Free') * (sync_steps - 1)
    BY <2>1, <2>5, <2>6, <2>7, <2>8, <2>9, <1>3
  <2> QED
    BY <2>10, <2>1, <1>2 DEF LossInv
<1> QED
  BY <1>4, <1>5

\* Every step keeps the bound on what a power failure could take.
LEMMA LossStep ==
  ASSUME TypeOK, TypeOK', PlacesInv, CoveredInv, LossInv, Next
  PROVE  LossInv'
<1>1. UNCHANGED sync_steps
  BY ModeIsFixed
<1>2. ASSUME io # "ok", ~PowerFailure PROVE LossInv'
  <2>1. io = "failed"
    BY <1>2 DEF TypeOK
  <2>2. CASE \E t \in Workers : CompleteStep(t)
    <3>1. PICK t \in Workers : CompleteStep(t)
      BY <2>2
    <3>2. CASE StrictSync(t) \/ SyncBatch(t)
      <4>1. SyncLog /\ UNCHANGED <<returned, appended>>
        BY <3>2 DEF StrictSync, SyncBatch
      <4> QED
        BY <4>1, LossSync
    <3>3. CASE ~(StrictSync(t) \/ SyncBatch(t))
      <4>1. io' = "failed"
        BY <2>1, <3>1, <3>3 DEF CompleteStep, AppendStep, AppendFails, Apply,
           ApplyMissing, Count, ResetCounter
      <4> QED
        BY <4>1 DEF LossInv
    <3> QED
      BY <3>2, <3>3
  <2>3. CASE BackgroundSync
    BY <2>1, <2>3 DEF BackgroundSync, LossInv
  <2> QED
    BY <1>2, <2>2, <2>3 DEF Next
<1>3. ASSUME io = "ok", NEW t \in Workers, CompleteStep(t) PROVE LossInv'
  <2>1. CASE AppendStep(t) \/ ApplyMissing(t)
    <3>1. UNCHANGED <<returned, synced, steps_since_sync>>
      BY <2>1 DEF AppendStep, ApplyMissing
    <3>2. Free' = Free
      BY <2>1 DEF TypeOK, Free, AppendStep, AfterAppend, ApplyMissing, Idle, At
    <3>3. Exposed' = Exposed
      BY <3>1 DEF Exposed
    <3>4. steps_since_sync <= steps_since_sync'
      BY <3>1 DEF TypeOK
    <3> QED
      BY <1>1, <1>3, <3>2, <3>3, <3>4, LossSame
  <2>2. CASE AppendFails(t)
    BY <2>2 DEF AppendFails, LossInv
  <2>3. CASE StrictSync(t) \/ SyncBatch(t)
    <3>1. SyncLog /\ UNCHANGED <<returned, appended>>
      BY <2>3 DEF StrictSync, SyncBatch
    <3> QED
      BY <3>1, LossSync
  <2>4. CASE Apply(t)
    <3>1. UNCHANGED <<synced, steps_since_sync>> /\ At(t, "apply")
      BY <2>4 DEF Apply
    <3>2. CASE sync_steps = 0
      <4>1. Returns(t)
        BY <2>4, <3>2 DEF Apply
      <4>2. ~(worker[t].rec > synced)
        <5>1. worker[t].rec <= synced
          BY <1>3, <3>1, <3>2 DEF CoveredInv, At
        <5>2. worker[t].rec \in Nat /\ synced \in Nat
          BY Zenon, Types
        <5> QED
          BY <5>1, <5>2
      <4>3. Exposed' = {}
        BY <4>1, <4>2, <3>1, <3>2, <1>3 DEF LossInv, Exposed, Returns
      <4> QED
        BY <4>3, LossZero
    <3>3. CASE sync_steps # 0
      <4>1. GoTo(t, "count") /\ UNCHANGED returned
        BY <2>4, <3>3 DEF Apply
      <4>2. Free' = Free
        BY <4>1, <3>1 DEF TypeOK, Free, GoTo, At
      <4>3. Exposed' = Exposed
        BY <4>1, <3>1 DEF Exposed
      <4>4. steps_since_sync <= steps_since_sync'
        BY <3>1 DEF TypeOK
      <4> QED
        BY <1>1, <1>3, <4>2, <4>3, <4>4, LossSame
    <3> QED
      BY <3>2, <3>3
  <2>5. CASE Count(t)
    <3>1. /\ UNCHANGED synced /\ At(t, "count")
          /\ steps_since_sync' = steps_since_sync + 1
      BY <2>5 DEF Count
    <3>2. CASE GoTo(t, "sync") /\ UNCHANGED returned
      <4>1. Free' = Free
        BY <3>1, <3>2 DEF TypeOK, Free, GoTo, At
      <4>2. Exposed' = Exposed
        BY <3>1, <3>2 DEF Exposed
      <4>3. steps_since_sync <= steps_since_sync'
        BY <3>1 DEF TypeOK
      <4> QED
        BY <1>1, <1>3, <4>1, <4>2, <4>3, LossSame
    <3>3. CASE Returns(t) /\ ~Threshold(steps_since_sync')
      BY <1>1, <1>3, <3>1, <3>3, LossReturn
    <3> QED
      BY <2>5, <3>2, <3>3 DEF Count
  <2>6. CASE ResetCounter(t)
    BY <1>1, <1>3, <2>6, LossReset
  <2> QED
    BY <1>3, <2>1, <2>2, <2>3, <2>4, <2>5, <2>6 DEF CompleteStep
<1>4. ASSUME BackgroundSync \/ PowerFailure PROVE LossInv'
  <2>1. synced' = appended /\ UNCHANGED <<appended, returned>>
    BY <1>4 DEF BackgroundSync, PowerFailure
  <2>2. Exposed' = {}
    BY <2>1, AllSynced
  <2> QED
    BY <2>2, LossZero
<1> QED
  BY <1>2, <1>3, <1>4 DEF Next

-----------------------------------------------------------------------------
(* The theorems *)

\* The invariant and what it implies.
LEMMA InductiveInvariant == Spec => []DurableInv
<1>1. Init => DurableInv
  BY InitInv
<1>2. DurableInv /\ [Next]_vars => DurableInv'
  <2>1. SUFFICES ASSUME DurableInv, [Next]_vars PROVE DurableInv'
    OBVIOUS
  <2>2. TypeOK /\ PlacesInv /\ CoveredInv /\ CounterInv /\ LossInv
    BY <2>1 DEF DurableInv
  <2>3. CASE Next
    <3>1. TypeOK'
      BY <2>2, <2>3, TypeStep
    <3>2. PlacesInv' /\ CoveredInv' /\ CounterInv'
      BY <2>2, <2>3, PlacesStep, CoveredStep, CounterStep
    <3>3. LossInv'
      BY <2>2, <2>3, <3>1, LossStep
    <3> QED
      BY <3>1, <3>2, <3>3 DEF DurableInv
  <2>4. CASE UNCHANGED vars
    BY <2>1, <2>4 DEF vars, DurableInv, TypeOK, PlacesInv, CoveredInv, CounterInv,
       LossInv, Parked, Free, Slack, Exposed
  <2> QED
    BY <2>1, <2>3, <2>4
<1> QED
  BY <1>1, <1>2, PTL DEF Spec

\* Type correctness of complete_step_durable.
THEOREM TypeCorrect == Spec => []TypeOK
<1>1. DurableInv => TypeOK
  BY DEF DurableInv
<1> QED
  BY <1>1, InductiveInvariant, PTL

\* However many workers share the counter and whatever the clock does, a
\* power failure takes back at most one batch less one returned step per
\* worker, and none in the strict mode, unless an append or fsync failed.
THEOREM LossIsBounded == Spec => []LossBounded
<1>1. DurableInv => LossBounded
  <2>1. SUFFICES ASSUME DurableInv, io = "ok" PROVE LossBounded
    BY DEF LossBounded
  <2>2. TypeOK /\ LossInv
    BY <2>1 DEF DurableInv
  <2>3. CASE sync_steps = 0
    BY <2>1, <2>2, <2>3 DEF LossInv, LossBounded
  <2>4. CASE sync_steps # 0
    <3>1. sync_steps - 1 \in Nat /\ sync_steps \in Nat /\ steps_since_sync \in Nat
      BY <2>2, <2>4, DurableAssumption DEF TypeOK
    <3>2. Free \in SUBSET Workers
      BY DEF Free
    <3>3. /\ Cardinality(Free) \in Nat /\ Cardinality(Workers) \in Nat
          /\ Cardinality(Free) <= Cardinality(Workers)
      BY <3>2, WorkerSets
    <3>4. Cardinality(Free) * (sync_steps - 1) <= Cardinality(Workers) * (sync_steps - 1)
      BY <3>1, <3>3, NoMore
    <3>5. /\ Cardinality(Free) * (sync_steps - 1) \in Nat
          /\ Cardinality(Workers) * (sync_steps - 1) \in Nat
      BY <3>1, <3>3
    <3>6. Cardinality(Exposed) \in Nat
      BY <2>2, ExposedFinite
    <3>7. Cardinality(Exposed) <= Cardinality(Workers) * (sync_steps - 1)
      <4>1. CASE Free = {}
        <5>1. Cardinality(Exposed) = 0
          BY <4>1, <2>1, <2>2, FS_EmptySet DEF LossInv
        <5> QED
          BY <5>1, <3>5
      <4>2. CASE Free # {}
        <5>1. Cardinality(Exposed) + Slack <= Cardinality(Free) * (sync_steps - 1)
          BY <4>2, <2>1, <2>2, <2>4 DEF LossInv
        <5>2. Slack \in Nat
          BY <2>4, <3>1, SlackBounds DEF Slack
        <5> QED
          BY <5>1, <5>2, <3>4, <3>5, <3>6
      <4> QED
        BY <4>1, <4>2
    <3> QED
      BY <3>7, <2>4 DEF LossBounded
  <2> QED
    BY <2>3, <2>4
<1> QED
  BY <1>1, InductiveInvariant, PTL

\* With one worker the doc's sentence holds: "lose at most `sync_steps`
\* steps".
THEOREM OneWorkerLosesOneBatch ==
  ASSUME Cardinality(Workers) = 1
  PROVE  Spec => []LoseAtMostSyncSteps
<1>1. TypeOK /\ LossBounded => LoseAtMostSyncSteps
  <2>1. SUFFICES ASSUME TypeOK, LossBounded, io = "ok"
                 PROVE  Cardinality(Exposed) <= sync_steps
    BY DEF LoseAtMostSyncSteps
  <2>2. sync_steps \in Nat
    BY <2>1, DurableAssumption DEF TypeOK
  <2>3. CASE sync_steps = 0
    BY <2>1, <2>3, FS_EmptySet DEF LossBounded
  <2>4. CASE sync_steps # 0
    <3>1. Cardinality(Exposed) <= 1 * (sync_steps - 1)
      BY <2>1, <2>4 DEF LossBounded
    <3>2. Cardinality(Exposed) \in Nat
      BY <2>1, ExposedFinite
    <3> QED
      BY <3>1, <3>2, <2>2
  <2> QED
    BY <2>3, <2>4
<1> QED
  BY <1>1, TypeCorrect, LossIsBounded, PTL

\* The shared counter never passes the batch size by as much as the number
\* of workers.
THEOREM CounterIsBounded == Spec => []CounterBounded
<1>1. DurableInv => CounterBounded
  <2>1. SUFFICES ASSUME DurableInv PROVE CounterBounded
    OBVIOUS
  <2>2. TypeOK /\ CounterInv
    BY <2>1 DEF DurableInv
  <2>3. Parked \in SUBSET Workers
    BY DEF Parked
  <2>4. /\ Cardinality(Parked) \in Nat /\ Cardinality(Workers) \in Nat \ {0}
        /\ Cardinality(Parked) <= Cardinality(Workers)
    BY <2>3, WorkerSets
  <2>5. sync_steps \in Nat /\ steps_since_sync \in Nat
    BY <2>2, DurableAssumption DEF TypeOK
  <2> QED
    BY <2>2, <2>4, <2>5 DEF CounterInv, CounterBounded
<1> QED
  BY <1>1, InductiveInvariant, PTL
=============================================================================
