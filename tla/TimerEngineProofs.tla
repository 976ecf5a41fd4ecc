------------------------- MODULE TimerEngineProofs -------------------------
(***************************************************************************)
(* Every timer is in exactly one place, and its callback is called once    *)
(* and not early, for any number of callers and timers, any delays and any *)
(* horizon.                                                                *)
(***************************************************************************)
EXTENDS TimerEngine, FiniteSetTheorems, WellFoundedInduction, TLAPS

HeapIds == {e.id : e \in heap}
BatchIds == {batch[i].id : i \in DOMAIN batch}
DroppedIds == {e.id : e \in dropped}

\* The id a caller of schedule has taken and not yet put into the heap.
Holding(c) == caller[c].at \in {"read", "push"}
HeldId(c) == IF caller[c].at = "read" THEN caller[c].id ELSE caller[c].entry.id
HeldIds == {HeldId(c) : c \in {d \in Callers : Holding(d)}}

\* An id that was handed out is in one of six places, and in one only.
OnePlace ==
  /\ 1 .. nextId - 1 = HeldIds \cup HeapIds \cup BatchIds \cup FiredIds \cup cancelled \cup DroppedIds
  /\ HeldIds \cap (HeapIds \cup BatchIds \cup FiredIds \cup cancelled \cup DroppedIds) = {}
  /\ HeapIds \cap (BatchIds \cup FiredIds \cup cancelled \cup DroppedIds) = {}
  /\ BatchIds \cap (FiredIds \cup cancelled \cup DroppedIds) = {}
  /\ FiredIds \cap (cancelled \cup DroppedIds) = {}
  /\ cancelled \cap DroppedIds = {}

\* Within a place an id occurs once.
OncePerPlace ==
  /\ \A c, d \in Callers : Holding(c) /\ Holding(d) /\ HeldId(c) = HeldId(d) => c = d
  /\ \A e, f \in heap : e.id = f.id => e = f
  /\ \A i, j \in DOMAIN batch : batch[i].id = batch[j].id => i = j
  /\ \A i, j \in DOMAIN fired : fired[i].id = fired[j].id => i = j

\* What was popped has expired, the checker has popped entries exactly while it
\* is about to call back, and no callback came early.
CheckerInv ==
  /\ checker \in {"fire", "call"} <=> batch # <<>>
  /\ \A i \in DOMAIN batch : batch[i].fire_at <= now
  /\ \A i \in DOMAIN fired : fired[i].at >= fired[i].due

\* The inductive invariant.
TimerInv == TypeOK /\ IsFiniteSet(heap) /\ OnePlace /\ OncePerPlace /\ CheckerInv

-----------------------------------------------------------------------------
\* A set of naturals that is not empty has a least element.
LEMMA LeastNat ==
  ASSUME NEW T, T \subseteq Nat, T # {}
  PROVE  \E x \in T : \A y \in T : x <= y
<1> DEFINE R == {p \in Nat \X Nat : p[1] < p[2]}
<1>1. IsWellFoundedOn(R, Nat)
  BY Zenon, NatLessThanWellFounded DEF OpToRel
<1> HIDE DEF R
<1>2. PICK x \in T : \A y \in T : ~(<<y, x>> \in R)
  BY Zenon, <1>1, WFMin
<1>3. \A y \in T : ~(y < x)
  BY Zenon, <1>2 DEF R
<1> QED
  BY <1>3

\* The checker's wait ends within the horizon.
LEMMA WaitWithinHorizon == TypeOK => WaitUntil(heap) \in 0 .. Horizon
<1> SUFFICES ASSUME TypeOK PROVE WaitUntil(heap) \in 0 .. Horizon
  BY Zenon
<1> DEFINE T == {Horizon, now + PollDelay} \cup {e.fire_at : e \in heap}
<1>1. T \subseteq Nat /\ Horizon \in T
  BY TimerAssumption DEF TypeOK, Entries
<1>2. \E x \in T : \A y \in T : x <= y
  BY Zenon, <1>1, LeastNat
<1>3. WaitUntil(heap) \in T /\ \A y \in T : WaitUntil(heap) <= y
  BY Zenon, <1>2 DEF WaitUntil, Min
<1> DEFINE w == WaitUntil(heap)
<1>4. w \in T /\ w <= Horizon
  BY Zenon, <1>1, <1>3
<1> HIDE DEF T, w
<1>5. w \in Nat
  BY Zenon, <1>1, <1>4
<1>6. w \in 0 .. Horizon
  BY <1>4, <1>5, TimerAssumption
<1> QED
  BY Zenon, <1>6 DEF w

\* The entries of one check are popped once each, all of them.
LEMMA PopsAllOnce ==
  ASSUME NEW S, IsFiniteSet(S), NEW q \in PopOrders(S)
  PROVE  /\ q \in Seq(S)
         /\ Range(q) = S
         /\ \A i, j \in DOMAIN q : q[i] = q[j] => i = j
<1> DEFINE D == 1 .. Cardinality(S)
<1>1. Cardinality(S) \in Nat
  BY Zenon, FS_CardinalityType
<1>2. q \in [D -> S] /\ \A i, j \in D : i # j => q[i] # q[j]
  BY Zenon DEF PopOrders, Bijection, Injection, IsInjective
<1>5. Range(q) = S
  BY <1>2 DEF PopOrders, Bijection, Surjection, Range
<1> QED
  BY <1>1, <1>2, <1>5


-----------------------------------------------------------------------------
(* schedule, cancel, shutdown *)

\* Where the ids are depends on seven variables only.
LEMMA PlacesUnchanged ==
  ASSUME OnePlace, OncePerPlace,
         UNCHANGED <<nextId, caller, heap, batch, fired, cancelled, dropped>>
  PROVE  OnePlace' /\ OncePerPlace'
<1>1. UNCHANGED <<HeldIds, HeapIds, BatchIds, FiredIds, DroppedIds>>
  BY Zenon DEF HeldIds, HeldId, Holding, HeapIds, BatchIds, FiredIds, DroppedIds
<1>2. OnePlace'
  BY Zenon, <1>1 DEF OnePlace
<1> QED
  BY Zenon, <1>2 DEF OncePerPlace, HeldId, Holding

\* A caller that moves without taking or giving up an id leaves every id where
\* it is.
LEMMA CallerMoves ==
  ASSUME TypeOK, OnePlace, OncePerPlace, NEW c \in Callers, NEW r,
         caller' = [caller EXCEPT ![c] = r],
         UNCHANGED <<nextId, heap, batch, fired, cancelled, dropped>>,
         Holding(c)' <=> Holding(c), Holding(c) => HeldId(c)' = HeldId(c)
  PROVE  OnePlace' /\ OncePerPlace'
<1>1. \A d \in Callers : (Holding(d)' <=> Holding(d)) /\ (Holding(d) => HeldId(d)' = HeldId(d))
  BY Zenon DEF Holding, HeldId, TypeOK
<1>2. HeldIds' = HeldIds
  BY Zenon, <1>1 DEF HeldIds
<1>3. UNCHANGED <<HeapIds, BatchIds, FiredIds, DroppedIds>>
  BY Zenon DEF HeapIds, BatchIds, FiredIds, DroppedIds
<1>4. OnePlace'
  BY Zenon, <1>2, <1>3 DEF OnePlace
<1> QED
  BY Zenon, <1>1, <1>4 DEF OncePerPlace

\* A new id belongs to the caller that took it.
LEMMA ScheduleIdInv ==
  ASSUME TimerInv, NEW c \in Callers, ScheduleId(c)
  PROVE  TimerInv'
<1> DEFINE r == [at |-> "read", id |-> nextId]
<1>1. /\ caller[c] = Idle /\ nextId \in 1 .. MaxTimers
      /\ nextId' = nextId + 1 /\ caller' = [caller EXCEPT ![c] = r]
      /\ UNCHANGED <<now, heap, checker, batch, until, notified, callback, stopping,
                     fired, cancelled, dropped>>
  BY TimerAssumption DEF ScheduleId, GoTo, loop, history, TimerInv, TypeOK
<1>2. ~Holding(c) /\ Holding(c)' /\ HeldId(c)' = nextId
  BY <1>1 DEF Holding, HeldId, Idle, TimerInv, TypeOK
<1>3. \A d \in Callers \ {c} :
        (Holding(d)' <=> Holding(d)) /\ (Holding(d) => HeldId(d)' = HeldId(d))
  BY Zenon, <1>1 DEF Holding, HeldId, TimerInv, TypeOK
<1>4. HeldIds' = HeldIds \cup {nextId}
  BY Zenon, <1>2, <1>3 DEF HeldIds
<1>5. UNCHANGED <<HeapIds, BatchIds, FiredIds, DroppedIds, cancelled>>
  BY Zenon, <1>1 DEF HeapIds, BatchIds, FiredIds, DroppedIds
<1>6. /\ 1 .. nextId' - 1 = (1 .. nextId - 1) \cup {nextId}
      /\ nextId \notin 1 .. nextId - 1
  BY <1>1
<1>7. OnePlace'
  <2> DEFINE P == 1 .. nextId - 1
  <2>1. P = HeldIds \cup HeapIds \cup BatchIds \cup FiredIds \cup cancelled \cup DroppedIds
    BY Zenon DEF TimerInv, OnePlace
  <2>2. 1 .. nextId' - 1 = P \cup {nextId} /\ nextId \notin P
    BY Zenon, <1>6
  <2> HIDE DEF P
  <2> QED
    BY <1>4, <1>5, <2>1, <2>2 DEF TimerInv, OnePlace
<1>8. nextId \notin HeldIds
  BY Zenon, <1>6 DEF TimerInv, OnePlace
<1>9. OncePerPlace'
  <2>1. \A d \in Callers : Holding(d) => HeldId(d) # nextId
    BY Zenon, <1>8 DEF HeldIds
  <2>2. \A d, e \in Callers : Holding(d)' /\ Holding(e)' /\ HeldId(d)' = HeldId(e)' => d = e
    BY Zenon, <1>2, <1>3, <2>1 DEF TimerInv, OncePerPlace
  <2> QED
    BY Zenon, <1>1, <2>2 DEF TimerInv, OncePerPlace
<1>10. TypeOK'
  BY <1>1, TimerAssumption DEF TimerInv, TypeOK, Ids
<1> QED
  BY Zenon, <1>1, <1>7, <1>9, <1>10 DEF TimerInv, CheckerInv

\* The deadline is computed from the clock; the caller keeps its id.
LEMMA ScheduleReadInv ==
  ASSUME TimerInv, NEW c \in Callers, ScheduleRead(c)
  PROVE  TimerInv'
<1>1. PICK d \in Delays :
        /\ caller[c].at = "read" /\ now + d <= Horizon
        /\ caller' = [caller EXCEPT ![c] =
             [at |-> "push", entry |-> [id |-> caller[c].id, fire_at |-> now + d]]]
        /\ UNCHANGED <<now, nextId, heap, checker, batch, until, notified, callback, stopping,
                       fired, cancelled, dropped>>
  BY Zenon DEF ScheduleRead, GoTo, loop, history
<1>2. caller[c].id \in Ids /\ now + d \in 0 .. Horizon
  BY <1>1, TimerAssumption DEF TimerInv, TypeOK, Idle
<1>3. Holding(c) /\ Holding(c)' /\ HeldId(c)' = HeldId(c)
  BY Zenon, <1>1 DEF Holding, HeldId, TimerInv, TypeOK
<1>4. OnePlace' /\ OncePerPlace'
  BY Zenon, <1>1, <1>3, CallerMoves DEF TimerInv
<1>5. TypeOK'
  BY Zenon, <1>1, <1>2 DEF TimerInv, TypeOK, Entries
<1> QED
  BY Zenon, <1>1, <1>4, <1>5 DEF TimerInv, CheckerInv

\* The entry moves from its caller to the heap.
LEMMA SchedulePushInv ==
  ASSUME TimerInv, NEW c \in Callers, SchedulePush(c)
  PROVE  TimerInv'
<1> DEFINE x == caller[c].entry
<1>1. /\ caller[c].at = "push" /\ heap' = heap \cup {x}
      /\ caller' = [caller EXCEPT ![c] = [at |-> "notify"]]
      /\ UNCHANGED <<now, nextId, checker, batch, until, notified, callback, stopping,
                     fired, cancelled, dropped>>
  BY Zenon DEF SchedulePush, GoTo, loop, history
<1>2. x \in Entries
  BY <1>1 DEF TimerInv, TypeOK, Idle
<1>3. Holding(c) /\ ~Holding(c)' /\ HeldId(c) = x.id
  BY Zenon, <1>1 DEF Holding, HeldId, TimerInv, TypeOK
<1>4. \A d \in Callers \ {c} :
        (Holding(d)' <=> Holding(d)) /\ (Holding(d) => HeldId(d)' = HeldId(d))
  BY Zenon, <1>1 DEF Holding, HeldId, TimerInv, TypeOK
<1>5. HeldIds' = HeldIds \ {x.id} /\ x.id \in HeldIds
  BY <1>3, <1>4 DEF HeldIds, TimerInv, OncePerPlace
<1>6. HeapIds' = HeapIds \cup {x.id} /\ UNCHANGED <<BatchIds, FiredIds, DroppedIds, cancelled, nextId>>
  BY Zenon, <1>1 DEF HeapIds, BatchIds, FiredIds, DroppedIds
<1>7. x.id \notin HeapIds
  BY Zenon, <1>5 DEF TimerInv, OnePlace
<1>8. OnePlace'
  <2> HIDE DEF x
  <2> QED
    BY <1>5, <1>6, <1>7 DEF TimerInv, OnePlace
<1>9. OncePerPlace'
  <2>1. \A d, e \in Callers : Holding(d)' /\ Holding(e)' /\ HeldId(d)' = HeldId(e)' => d = e
    BY Zenon, <1>3, <1>4 DEF TimerInv, OncePerPlace
  <2>2. \A e, f \in heap' : e.id = f.id => e = f
    BY <1>1, <1>7 DEF TimerInv, OncePerPlace, HeapIds
  <2> QED
    BY Zenon, <1>1, <2>1, <2>2 DEF TimerInv, OncePerPlace
<1>10. TypeOK'
  BY Zenon, <1>1, <1>2 DEF TimerInv, TypeOK
<1>11. IsFiniteSet(heap')
  BY Zenon, <1>1, FS_AddElement DEF TimerInv
<1> QED
  BY Zenon, <1>1, <1>8, <1>9, <1>10, <1>11 DEF TimerInv, CheckerInv

\* notify_one, and the flag of shutdown, move no timer.
LEMMA NotifyInv ==
  ASSUME TimerInv, NEW c \in Callers, NotifyChecker(c) \/ Shutdown(c)
  PROVE  TimerInv'
<1>1. PICK r \in {Idle, [at |-> "notify"]} :
        /\ caller[c].at \in {"notify", "idle"} /\ caller' = [caller EXCEPT ![c] = r]
        /\ notified' \in BOOLEAN /\ stopping' \in BOOLEAN
        /\ UNCHANGED <<now, nextId, heap, checker, batch, until, callback, fired, cancelled, dropped>>
  <2>1. CASE NotifyChecker(c)
    <3>1. notified' \in BOOLEAN
      BY Zenon, <2>1 DEF NotifyChecker, Notify, TimerInv, TypeOK
    <3> QED
      BY Zenon, <2>1, <3>1 DEF NotifyChecker, GoTo, loop, history, TimerInv, TypeOK
  <2>2. CASE Shutdown(c)
    BY <2>2 DEF Shutdown, GoTo, loop, history, Idle, TimerInv, TypeOK
  <2> QED
    BY Zenon, <2>1, <2>2
<1>2. ~Holding(c) /\ ~Holding(c)'
  BY <1>1 DEF Holding, Idle, TimerInv, TypeOK
<1>3. OnePlace' /\ OncePerPlace'
  BY Zenon, <1>1, <1>2, CallerMoves DEF TimerInv
<1>4. TypeOK'
  BY Zenon, <1>1 DEF TimerInv, TypeOK
<1> QED
  BY Zenon, <1>1, <1>3, <1>4 DEF TimerInv, CheckerInv

\* A cancelled timer leaves the heap; one that is not there changes nothing.
LEMMA CancelInv ==
  ASSUME TimerInv, NEW c \in Callers, NEW id \in 1 .. nextId - 1, Cancel(c, id)
  PROVE  TimerInv'
<1>1. /\ heap' = {e \in heap : e.id # id}
      /\ cancelled' = IF id \in HeapIds THEN cancelled \cup {id} ELSE cancelled
      /\ UNCHANGED <<now, nextId, caller, checker, batch, until, notified, callback, stopping,
                     fired, dropped>>
  BY Zenon DEF Cancel, CancelLeaves, loop, HeapIds
<1>2. HeapIds' = HeapIds \ {id} /\ UNCHANGED <<HeldIds, BatchIds, FiredIds, DroppedIds, nextId>>
  BY Zenon, <1>1 DEF HeapIds, BatchIds, FiredIds, DroppedIds, HeldIds, HeldId, Holding
<1>3. OnePlace'
  <2>1. CASE id \in HeapIds
    BY <1>1, <1>2, <2>1 DEF TimerInv, OnePlace
  <2>2. CASE id \notin HeapIds
    BY <1>1, <1>2, <2>2 DEF TimerInv, OnePlace
  <2> QED
    BY Zenon, <2>1, <2>2
<1>4. OncePerPlace'
  BY Zenon, <1>1 DEF TimerInv, OncePerPlace, Holding, HeldId
<1>5. id \in Ids
  BY TimerAssumption DEF TimerInv, TypeOK, Ids
<1>6. TypeOK'
  BY Zenon, <1>1, <1>5 DEF TimerInv, TypeOK
<1>7. IsFiniteSet(heap')
  BY Zenon, <1>1, FS_Subset DEF TimerInv
<1> QED
  BY Zenon, <1>1, <1>3, <1>4, <1>6, <1>7 DEF TimerInv, CheckerInv

-----------------------------------------------------------------------------
(* the checker, the clock *)

\* The expired entries move from the heap to the batch.
LEMMA PopInv ==
  ASSUME TimerInv, PopExpired
  PROVE  TimerInv'
<1> DEFINE X == Expired(heap)
<1>1. PICK q \in PopOrders(X) :
        /\ checker = "check" /\ heap' = heap \ Range(q) /\ batch' = q
        /\ IF q = <<>>
           THEN checker' = "wait" /\ until' = WaitUntil(heap) /\ notified' = FALSE
           ELSE checker' = "fire" /\ UNCHANGED <<until, notified>>
        /\ UNCHANGED <<now, nextId, caller, callback, stopping, fired, cancelled, dropped>>
  BY Zenon DEF PopExpired, history
<1>2. X \subseteq heap /\ IsFiniteSet(X) /\ \A e \in X : e.fire_at <= now
  BY Zenon, FS_Subset DEF Expired, TimerInv
<1> HIDE DEF X
<1>3. /\ q \in Seq(X) /\ Range(q) = X
      /\ \A i, j \in DOMAIN q : q[i] = q[j] => i = j
  BY Zenon, <1>2, PopsAllOnce
<1>4. \A i \in DOMAIN q : q[i] \in X
  BY <1>3
<1>5. batch = <<>>
  BY Zenon, <1>1 DEF TimerInv, CheckerInv
<1>6. BatchIds = {} /\ BatchIds' = {e.id : e \in X}
  BY <1>1, <1>3, <1>5 DEF BatchIds, Range
<1>7. HeapIds' = HeapIds \ BatchIds' /\ BatchIds' \subseteq HeapIds
  <2>1. \A e \in heap, f \in X : e.id = f.id => e \in X
    BY Zenon, <1>2 DEF TimerInv, OncePerPlace
  <2> QED
    BY Zenon, <1>1, <1>2, <1>3, <1>6, <2>1 DEF HeapIds
<1>8. UNCHANGED <<HeldIds, FiredIds, DroppedIds, cancelled, nextId>>
  BY Zenon, <1>1 DEF FiredIds, DroppedIds, HeldIds, HeldId, Holding
<1>9. OnePlace'
  BY Zenon, <1>6, <1>7, <1>8 DEF TimerInv, OnePlace
<1>10. OncePerPlace'
  <2>1. \A e, f \in heap' : e.id = f.id => e = f
    BY Zenon, <1>1 DEF TimerInv, OncePerPlace
  <2>2. \A i, j \in DOMAIN batch' : batch'[i].id = batch'[j].id => i = j
    BY <1>1, <1>2, <1>3, <1>4 DEF TimerInv, OncePerPlace
  <2> QED
    BY Zenon, <1>1, <2>1, <2>2 DEF TimerInv, OncePerPlace, Holding, HeldId
<1>11. X \subseteq Entries /\ q \in Seq(Entries)
  BY <1>2, <1>3 DEF TimerInv, TypeOK
<1>12. TypeOK'
  <2>1. checker' \in {"wait", "fire"} /\ until' \in 0 .. Horizon /\ notified' \in BOOLEAN
    BY Zenon, <1>1, WaitWithinHorizon DEF TimerInv, TypeOK
  <2> QED
    BY Zenon, <1>1, <1>11, <2>1 DEF TimerInv, TypeOK
<1>13. CheckerInv'
  BY Zenon, <1>1, <1>2, <1>4 DEF TimerInv, CheckerInv
<1>14. IsFiniteSet(heap')
  BY Zenon, <1>1, FS_Subset DEF TimerInv
<1> QED
  BY Zenon, <1>9, <1>10, <1>12, <1>13, <1>14 DEF TimerInv

\* With no callback set the batch is dropped, otherwise it is kept.
LEMMA FireBatchInv ==
  ASSUME TimerInv, FireBatch
  PROVE  TimerInv'
<1>1. /\ checker = "fire"
      /\ UNCHANGED <<now, nextId, heap, caller, until, notified, callback, stopping, fired, cancelled>>
  BY Zenon DEF FireBatch
<1>2. CASE callback
  <2>1. checker' = "call" /\ UNCHANGED <<batch, dropped>>
    BY Zenon, <1>2 DEF FireBatch
  <2>2. OnePlace' /\ OncePerPlace'
    BY Zenon, <1>1, <2>1, PlacesUnchanged DEF TimerInv
  <2>3. TypeOK'
    BY Zenon, <1>1, <2>1 DEF TimerInv, TypeOK
  <2> QED
    BY Zenon, <1>1, <2>1, <2>2, <2>3 DEF TimerInv, CheckerInv
<1>3. CASE ~callback
  <2>1. checker' = "loop" /\ batch' = <<>> /\ dropped' = dropped \cup Range(batch)
    BY Zenon, <1>3 DEF FireBatch
  <2>2. BatchIds' = {} /\ DroppedIds' = DroppedIds \cup BatchIds
    BY <2>1 DEF BatchIds, DroppedIds, Range
  <2>3. UNCHANGED <<HeldIds, HeapIds, FiredIds, cancelled, nextId>>
    BY Zenon, <1>1 DEF FiredIds, HeapIds, HeldIds, HeldId, Holding
  <2>4. OnePlace'
    BY Zenon, <2>2, <2>3 DEF TimerInv, OnePlace
  <2>5. OncePerPlace'
    BY <1>1, <2>1 DEF TimerInv, OncePerPlace, Holding, HeldId
  <2>6. TypeOK'
    BY <1>1, <2>1 DEF TimerInv, TypeOK, Range
  <2> QED
    BY <1>1, <2>1, <2>4, <2>5, <2>6 DEF TimerInv, CheckerInv
<1> QED
  BY Zenon, <1>2, <1>3

\* The first of the batch has fired.
LEMMA CallBackInv ==
  ASSUME TimerInv, CallBack
  PROVE  TimerInv'
<1> DEFINE x == batch[1]
           f == [id |-> x.id, due |-> x.fire_at, at |-> now]
<1>1. /\ checker = "call" /\ fired' = Append(fired, f) /\ batch' = Tail(batch)
      /\ checker' = IF batch' = <<>> THEN "loop" ELSE "call"
      /\ UNCHANGED <<now, nextId, heap, caller, until, notified, callback, stopping, cancelled, dropped>>
  BY Zenon DEF CallBack
<1>2. /\ batch \in Seq(Entries) /\ batch # <<>> /\ Len(batch) \in Nat \ {0}
      /\ DOMAIN batch = 1 .. Len(batch) /\ x \in Entries /\ x.fire_at <= now
  BY <1>1 DEF TimerInv, TypeOK, CheckerInv
<1>3. /\ batch' \in Seq(Entries) /\ DOMAIN batch' = 1 .. Len(batch) - 1
      /\ \A i \in DOMAIN batch' : i + 1 \in DOMAIN batch /\ batch'[i] = batch[i + 1]
  BY <1>1, <1>2
<1>4. /\ f \in [id : Ids, due : 0 .. Horizon, at : 0 .. Horizon]
      /\ f.id = x.id /\ f.at >= f.due
  BY Zenon, <1>2 DEF Entries, TimerInv, TypeOK
<1> HIDE DEF x, f
<1>5. /\ fired' \in Seq([id : Ids, due : 0 .. Horizon, at : 0 .. Horizon])
      /\ DOMAIN fired' = 1 .. Len(fired) + 1 /\ DOMAIN fired = 1 .. Len(fired)
      /\ Len(fired) \in Nat /\ fired'[Len(fired) + 1] = f
      /\ \A i \in 1 .. Len(fired) : fired'[i] = fired[i]
  BY <1>1, <1>4 DEF TimerInv, TypeOK
<1> DEFINE n == Len(fired) + 1
<1>n. /\ DOMAIN fired' = DOMAIN fired \cup {n} /\ n \notin DOMAIN fired
      /\ fired'[n] = f /\ \A i \in DOMAIN fired : fired'[i] = fired[i]
  BY <1>5
<1> HIDE DEF n
<1>6. FiredIds = {fired[i].id : i \in DOMAIN fired} /\ FiredIds' = FiredIds \cup {x.id}
  <2>1. FiredIds = {fired[i].id : i \in DOMAIN fired}
    BY Zenon DEF FiredIds, Range
  <2>2. FiredIds' = {fired'[i].id : i \in DOMAIN fired'}
    BY Zenon DEF FiredIds, Range
  <2>3. fired'[n].id = x.id /\ \A i \in DOMAIN fired : fired'[i].id = fired[i].id
    BY Zenon, <1>4, <1>n
  <2> QED
    BY <1>n, <2>1, <2>2, <2>3
<1>7. BatchIds' = BatchIds \ {x.id} /\ x.id \in BatchIds
  <2>1. \A i \in DOMAIN batch : batch[i].id = x.id => i = 1
    BY <1>2 DEF x, TimerInv, OncePerPlace
  <2>2. \A i \in DOMAIN batch : i # 1 => i - 1 \in DOMAIN batch' /\ batch'[i - 1] = batch[i]
    BY <1>2, <1>3
  <2>3. \A i \in DOMAIN batch' : batch'[i].id \in BatchIds /\ batch'[i].id # x.id
    BY <1>3, <2>1 DEF BatchIds
  <2>4. 1 \in DOMAIN batch /\ batch[1] = x
    BY <1>2 DEF x
  <2> QED
    BY <2>1, <2>2, <2>3, <2>4 DEF BatchIds
<1>8. UNCHANGED <<HeldIds, HeapIds, DroppedIds, cancelled, nextId>>
  BY Zenon, <1>1 DEF DroppedIds, HeapIds, HeldIds, HeldId, Holding
<1>9. OnePlace'
  BY <1>6, <1>7, <1>8 DEF TimerInv, OnePlace
<1>10. OncePerPlace'
  <2>1. \A i, j \in DOMAIN batch' : batch'[i].id = batch'[j].id => i = j
    BY <1>3 DEF TimerInv, OncePerPlace
  <2>2. x.id \notin FiredIds
    BY Zenon, <1>7 DEF TimerInv, OnePlace
  <2>3. \A i \in DOMAIN fired : fired'[i] = fired[i] /\ fired[i].id # x.id
    BY Zenon, <1>n, <1>6, <2>2
  <2>4. \A i, j \in DOMAIN fired : fired[i].id = fired[j].id => i = j
    BY Zenon DEF TimerInv, OncePerPlace
  <2>5. \A i, j \in DOMAIN fired' : fired'[i].id = fired'[j].id => i = j
    BY Zenon, <1>4, <1>n, <2>3, <2>4
  <2> QED
    BY Zenon, <1>1, <2>1, <2>5 DEF TimerInv, OncePerPlace, Holding, HeldId
<1>11. TypeOK'
  BY Zenon, <1>1, <1>3, <1>5 DEF TimerInv, TypeOK
<1>12. CheckerInv'
  <2>1. \A i \in DOMAIN batch' : batch'[i].fire_at <= now'
    BY Zenon, <1>1, <1>3 DEF TimerInv, CheckerInv
  <2>2. \A i \in DOMAIN fired' : fired'[i].at >= fired'[i].due
    BY Zenon, <1>4, <1>n DEF TimerInv, CheckerInv
  <2> QED
    BY Zenon, <1>1, <2>1, <2>2 DEF CheckerInv
<1> QED
  BY Zenon, <1>1, <1>9, <1>10, <1>11, <1>12 DEF TimerInv

\* The other steps move no timer.
LEMMA QuietInv ==
  ASSUME TimerInv, CheckStop \/ Wake \/ SetFireCallback \/ Tick \/ UNCHANGED vars
  PROVE  TimerInv'
<1>1. UNCHANGED <<nextId, caller, heap, batch, fired, cancelled, dropped>>
  BY Zenon DEF CheckStop, Wake, SetFireCallback, Tick, vars, loop, history
<1>2. OnePlace' /\ OncePerPlace'
  BY Zenon, <1>1, PlacesUnchanged DEF TimerInv
<1>3. TypeOK'
  <2>1. CASE CheckStop
    BY Zenon, <2>1 DEF CheckStop, history, TimerInv, TypeOK
  <2>2. CASE Wake
    BY Zenon, <2>2 DEF Wake, history, TimerInv, TypeOK
  <2>3. CASE SetFireCallback
    BY Zenon, <2>3 DEF SetFireCallback, loop, history, TimerInv, TypeOK
  <2>4. CASE Tick
    BY <2>4, TimerAssumption DEF Tick, loop, history, TimerInv, TypeOK
  <2>5. CASE UNCHANGED vars
    BY Zenon, <2>5 DEF vars, TimerInv, TypeOK
  <2> QED
    BY Zenon, <2>1, <2>2, <2>3, <2>4, <2>5
<1>4. CheckerInv'
  <2>1. now' \in Nat /\ now \in Nat /\ now <= now'
    BY TimerAssumption DEF CheckStop, Wake, SetFireCallback, Tick, vars, TimerInv, TypeOK
  <2>2. \A i \in DOMAIN batch : batch[i].fire_at \in Nat
    <3>1. \A i \in DOMAIN batch : batch[i] \in Entries
      BY DEF TimerInv, TypeOK
    <3> QED
      BY <3>1 DEF Entries
  <2>3. checker' \in {"fire", "call"} <=> checker \in {"fire", "call"}
    BY Zenon DEF CheckStop, Wake, SetFireCallback, Tick, vars, loop
  <2> QED
    BY <1>1, <2>1, <2>2, <2>3 DEF TimerInv, CheckerInv
<1> QED
  BY Zenon, <1>1, <1>2, <1>3, <1>4 DEF TimerInv

-----------------------------------------------------------------------------
\* The invariant holds in every reachable state, whatever the callers do.
THEOREM TimerInvariant == Spec => []TimerInv
<1>1. Init => TimerInv
  <2> SUFFICES ASSUME Init PROVE TimerInv
    BY Zenon
  <2>1. TypeOK
    <3>1. now \in 0 .. Horizon /\ nextId \in 1 .. MaxTimers + 1 /\ until \in 0 .. Horizon
      BY TimerAssumption DEF Init
    <3>2. caller \in [Callers -> {Idle}]
      BY Zenon DEF Init
    <3>3. batch \in Seq(Entries) /\ fired \in Seq([id : Ids, due : 0 .. Horizon, at : 0 .. Horizon])
      BY DEF Init
    <3> QED
      BY Zenon, <3>1, <3>2, <3>3 DEF Init, TypeOK
  <2>2. HeldIds = {} /\ HeapIds = {} /\ BatchIds = {} /\ FiredIds = {} /\ DroppedIds = {}
    BY DEF Init, HeldIds, Holding, Idle, HeapIds, BatchIds, FiredIds, DroppedIds, Range
  <2>3. OnePlace
    BY <2>2 DEF Init, OnePlace
  <2>4. OncePerPlace /\ CheckerInv
    BY DEF Init, OncePerPlace, CheckerInv, Holding, Idle
  <2> QED
    BY Zenon, <2>1, <2>3, <2>4, FS_EmptySet DEF Init, TimerInv
<1>2. TimerInv /\ [Next]_vars => TimerInv'
  <2> SUFFICES ASSUME TimerInv, [Next]_vars PROVE TimerInv'
    BY Zenon
  <2>1. ASSUME NEW c \in Callers, Caller(c) PROVE TimerInv'
    BY Zenon, <2>1, ScheduleIdInv, ScheduleReadInv, SchedulePushInv, NotifyInv, CancelInv DEF Caller
  <2>2. CASE Checker
    BY Zenon, <2>2, PopInv, FireBatchInv, CallBackInv, QuietInv DEF Checker
  <2> QED
    BY Zenon, <2>1, <2>2, QuietInv DEF Next
<1> QED
  BY <1>1, <1>2, PTL DEF Spec

\* Type correctness: ids, deadlines and the clock stay within their bounds.
THEOREM TypeCorrect == Spec => []TypeOK
<1>1. TimerInv => TypeOK
  BY Zenon DEF TimerInv
<1> QED
  BY <1>1, TimerInvariant, PTL

\* However schedule, cancel and the checker interleave, a timer is pending,
\* fired, cancelled or dropped, never two of these, and none is lost.
THEOREM TimersAccountedFor == Spec => []EveryTimerIsAccountedFor
<1>1. TimerInv => EveryTimerIsAccountedFor
  <2> SUFFICES ASSUME TimerInv PROVE EveryTimerIsAccountedFor
    BY Zenon
  <2>1. {e.id : e \in heap \cup Range(batch)} = HeapIds \cup BatchIds
    BY Zenon DEF HeapIds, BatchIds, Range
  <2>2. {caller[c].id : c \in {d \in Callers : caller[d].at = "read"}}
          \cup {caller[c].entry.id : c \in {d \in Callers : caller[d].at = "push"}} = HeldIds
    BY Zenon DEF HeldIds, HeldId, Holding
  <2>3. OnTheirWay = HeapIds \cup BatchIds \cup HeldIds
    BY Zenon, <2>1, <2>2 DEF OnTheirWay
  <2> QED
    BY Zenon, <2>3 DEF TimerInv, OnePlace, EveryTimerIsAccountedFor, DroppedIds
<1> QED
  BY <1>1, TimerInvariant, PTL

\* The callback is called at most once for a timer, and not before its deadline.
THEOREM FiresOnce == Spec => []FiresOnceWhenDue
<1>1. TimerInv => FiresOnceWhenDue
  BY Zenon DEF TimerInv, OncePerPlace, CheckerInv, FiresOnceWhenDue
<1> QED
  BY <1>1, TimerInvariant, PTL
=============================================================================
