---------------------------- MODULE TimerEngine ----------------------------
(***************************************************************************)
(* The timer engine (timer_engine.rs): callers schedule and cancel timers  *)
(* in a heap under a mutex, and one checker thread pops what has expired   *)
(* and calls back outside the mutex.  Time advances on its own, up to a    *)
(* horizon; no timer is scheduled past it, and a wait ends at it.          *)
(***************************************************************************)
EXTENDS Integers, Sequences, FiniteSetsExt, Functions

CONSTANTS
  Callers,     \* threads that schedule, cancel and shut down
  MaxTimers,   \* bound on the timers scheduled
  Delays,      \* delays asked for
  PollDelay,   \* the longest wait of the checker: 100 ms
  Horizon      \* bound on the clock

ASSUME TimerAssumption ==
  /\ MaxTimers \in Nat /\ Horizon \in Nat /\ PollDelay \in Nat \ {0}
  /\ Delays \subseteq Nat /\ 0 \in Delays

VARIABLES
  now,        \* Instant::now()
  nextId,     \* next_timer_id
  heap,       \* pending entries
  caller,     \* caller -> where it is inside schedule or shutdown
  checker,    \* where the checker thread is
  batch,      \* entries popped and not yet called back
  until,      \* when the checker's wait times out
  notified,   \* the checker was notified in its wait
  callback,   \* on_fire is set
  stopping,   \* the shutdown flag
  fired,      \* history: callbacks made, in order
  cancelled,  \* history: ids whose cancel returned true
  dropped     \* history: entries popped with no callback set

vars == <<now, nextId, heap, caller, checker, batch, until, notified, callback,
          stopping, fired, cancelled, dropped>>
history == <<fired, cancelled, dropped>>
loop == <<checker, batch, until>>

Idle == [at |-> "idle"]

Init ==
  /\ now = 0 /\ nextId = 1
  /\ heap = {}
  /\ caller = [c \in Callers |-> Idle]
  /\ checker = "loop" /\ batch = <<>> /\ until = 0 /\ notified = FALSE
  /\ callback = FALSE /\ stopping = FALSE
  /\ fired = <<>> /\ cancelled = {} /\ dropped = {}

GoTo(c, where) == caller' = [caller EXCEPT ![c] = where]

\* notify_one and notify_all: only a thread that is waiting hears them.
Notify == notified' = (checker = "wait" \/ notified)

-----------------------------------------------------------------------------
(* schedule: the id, the deadline, the heap and the wakeup, each by itself *)

ScheduleId(c) ==
  /\ caller[c] = Idle /\ nextId <= MaxTimers
  /\ nextId' = nextId + 1
  /\ GoTo(c, [at |-> "read", id |-> nextId])
  /\ UNCHANGED <<now, heap, loop, notified, callback, stopping, history>>

ScheduleRead(c) ==
  /\ caller[c].at = "read"
  /\ \E d \in Delays :
       /\ now + d <= Horizon
       /\ GoTo(c, [at |-> "push", entry |-> [id |-> caller[c].id, fire_at |-> now + d]])
  /\ UNCHANGED <<now, nextId, heap, loop, notified, callback, stopping, history>>

SchedulePush(c) ==
  /\ caller[c].at = "push"
  /\ heap' = heap \cup {caller[c].entry}
  /\ GoTo(c, [at |-> "notify"])
  /\ UNCHANGED <<now, nextId, loop, notified, callback, stopping, history>>

\* The end of schedule, and of shutdown.
NotifyChecker(c) ==
  /\ caller[c].at = "notify"
  /\ Notify
  /\ GoTo(c, Idle)
  /\ UNCHANGED <<now, nextId, heap, loop, callback, stopping, history>>

\* Mutant: cancel reports success without removing the entry.
CancelKeeps(id) == heap

CancelLeaves(id) == {e \in heap : e.id # id}

Cancel(c, id) ==
  /\ caller[c] = Idle
  /\ heap' = CancelLeaves(id)
  /\ cancelled' = IF \E e \in heap : e.id = id THEN cancelled \cup {id} ELSE cancelled
  /\ UNCHANGED <<now, nextId, caller, loop, notified, callback, stopping, fired, dropped>>

Shutdown(c) ==
  /\ caller[c] = Idle /\ ~stopping
  /\ stopping' = TRUE
  /\ GoTo(c, [at |-> "notify"])
  /\ UNCHANGED <<now, nextId, heap, loop, notified, callback, history>>

\* init_timers; the lock of on_fire is the checker's while it calls back.
SetFireCallback ==
  /\ ~callback /\ checker # "call"
  /\ callback' = TRUE
  /\ UNCHANGED <<now, nextId, heap, caller, loop, notified, stopping, history>>

-----------------------------------------------------------------------------
(* the checker thread *)

CheckStop ==
  /\ checker = "loop"
  /\ checker' = IF stopping THEN "done" ELSE "check"
  /\ UNCHANGED <<now, nextId, heap, caller, batch, until, notified, callback, stopping, history>>

\* Mutant: the earliest entry is popped whether it has expired or not.
PoppedEarly(h) == {e \in h : \A f \in h : e.fire_at <= f.fire_at}

Expired(h) == {e \in h : e.fire_at <= now}

\* Entries with one deadline leave the heap in any order.
PopOrders(s) ==
  {q \in Bijection(1 .. Cardinality(s), s) :
     \A i, j \in DOMAIN q : i < j => q[i].fire_at <= q[j].fire_at}

\* Mutant: a wait that only a notification ends.
WaitForever(h) == Horizon + 1

WaitUntil(h) == Min({Horizon, now + PollDelay} \cup {e.fire_at : e \in h})

PopExpired ==
  /\ checker = "check"
  /\ \E q \in PopOrders(Expired(heap)) :
       /\ heap' = heap \ Range(q)
       /\ batch' = q
       /\ IF q = <<>>
          THEN checker' = "wait" /\ until' = WaitUntil(heap) /\ notified' = FALSE
          ELSE checker' = "fire" /\ UNCHANGED <<until, notified>>
  /\ UNCHANGED <<now, nextId, caller, callback, stopping, history>>

\* A notification, the timeout, or neither: wakeups may be spurious.
Wake ==
  /\ checker = "wait"
  /\ checker' = "loop" /\ notified' = FALSE
  /\ UNCHANGED <<now, nextId, heap, caller, batch, until, callback, stopping, history>>

DueWake == (notified \/ now >= until) /\ Wake

\* The checker takes on_fire; what it popped is lost if nothing is set.
FireBatch ==
  /\ checker = "fire"
  /\ IF callback
     THEN checker' = "call" /\ UNCHANGED <<batch, dropped>>
     ELSE checker' = "loop" /\ batch' = <<>> /\ dropped' = dropped \cup Range(batch)
  /\ UNCHANGED <<now, nextId, heap, caller, until, notified, callback, stopping, fired, cancelled>>

CallBack ==
  /\ checker = "call"
  /\ fired' = Append(fired, [id |-> batch[1].id, due |-> batch[1].fire_at, at |-> now])
  /\ batch' = Tail(batch)
  /\ checker' = IF batch' = <<>> THEN "loop" ELSE "call"
  /\ UNCHANGED <<now, nextId, heap, caller, until, notified, callback, stopping, cancelled, dropped>>

Checker == CheckStop \/ PopExpired \/ FireBatch \/ CallBack

Tick ==
  /\ now < Horizon
  /\ now' = now + 1
  /\ UNCHANGED <<nextId, heap, caller, loop, notified, callback, stopping, history>>

-----------------------------------------------------------------------------
Caller(c) ==
  \/ ScheduleId(c) \/ ScheduleRead(c) \/ SchedulePush(c) \/ NotifyChecker(c)
  \/ \E id \in 1 .. nextId - 1 : Cancel(c, id)
  \/ Shutdown(c)

Next == (\E c \in Callers : Caller(c)) \/ SetFireCallback \/ Checker \/ Wake \/ Tick

\* The checker is scheduled, its waits end, time passes; nobody has to call.
Spec == Init /\ [][Next]_vars /\ WF_vars(Checker) /\ WF_vars(DueWake) /\ WF_vars(Tick)

-----------------------------------------------------------------------------
Ids == 1 .. MaxTimers
Entries == [id : Ids, fire_at : 0 .. Horizon]

\* Type correctness.
TypeOK ==
  /\ now \in 0 .. Horizon /\ nextId \in 1 .. MaxTimers + 1
  /\ heap \subseteq Entries /\ batch \in Seq(Entries)
  /\ caller \in [Callers -> {Idle, [at |-> "notify"]} \cup [at : {"read"}, id : Ids]
                            \cup [at : {"push"}, entry : Entries]]
  /\ checker \in {"loop", "check", "wait", "fire", "call", "done"}
  /\ until \in 0 .. Horizon
  /\ notified \in BOOLEAN /\ callback \in BOOLEAN /\ stopping \in BOOLEAN
  /\ fired \in Seq([id : Ids, due : 0 .. Horizon, at : 0 .. Horizon])
  /\ cancelled \subseteq Ids /\ dropped \subseteq Entries

FiredIds == {f.id : f \in Range(fired)}
OnTheirWay == {e.id : e \in heap \cup Range(batch)}
                \cup {caller[c].id : c \in {d \in Callers : caller[d].at = "read"}}
                \cup {caller[c].entry.id : c \in {d \in Callers : caller[d].at = "push"}}

\* "Cancel a pending timer. Returns true if the timer was found and cancelled":
\* a timer is pending, fired, cancelled or dropped, never two of these, and
\* none is lost, however schedule, cancel and the checker interleave.
EveryTimerIsAccountedFor ==
  /\ 1 .. nextId - 1 = OnTheirWay \cup FiredIds \cup cancelled \cup {e.id : e \in dropped}
  /\ cancelled \cap (FiredIds \cup OnTheirWay) = {}
  /\ OnTheirWay \cap FiredIds = {}

\* The callback is called once for a timer and never before its deadline.
FiresOnceWhenDue ==
  \A i \in DOMAIN fired :
    /\ fired[i].at >= fired[i].due
    /\ \A j \in DOMAIN fired : fired[i].id = fired[j].id => i = j

\* "fires timers when their deadline expires": a timer in the heap fires or is
\* cancelled, unless it expires before init_timers or after shutdown.
TimersFire ==
  \A id \in Ids : (\E e \in heap : e.id = id) ~>
    (stopping \/ id \in FiredIds \cup cancelled \cup {e.id : e \in dropped})

\* The checker stops after shutdown, even when the notification comes between
\* its look at the flag and its wait.
ShutdownStops == stopping ~> checker = "done"
=============================================================================
