----------------------------- MODULE TaskQueue -----------------------------
(***************************************************************************)
(* The in-memory task queues (task_queue.rs): named queues behind one      *)
(* mutex and ONE condition variable.  enqueue takes its id, inserts and    *)
(* notifies in three separate critical sections; a blocked poll gives the  *)
(* mutex back and sleeps in one step.  The per-queue counters are kept,    *)
(* and so is the backlog timestamp, the time of an insertion being its     *)
(* number in the queue; the process-wide totals are left out.              *)
(***************************************************************************)
EXTENDS Integers, Sequences, FiniteSets, FiniteSetsExt

CONSTANTS
  Queues,       \* task queue hashes
  Enqueuers,    \* threads that call enqueue
  Pollers,      \* threads that call poll or poll_timeout
  Priorities,   \* 0 is "no priority"; otherwise lower is more urgent
  Deadlines,    \* deadline_ms; 0 is "never"
  Clock,        \* values remove_expired may be called with
  MaxTasks      \* bound on the number of tasks ever enqueued

ASSUME QueueAssumption ==
  /\ MaxTasks \in Nat
  /\ Priorities \subseteq Nat /\ Deadlines \subseteq Nat /\ Clock \subseteq Nat
  /\ IsFiniteSet(Queues) /\ IsFiniteSet(Enqueuers) /\ IsFiniteSet(Pollers)

VARIABLES
  next_task_id,
  known,        \* queues that have a QueueState
  deque,        \* queue -> sequence of tasks
  shut,         \* queues whose QueueState has shutdown = true
  counts,       \* queue -> [enqueued, dequeued, expired]
  oldest_task_at, \* queue -> the insertion it was set at; 0 is None
  enq,          \* enqueuer -> where it is inside enqueue
  poller,       \* poller -> where it is inside poll
  closing,      \* TRUE between the two halves of shutdown
  taken         \* history: ids handed to a caller

vars == <<next_task_id, known, deque, shut, counts, oldest_task_at, enq, poller,
          closing, taken>>
queueVars == <<known, deque, shut, counts, oldest_task_at>>

\* nth is history: the number of the task's insertion, 0 before it.
Task == [id : Nat, priority : Priorities, deadline : Deadlines, nth : Nat]
Idle == [at |-> "idle"]
ZeroCounts == [enqueued |-> 0, dequeued |-> 0, expired |-> 0]

SumOver(S, f) == FoldFunctionOnSet(+, 0, f, S)

WaitingOn(q) == {w \in Pollers : poller[w].at = "waiting" /\ poller[w].queue = q}
Waiting == {w \in Pollers : poller[w].at = "waiting"}
Checking == {w \in Pollers : poller[w].at = "checking"}
Notifying == {e \in Enqueuers : enq[e].at = "notify"}

Init ==
  /\ next_task_id = 1
  /\ known = {} /\ shut = {}
  /\ deque = [q \in Queues |-> <<>>]
  /\ counts = [q \in Queues |-> ZeroCounts]
  /\ oldest_task_at = [q \in Queues |-> 0]
  /\ enq = [e \in Enqueuers |-> Idle]
  /\ poller = [w \in Pollers |-> Idle]
  /\ closing = FALSE
  /\ taken = {}

-----------------------------------------------------------------------------
(* enqueue *)

TakeId(e, q, p, d) ==
  /\ enq[e] = Idle
  /\ next_task_id <= MaxTasks
  /\ enq' = [enq EXCEPT ![e] =
       [at |-> "insert", queue |-> q,
        task |-> [id |-> next_task_id, priority |-> p, deadline |-> d, nth |-> 0]]]
  /\ next_task_id' = next_task_id + 1
  /\ UNCHANGED <<queueVars, poller, closing, taken>>

\* VecDeque::insert at the first of the positions I, push_back if there is none.
InsertedAtFirst(s, I, t) ==
  IF I = {} THEN Append(s, t)
  ELSE [k \in 1 .. Len(s) + 1 |->
          IF k < Min(I) THEN s[k] ELSE IF k = Min(I) THEN t ELSE s[k - 1]]

\* Mutants: a task is put in front of its equals; priorities are ignored.
PlacedLast(s, t) == Append(s, t)

PlacedBeforeEquals(s, t) ==
  InsertedAtFirst(s, {i \in DOMAIN s : t.priority > 0 /\ s[i].priority >= t.priority}, t)

\* Before the first less urgent task; a task without priority goes last.
Placed(s, t) ==
  InsertedAtFirst(s, {i \in DOMAIN s : t.priority > 0 /\ s[i].priority > t.priority}, t)

KnownWith(q) == known \cup {q}

InsertTask(e) ==
  /\ enq[e].at = "insert"
  /\ LET q == enq[e].queue
         n == counts[q].enqueued + 1
     IN  /\ known' = KnownWith(q)
         /\ deque' = [deque EXCEPT ![q] = Placed(@, [enq[e].task EXCEPT !.nth = n])]
         /\ counts' = [counts EXCEPT ![q].enqueued = n]
         /\ oldest_task_at' = [oldest_task_at EXCEPT ![q] = IF @ = 0 THEN n ELSE @]
  /\ enq' = [enq EXCEPT ![e] = [at |-> "notify"]]
  /\ UNCHANGED <<next_task_id, shut, poller, closing, taken>>

\* Mutant: the notification is forgotten.
WakeNobody == UNCHANGED poller

Wake(w) == [poller EXCEPT ![w].at = "checking"]

\* Condvar::notify_one: any one sleeping poller, of whichever queue.
WakeOne ==
  IF Waiting = {} THEN UNCHANGED poller
  ELSE \E w \in Waiting : poller' = Wake(w)

NotifyOne(e) ==
  /\ enq[e].at = "notify"
  /\ WakeOne
  /\ enq' = [enq EXCEPT ![e] = Idle]
  /\ UNCHANGED <<next_task_id, queueVars, closing, taken>>

-----------------------------------------------------------------------------
(* poll, poll_timeout, try_poll *)

\* Mutant: front() where pop_front() is meant.
RestIsAll(s) == s

Rest(s) == Tail(s)

\* Mutant: every poll clears the timestamp.
OldestAfterAnyPop(q) == 0

\* A poll that empties the queue clears it; otherwise it stays, whichever task
\* was taken.
OldestAfterPop(q) == IF Rest(deque[q]) = <<>> THEN 0 ELSE oldest_task_at[q]

Pop(q) ==
  /\ deque[q] # <<>>
  /\ deque' = [deque EXCEPT ![q] = Rest(@)]
  /\ counts' = [counts EXCEPT ![q].dequeued = @ + 1]
  /\ oldest_task_at' = [oldest_task_at EXCEPT ![q] = OldestAfterPop(q)]
  /\ taken' = taken \cup {Head(deque[q]).id}
  /\ UNCHANGED <<known, shut>>

StartPoll(w, q, timed) ==
  /\ poller[w] = Idle
  /\ poller' = [poller EXCEPT ![w] = [at |-> "checking", queue |-> q, timed |-> timed]]
  /\ UNCHANGED <<next_task_id, queueVars, enq, closing, taken>>

PollTask(w) ==
  /\ poller[w].at = "checking"
  /\ Pop(poller[w].queue)
  /\ poller' = [poller EXCEPT ![w] = Idle]
  /\ UNCHANGED <<next_task_id, enq, closing>>

\* Return None: the queue is shut down, or a timed poll is past its deadline.
PollNone(w) ==
  /\ poller[w].at = "checking"
  /\ deque[poller[w].queue] = <<>>
  /\ poller[w].queue \in shut \/ poller[w].timed
  /\ poller' = [poller EXCEPT ![w] = Idle]
  /\ UNCHANGED <<next_task_id, queueVars, enq, closing, taken>>

\* Mutant: the deque is not looked at again before sleeping.
MustWaitBlindly(w) == poller[w].queue \notin shut

MustWait(w) == deque[poller[w].queue] = <<>> /\ poller[w].queue \notin shut

PollWait(w) ==
  /\ poller[w].at = "checking"
  /\ MustWait(w)
  /\ poller' = [poller EXCEPT ![w].at = "waiting"]
  /\ UNCHANGED <<next_task_id, queueVars, enq, closing, taken>>

\* A timeout, or a spurious wakeup, which Condvar allows.
WakeUnnotified(w) ==
  /\ w \in Waiting
  /\ poller' = Wake(w)
  /\ UNCHANGED <<next_task_id, queueVars, enq, closing, taken>>

TryPoll(q) ==
  /\ Pop(q)
  /\ UNCHANGED <<next_task_id, enq, poller, closing>>

-----------------------------------------------------------------------------
(* remove_expired, shutdown *)

\* Mutant: a task that never expires is dropped as well.
LiveAtNoDeadline(t, now) == t.deadline > now

LiveAt(t, now) == t.deadline = 0 \/ t.deadline > now

\* VecDeque::retain on s.
Retained(s, now) ==
  LET upTo[n \in 0 .. Len(s)] ==
        IF n = 0 THEN <<>>
        ELSE IF LiveAt(s[n], now) THEN Append(upTo[n - 1], s[n]) ELSE upTo[n - 1]
  IN  upTo[Len(s)]

Kept(q, now) == Retained(deque[q], now)

RemovedCount(q, now) == Len(deque[q]) - Len(Kept(q, now))

\* oldest_task_at is left alone, even if nothing is left in the queue.
RemoveExpired(now) ==
  /\ \E q \in Queues : Kept(q, now) # deque[q]
  /\ deque' = [q \in Queues |-> Kept(q, now)]
  /\ counts' = [q \in Queues |->
       [counts[q] EXCEPT !.expired = @ + RemovedCount(q, now)]]
  /\ UNCHANGED <<next_task_id, known, shut, oldest_task_at, enq, poller, closing, taken>>

\* shutdown marks only the queues that have a QueueState ...
ShutdownMark ==
  /\ ~closing
  /\ shut' = shut \cup known
  /\ closing' = TRUE
  /\ UNCHANGED <<next_task_id, known, deque, counts, oldest_task_at, enq, poller, taken>>

\* Mutant: nobody is woken.
WakeNone == poller

WakeAll == [w \in Pollers |->
  IF w \in Waiting THEN [poller[w] EXCEPT !.at = "checking"] ELSE poller[w]]

\* ... and then wakes every sleeper.
ShutdownNotify ==
  /\ closing
  /\ poller' = WakeAll
  /\ closing' = FALSE
  /\ UNCHANGED <<next_task_id, queueVars, enq, taken>>

-----------------------------------------------------------------------------
Poll(w) == PollTask(w) \/ PollNone(w) \/ PollWait(w)

Next ==
  \/ \E e \in Enqueuers, q \in Queues, p \in Priorities, d \in Deadlines : TakeId(e, q, p, d)
  \/ \E e \in Enqueuers : InsertTask(e) \/ NotifyOne(e)
  \/ \E w \in Pollers, q \in Queues, timed \in BOOLEAN : StartPoll(w, q, timed)
  \/ \E w \in Pollers : Poll(w) \/ WakeUnnotified(w)
  \/ \E q \in Queues : TryPoll(q)
  \/ \E now \in Clock : RemoveExpired(now)
  \/ ShutdownMark
  \/ ShutdownNotify

Spec == Init /\ [][Next]_vars

\* A thread that is inside a call and not asleep keeps running: the mutex is
\* only held for the length of one step.
Fairness ==
  /\ \A e \in Enqueuers : WF_vars(InsertTask(e)) /\ WF_vars(NotifyOne(e))
  /\ \A w \in Pollers : WF_vars(Poll(w))
  /\ WF_vars(ShutdownNotify)

FairSpec == Spec /\ Fairness

-----------------------------------------------------------------------------
\* Type correctness.
TypeOK ==
  /\ next_task_id \in 1 .. MaxTasks + 1
  /\ known \subseteq Queues /\ shut \subseteq known
  /\ deque \in [Queues -> Seq(Task)]
  /\ counts \in [Queues -> [enqueued : Nat, dequeued : Nat, expired : Nat]]
  /\ oldest_task_at \in [Queues -> Nat]
  /\ enq \in [Enqueuers -> {Idle, [at |-> "notify"]}
                 \cup [at : {"insert"}, queue : Queues, task : Task]]
  /\ poller \in [Pollers -> {Idle}
                 \cup [at : {"checking", "waiting"}, queue : Queues, timed : BOOLEAN]]
  /\ closing \in BOOLEAN
  /\ taken \subseteq 1 .. MaxTasks

Pending(q) == {deque[q][i].id : i \in DOMAIN deque[q]}
InFlight == {enq[e].task.id : e \in {x \in Enqueuers : enq[x].at = "insert"}}

\* A task is delivered at most once and never lost: an id is in flight, in one
\* place of one deque, taken, or expired, and the per-queue counters add up.
TaskConservation ==
  /\ \A q \in Queues :
       /\ Cardinality(Pending(q)) = Len(deque[q])
       /\ Pending(q) \cap (taken \cup InFlight) = {}
       /\ \A r \in Queues \ {q} : Pending(q) \cap Pending(r) = {}
       /\ counts[q].enqueued = counts[q].dequeued + counts[q].expired + Len(deque[q])
  /\ Cardinality(taken) = SumOver(Queues, [q \in Queues |-> counts[q].dequeued])
  /\ next_task_id - 1 = Cardinality(InFlight)
                        + SumOver(Queues, [q \in Queues |-> counts[q].enqueued])

\* A task without a deadline only leaves its queue through a poll: expiry never
\* drops it.
NeverExpires ==
  [][\A q \in Queues : \A i \in DOMAIN deque[q] :
       deque[q][i].deadline = 0 => deque[q][i].id \in Pending(q)' \cup taken']_vars

\* Among tasks that have a priority the more urgent ones are in front.
UrgentFirst ==
  \A q \in Queues : \A i, j \in DOMAIN deque[q] :
    i < j /\ deque[q][i].priority > 0 /\ deque[q][j].priority > 0
      => deque[q][i].priority <= deque[q][j].priority

\* No step reorders tasks that are already queued, and a new task goes ahead
\* of a prioritised one only if it is strictly more urgent.
NoOvertaking ==
  [][\A q \in Queues : \A i, j \in DOMAIN deque'[q] :
       LET a == deque'[q][i]
           b == deque'[q][j]
       IN  i < j /\ b.id \in Pending(q) =>
             IF a.id \in Pending(q)
             THEN \E k, l \in DOMAIN deque[q] : k < l /\ deque[q][k] = a /\ deque[q][l] = b
             ELSE b.priority > 0 => a.priority < b.priority]_vars

\* The backlog age is never too small: while tasks are queued, oldest_task_at is
\* set, to a moment no later than any of their insertions.  It may be too old
\* (a task was taken past it, or expired): with nothing queued it is still set
\* only if tasks have expired.
BacklogNotUnderstated ==
  \A q \in Queues :
    /\ \A i \in DOMAIN deque[q] : oldest_task_at[q] \in 1 .. deque[q][i].nth
    /\ deque[q] = <<>> /\ oldest_task_at[q] # 0 => counts[q].expired > 0

\* Nobody sleeps beside work nobody was told about: when there is one queue and
\* a poller sleeps, every queued task has a poller about to look at the queue or
\* a notification about to be sent.
WakeupsCover ==
  \A q \in Queues :
    Queues = {q} /\ Waiting # {} =>
      Len(deque[q]) <= Cardinality(Checking) + Cardinality(Notifying)

\* "Wakes one waiting poller on the matching queue": a task and a poller
\* blocked on the same queue do not both stay there.
NoStrandedTask ==
  \A q \in Queues :
    (deque[q] # <<>> /\ \E w \in WaitingOn(q) : ~poller[w].timed)
      ~> (deque[q] = <<>> \/ \A w \in WaitingOn(q) : poller[w].timed)

\* A poll of a queue that has been shut down returns.
ShutdownReleases ==
  \A w \in Pollers :
    (poller[w].at # "idle" /\ poller[w].queue \in shut) ~> (poller[w] = Idle)
=============================================================================
