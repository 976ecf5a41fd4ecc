------------------------- MODULE ConcurrencyLimiter -------------------------
(***************************************************************************)
(* The workflow concurrency limiter (concurrency_limiter.rs): a global     *)
(* count, one count per workflow type and one per namespace, and a queue   *)
(* of requests waiting for a slot.  Each count has its own lock (the       *)
(* global one is an atomic), so acquire is three checks followed by three  *)
(* increments, all at different moments.                                   *)
(*                                                                         *)
(* A call is identified by the workflow key it is made for; pc[k] follows  *)
(* the acquire and the release of k.  When a release admits a queued       *)
(* request h, the commit is made for h: pc[h] moves while the releasing    *)
(* call stands at "admitting".  Statistics are left out.                   *)
(***************************************************************************)
EXTENDS Integers, Sequences, FiniteSets

CONSTANTS
  Keys,         \* workflow keys, each acquired at most once
  Of,           \* key -> its workflow type and its namespace
  MaxGlobal,    \* config.max_global
  Limit,        \* max_per_type and max_per_namespace, by dimension
  QueueDepth,   \* config.max_queue_depth
  Policies,     \* the overflow policies considered
  MaxCalls,     \* number of threads that may be inside a call
  Word          \* global_active counts modulo this (2^64 in the code)

Dims == {"type", "namespace"}
NoOne == "no one"
Ids == {Of[k][d] : k \in Keys, d \in Dims}

ASSUME LimiterAssumption ==
  /\ IsFiniteSet(Keys)
  /\ NoOne \notin Keys
  /\ \A k \in Keys : DOMAIN Of[k] = Dims
  /\ MaxGlobal \in Nat /\ QueueDepth \in Nat /\ MaxCalls \in Nat \ {0}
  /\ Limit \in [Dims -> Nat]
  /\ Policies \subseteq {"reject", "queue", "preempt"}
  /\ Word \in Nat \ {0} /\ Cardinality(Keys) < Word

VARIABLES
  policy,          \* config.overflow_policy
  global_active,
  active,          \* dimension -> id -> the entry's count, or Absent
  queue,           \* keys of the waiting requests
  lock,            \* the RwLocks that are held from one step to another
  pc               \* key -> where its acquire or release is

vars == <<policy, global_active, active, queue, lock, pc>>

Absent == -1
Locks == Dims \cup {"queue"}
Free(l) == lock[l] = NoOne

At(k, a, d) == pc[k] = [at |-> a, d |-> d]
Move(k, a, d) == pc' = [pc EXCEPT ![k] = [at |-> a, d |-> d]]

\* No call is under way for k.
Outside(k) == pc[k].at \in {"new", "held", "queued", "rejected", "done", "admitting"}
Busy == {k \in Keys : ~Outside(k)}
ThreadFree == Cardinality(Busy) < MaxCalls

Count(d, i) == IF active[d][i] = Absent THEN 0 ELSE active[d][i]

Init ==
  /\ policy \in Policies
  /\ global_active = 0
  /\ active = [d \in Dims |-> [i \in Ids |-> Absent]]
  /\ queue = <<>>
  /\ lock = [l \in Locks |-> NoOne]
  /\ pc = [k \in Keys |-> [at |-> "new", d |-> "none"]]

-----------------------------------------------------------------------------
(* acquire: the checks, in the order global, type, namespace *)

\* Mutant: the limit itself is let through.
GlobalFullLate == global_active > MaxGlobal

GlobalFull == global_active >= MaxGlobal

Acquire(k) ==
  /\ At(k, "new", "none")
  /\ ThreadFree
  /\ IF GlobalFull THEN Move(k, "overflow", "none") ELSE Move(k, "check", "type")
  /\ UNCHANGED <<policy, global_active, active, queue, lock>>

\* Mutant: one more than the limit.
DimFullLate(d, i) == Count(d, i) > Limit[d]

DimFull(d, i) == Count(d, i) >= Limit[d]

\* The entry is created if there is none.  When it is full handle_overflow is
\* called with the lock of this dimension still held.
CheckLimit(k, d) ==
  /\ At(k, "check", d)
  /\ Free(d)
  /\ LET i == Of[k][d]
     IN  /\ active' = [active EXCEPT ![d][i] = Count(d, i)]
         /\ IF DimFull(d, i)
            THEN /\ Move(k, "overflow", d)
                 /\ lock' = [lock EXCEPT ![d] = k]
            ELSE /\ IF d = "type" THEN Move(k, "check", "namespace")
                                  ELSE Move(k, "commit", "global")
                 /\ UNCHANGED lock
  /\ UNCHANGED <<policy, global_active, queue>>

\* Mutant: the lock stays with the call that returned.
StillLocked(d) == lock

\* When handle_overflow returns, the lock of the full dimension goes.
Unlocked(d) == [lock EXCEPT ![d] = NoOne]

OverflowQueued(k, d) ==
  /\ policy = "queue"
  /\ Free("queue")
  /\ Len(queue) < QueueDepth
  /\ queue' = Append(queue, k)
  /\ Move(k, "queued", "none")

OverflowRejected(k, d) ==
  /\ policy = "queue" => Free("queue") /\ Len(queue) >= QueueDepth
  /\ Move(k, "rejected", "none")
  /\ UNCHANGED queue

HandleOverflow(k, d) ==
  /\ At(k, "overflow", d)
  /\ OverflowQueued(k, d) \/ OverflowRejected(k, d)
  /\ lock' = IF d = "none" THEN lock ELSE Unlocked(d)
  /\ UNCHANGED <<policy, global_active, active>>

-----------------------------------------------------------------------------
(* commit_acquire, called by acquire or by try_dequeue *)

CommitGlobal(k) ==
  /\ At(k, "commit", "global")
  /\ global_active' = (global_active + 1) % Word
  /\ Move(k, "commit", "type")
  /\ UNCHANGED <<policy, active, queue, lock>>

\* An entry that does not exist is not counted.
Incremented(n) == IF n = Absent THEN Absent ELSE n + 1

\* The last increment ends the call; if it was made by try_dequeue, the
\* releasing call returns and drops the lock of the queue.
CommitDim(k, d) ==
  /\ At(k, "commit", d)
  /\ Free(d)
  /\ active' = [active EXCEPT ![d][Of[k][d]] = Incremented(@)]
  /\ IF d = "type"
     THEN Move(k, "commit", "namespace") /\ UNCHANGED <<queue, lock>>
     ELSE IF lock["queue"] # NoOne /\ queue # <<>> /\ Head(queue) = k
     THEN /\ queue' = Tail(queue)
          /\ pc' = [pc EXCEPT ![k] = [at |-> "held", d |-> "none"],
                              ![lock["queue"]] = [at |-> "done", d |-> "none"]]
          /\ lock' = Unlocked("queue")
     ELSE Move(k, "held", "none") /\ UNCHANGED <<queue, lock>>
  /\ UNCHANGED <<policy, global_active>>

-----------------------------------------------------------------------------
(* release, and try_dequeue at its end *)

\* Mutant: the count of the type is given back, the global one is not.
ReleasedNothing == global_active

ReleasedGlobal == (global_active - 1) % Word

\* A slot is released once, by the discipline of the callers.
Release(k) ==
  /\ At(k, "held", "none")
  /\ ThreadFree
  /\ global_active' = ReleasedGlobal
  /\ Move(k, "release", "type")
  /\ UNCHANGED <<policy, active, queue, lock>>

\* Mutant: a plain subtraction.
DecrementedPlain(n) == n - 1

\* saturating_sub, if there is an entry.
Decremented(n) == IF n > 0 THEN n - 1 ELSE n

ReleaseDim(k, d) ==
  /\ At(k, "release", d)
  /\ Free(d)
  /\ active' = [active EXCEPT ![d][Of[k][d]] = Decremented(@)]
  /\ IF d = "type" THEN Move(k, "release", "namespace")
                   ELSE Move(k, "dequeue", "global")
  /\ UNCHANGED <<policy, global_active, queue, lock>>

\* Mutant: the head that cannot be admitted is not put back.
HeadDropped == IF queue = <<>> THEN queue ELSE Tail(queue)

\* pop_front followed by push_front.
HeadPutBack == queue

GiveUp(k) ==
  /\ Move(k, "done", "none")
  /\ queue' = HeadPutBack
  /\ lock' = Unlocked("queue")

\* The queue's lock is taken and kept; the head is off the queue while the
\* lock is held, which nobody can see.
Dequeue(k) ==
  /\ At(k, "dequeue", "global")
  /\ Free("queue")
  /\ IF queue = <<>> \/ GlobalFull
     THEN GiveUp(k)
     ELSE /\ lock' = [lock EXCEPT !["queue"] = k]
          /\ Move(k, "dequeue", "type")
          /\ UNCHANGED queue
  /\ UNCHANGED <<policy, global_active, active>>

\* is_none_or: a type or a namespace without an entry is never full here.
DequeueCheck(k, d) ==
  /\ At(k, "dequeue", d)
  /\ Free(d)
  /\ LET n == active[d][Of[Head(queue)][d]]
     IN  IF n # Absent /\ n >= Limit[d]
         THEN GiveUp(k)
         ELSE /\ IF d = "type"
                 THEN Move(k, "dequeue", "namespace")
                 ELSE pc' = [pc EXCEPT ![k] = [at |-> "admitting", d |-> "none"],
                                       ![Head(queue)] = [at |-> "commit", d |-> "global"]]
              /\ UNCHANGED <<lock, queue>>
  /\ UNCHANGED <<policy, global_active, active>>

-----------------------------------------------------------------------------
\* What a thread inside a call does next.
Continue(k) ==
  \/ \E d \in Dims : CheckLimit(k, d)
  \/ \E d \in Dims \cup {"none"} : HandleOverflow(k, d)
  \/ CommitGlobal(k)
  \/ \E d \in Dims : CommitDim(k, d)
  \/ \E d \in Dims : ReleaseDim(k, d)
  \/ Dequeue(k)
  \/ \E d \in Dims : DequeueCheck(k, d)

Next == \E k \in Keys : Acquire(k) \/ Continue(k) \/ Release(k)

Spec == Init /\ [][Next]_vars

\* Of the threads inside a call that are not blocked, some thread runs;
\* nothing is assumed of the callers.
FairSpec == Spec /\ WF_vars(\E k \in Keys : Continue(k))

-----------------------------------------------------------------------------
Stages ==
  {[at |-> a, d |-> "none"] : a \in {"new", "held", "queued", "rejected", "done", "admitting"}}
  \cup {[at |-> "overflow", d |-> d] : d \in Dims \cup {"none"}}
  \cup {[at |-> a, d |-> d] : a \in {"check", "release"}, d \in Dims}
  \cup {[at |-> a, d |-> d] : a \in {"commit", "dequeue"}, d \in Dims \cup {"global"}}

\* Type correctness.
TypeOK ==
  /\ policy \in Policies
  /\ global_active \in 0 .. Word - 1
  /\ active \in [Dims -> [Ids -> Nat \cup {Absent}]]
  /\ queue \in Seq(Keys) /\ Len(queue) <= QueueDepth
  /\ lock \in [Locks -> Keys \cup {NoOne}]
  /\ pc \in [Keys -> Stages]

\* The keys that the global count, and the count of id i, stand for.
InGlobal == {k \in Keys : pc[k].at = "held" \/ (pc[k].at = "commit" /\ pc[k].d # "global")}
InDim(d, i) ==
  {k \in Keys :
     /\ Of[k][d] = i
     /\ \/ pc[k].at = "held"
        \/ At(k, "release", "type")
        \/ d = "type" /\ At(k, "commit", "namespace")
        \/ d = "namespace" /\ At(k, "release", "namespace")}

\* As long as every slot is released once, at every moment of every
\* interleaving the global count is the number of slots committed and not
\* released: it never wraps.  A type or namespace count is exact unless
\* requests may queue: one that was queued before its type had an entry is
\* admitted uncounted, and then the count is too low, never too high.
CountersAgree ==
  /\ global_active = Cardinality(InGlobal)
  /\ \A d \in Dims : \A i \in Ids :
       /\ Count(d, i) <= Cardinality(InDim(d, i))
       /\ policy # "queue" => Count(d, i) = Cardinality(InDim(d, i))

\* "Global maximum concurrent workflows": the check and the increment are
\* not one step, so calls that overlap may all pass the check; the maximum
\* is passed by less than the number of threads.
GlobalOvershoot == Cardinality(InGlobal) <= MaxGlobal + MaxCalls - 1

\* "Maximum concurrent workflows per type": the same for the counts by type
\* and by namespace.
LimitOvershoot ==
  \A d \in Dims : \A i \in Ids : Count(d, i) <= Limit[d] + MaxCalls - 1

\* The queue holds exactly the requests told they are queued, once each, and
\* at most one of them is being admitted: the head, by the call that holds
\* the queue.
QueueIsWaiting ==
  /\ \A i, j \in DOMAIN queue : queue[i] = queue[j] => i = j
  /\ \A k \in Keys :
       At(k, "queued", "none") => \E i \in DOMAIN queue : queue[i] = k
  /\ \A i \in DOMAIN queue :
       \/ At(queue[i], "queued", "none")
       \/ i = 1 /\ pc[queue[1]].at = "commit" /\ lock["queue"] # NoOne

\* acquire takes the lock of a dimension and then the queue's, try_dequeue the
\* queue's and then that of a dimension: two calls wait on each other for ever.
LockCycle ==
  \E k, j \in Keys, d \in Dims :
    /\ At(k, "overflow", d) /\ policy = "queue"
    /\ lock["queue"] = j
    /\ At(j, "dequeue", d) \/ (At(j, "admitting", "none") /\ At(Head(queue), "commit", d))

\* Every call returns, unless two calls have come into that cycle, which takes
\* the queue policy: nothing else blocks, whatever the calls overlap with.
\* (Each key is acquired and released once, so the calls come to an end.)
CallsReturn == []<>(Busy = {} \/ LockCycle)
=============================================================================
