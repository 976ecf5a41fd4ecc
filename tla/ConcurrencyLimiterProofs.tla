---------------------- MODULE ConcurrencyLimiterProofs ----------------------
(***************************************************************************)
(* Proofs about the concurrency limiter, for any set of keys, any limits   *)
(* and any number of threads. Type correctness comes first. Every action   *)
(* is then shown to be a move of one key or of two (Effect), and the rest  *)
(* of the inductive invariant (LimiterInv) is shown move by move: the      *)
(* queue's lock says which call is admitting the head; the counts stand    *)
(* for the keys that hold a slot; and a call that has passed a check and   *)
(* has yet to count itself holds a reservation (Passed, PassedDim), so     *)
(* that the slots counted and reserved together stay below the maximum     *)
(* plus the threads.                                                       *)
(***************************************************************************)
EXTENDS ConcurrencyLimiter, TLAPS

-----------------------------------------------------------------------------
(* Who may be where in the queue *)

\* Who holds the queue's lock, and what is in the queue meanwhile.
HolderInv ==
  /\ \A k \in Keys :
       pc[k].at = "admitting" \/ (pc[k].at = "dequeue" /\ pc[k].d # "global")
         => lock["queue"] = k
  /\ lock["queue"] # NoOne =>
       /\ queue # <<>>
       /\ \/ pc[lock["queue"]].at = "admitting"
          \/ pc[lock["queue"]].at = "dequeue" /\ pc[lock["queue"]].d # "global"

\* The head of the queue is being given its slots.
Admitting == lock["queue"] # NoOne /\ pc[lock["queue"]].at = "admitting"

\* The queue holds the requests that wait, once each, and before them the one
\* that is being admitted.
QueueInv ==
  /\ \A i, j \in DOMAIN queue : queue[i] = queue[j] => i = j
  /\ \A k \in Keys : pc[k].at = "queued" => \E i \in DOMAIN queue : queue[i] = k
  /\ \A i \in DOMAIN queue :
       IF i = 1 /\ Admitting THEN pc[queue[i]].at = "commit"
                             ELSE pc[queue[i]].at = "queued"
  /\ policy # "queue" => queue = <<>>

-----------------------------------------------------------------------------
(* Stages *)

OutsideAts == {"new", "held", "queued", "rejected", "done", "admitting"}

S(a, e) == [at |-> a, d |-> e]

\* The stages, one by one.
LEMMA StageMembers ==
  /\ \A a \in OutsideAts : S(a, "none") \in Stages
  /\ \A e \in Dims \cup {"none"} : S("overflow", e) \in Stages
  /\ \A e \in Dims : S("check", e) \in Stages /\ S("release", e) \in Stages
  /\ \A e \in Dims \cup {"global"} : S("commit", e) \in Stages /\ S("dequeue", e) \in Stages
BY DEF Stages, OutsideAts, S, Dims

\* What the second field of a stage may be.
LEMMA StageFields ==
  ASSUME NEW s \in Stages
  PROVE  /\ s = S(s.at, s.d)
         /\ s.at \in OutsideAts => s.d = "none"
         /\ s.at = "commit" => s.d \in Dims \cup {"global"}
BY DEF Stages, OutsideAts, S, Dims

-----------------------------------------------------------------------------
(* Type correctness *)

\* The limiter starts in its type.
LEMMA InitTypes == Init => TypeOK
<1> SUFFICES ASSUME Init PROVE TypeOK BY Zenon
<1>1. pc \in [Keys -> Stages] BY Zenon, StageMembers DEF Init, S, OutsideAts
<1>2. queue \in Seq(Keys) /\ Len(queue) <= QueueDepth BY LimiterAssumption DEF Init
<1>3. lock \in [Locks -> Keys \cup {NoOne}] BY Zenon DEF Init
<1>4. active \in [Dims -> [Ids -> Nat \cup {Absent}]] BY Zenon DEF Init
<1>5. global_active \in 0 .. Word - 1 BY LimiterAssumption DEF Init
<1> QED BY Zenon, <1>1, <1>2, <1>3, <1>4, <1>5 DEF TypeOK, Init

\* The types of the variables, and what they say of keys and entries.
LEMMA Types ==
  ASSUME TypeOK
  PROVE  /\ \A k \in Keys : pc[k] \in Stages
         /\ \A d \in Dims : \A k \in Keys : Of[k][d] \in Ids
         /\ \A d \in Dims : \A i \in Ids : active[d][i] \in Nat \cup {Absent} /\ Count(d, i) \in Nat
         /\ lock["queue"] # NoOne => lock["queue"] \in Keys
         /\ queue # <<>> => Head(queue) \in Keys /\ Head(queue) = queue[1]
         /\ \A i \in DOMAIN queue : queue[i] \in Keys
         /\ global_active \in Nat
<1>1. \A k \in Keys : pc[k] \in Stages BY Zenon DEF TypeOK
<1>2. \A d \in Dims : \A k \in Keys : Of[k][d] \in Ids BY DEF Ids
<1>3. \A d \in Dims : \A i \in Ids : active[d][i] \in Nat \cup {Absent} BY Zenon DEF TypeOK
<1>4. \A d \in Dims : \A i \in Ids : Count(d, i) \in Nat BY Zenon, <1>3 DEF Count, Absent
<1>5. lock["queue"] # NoOne => lock["queue"] \in Keys BY Zenon DEF TypeOK, Locks
<1>6. queue # <<>> => Head(queue) \in Keys /\ Head(queue) = queue[1] BY DEF TypeOK
<1>7. \A i \in DOMAIN queue : queue[i] \in Keys BY DEF TypeOK
<1>8. global_active \in Nat BY LimiterAssumption DEF TypeOK
<1> QED BY Zenon, <1>1, <1>2, <1>3, <1>4, <1>5, <1>6, <1>7, <1>8

\* Every step keeps the types.
LEMMA TypeStep ==
  ASSUME TypeOK, HolderInv, [Next]_vars
  PROVE  TypeOK'
\* The queue without its head.
<1>Tails.
  ASSUME NEW q \in Seq(Keys), Len(q) <= QueueDepth, q # <<>>
  PROVE  Tail(q) \in Seq(Keys) /\ Len(Tail(q)) <= QueueDepth
  <2> USE <1>Tails
  <2>1. Len(q) \in Nat \ {0} /\ Tail(q) \in Seq(Keys) /\ Len(Tail(q)) = Len(q) - 1 OBVIOUS
  <2> QED BY <2>1, LimiterAssumption
\* Moving one key keeps the type of pc.
<1>MoveType.
  ASSUME TypeOK, NEW k \in Keys, NEW r \in Stages, pc' = [pc EXCEPT ![k] = r]
  PROVE  pc' \in [Keys -> Stages]
  BY Zenon, <1>MoveType DEF TypeOK
\* Setting one entry keeps the type of the entries.
<1>EntryType.
  ASSUME TypeOK, NEW d \in Dims, NEW i \in Ids, NEW n \in Nat \cup {Absent},
         active' = [active EXCEPT ![d][i] = n]
  PROVE  active' \in [Dims -> [Ids -> Nat \cup {Absent}]]
  BY Zenon, <1>EntryType DEF TypeOK
<1> USE Types
<1>0. CASE UNCHANGED vars BY Zenon, <1>0 DEF vars, TypeOK
<1>1. ASSUME NEW k \in Keys, Acquire(k) PROVE TypeOK'
  <2>1. PICK r \in Stages : pc' = [pc EXCEPT ![k] = r]
    BY Zenon, <1>1, StageMembers DEF Acquire, Move, S, Dims
  <2> QED BY Zenon, <1>1, <2>1, <1>MoveType DEF Acquire, TypeOK
<1>2. ASSUME NEW k \in Keys, NEW d \in Dims, CheckLimit(k, d) PROVE TypeOK'
  <2>1. PICK r \in Stages : pc' = [pc EXCEPT ![k] = r]
    BY Zenon, <1>2, StageMembers DEF CheckLimit, Move, S, Dims
  <2>2. active' \in [Dims -> [Ids -> Nat \cup {Absent}]]
    BY Zenon, <1>2, <1>EntryType DEF CheckLimit
  <2>3. lock' \in [Locks -> Keys \cup {NoOne}] BY Zenon, <1>2 DEF CheckLimit, TypeOK, Locks
  <2> QED BY Zenon, <1>2, <2>1, <2>2, <2>3, <1>MoveType DEF CheckLimit, TypeOK
<1>3. ASSUME NEW k \in Keys, NEW d \in Dims \cup {"none"}, HandleOverflow(k, d) PROVE TypeOK'
  <2>1. PICK r \in Stages : pc' = [pc EXCEPT ![k] = r]
    BY Zenon, <1>3, StageMembers DEF HandleOverflow, OverflowQueued, OverflowRejected, Move, S, OutsideAts
  <2>2. lock' \in [Locks -> Keys \cup {NoOne}]
    BY Zenon, <1>3 DEF HandleOverflow, Unlocked, TypeOK, Locks
  <2>3. queue' \in Seq(Keys) /\ Len(queue') <= QueueDepth
    <3>1. CASE OverflowQueued(k, d)
      <4>1. queue \in Seq(Keys) /\ Len(queue) < QueueDepth /\ queue' = Append(queue, k)
        BY Zenon, <3>1 DEF OverflowQueued, TypeOK
      <4> QED BY <4>1, LimiterAssumption
    <3>2. CASE OverflowRejected(k, d) BY Zenon, <3>2 DEF OverflowRejected, TypeOK
    <3> QED BY Zenon, <1>3, <3>1, <3>2 DEF HandleOverflow
  <2> QED BY Zenon, <1>3, <2>1, <2>2, <2>3, <1>MoveType DEF HandleOverflow, TypeOK
<1>4. ASSUME NEW k \in Keys, CommitGlobal(k) PROVE TypeOK'
  <2>1. PICK r \in Stages : pc' = [pc EXCEPT ![k] = r]
    BY Zenon, <1>4, StageMembers DEF CommitGlobal, Move, S, Dims
  <2>2. global_active' \in 0 .. Word - 1
    <3>1. Word \in Nat /\ Word > 0
      BY LimiterAssumption
    <3> QED BY <1>4, <3>1 DEF CommitGlobal
  <2> QED BY Zenon, <1>4, <2>1, <2>2, <1>MoveType DEF CommitGlobal, TypeOK
<1>5. ASSUME NEW k \in Keys, NEW d \in Dims, CommitDim(k, d) PROVE TypeOK'
  <2>1. active' \in [Dims -> [Ids -> Nat \cup {Absent}]]
    <3>1. Incremented(active[d][Of[k][d]]) \in Nat \cup {Absent} BY DEF Incremented, Absent
    <3>2. active' = [active EXCEPT ![d][Of[k][d]] = Incremented(active[d][Of[k][d]])]
      BY Zenon, <1>5 DEF CommitDim, TypeOK
    <3>3. Of[k][d] \in Ids BY Zenon
    <3> QED BY Zenon, <3>1, <3>2, <3>3 DEF TypeOK
  <2>2. pc' \in [Keys -> Stages]
    <3>1. S("commit", "namespace") \in Stages /\ S("held", "none") \in Stages /\ S("done", "none") \in Stages
      BY Zenon, StageMembers DEF Dims, OutsideAts
    <3>2. \/ pc' = [pc EXCEPT ![k] = S("commit", "namespace")]
          \/ pc' = [pc EXCEPT ![k] = S("held", "none")]
          \/ /\ lock["queue"] # NoOne
             /\ pc' = [pc EXCEPT ![k] = S("held", "none"), ![lock["queue"]] = S("done", "none")]
      BY Zenon, <1>5 DEF CommitDim, Move, S
    <3> QED BY Zenon, <3>1, <3>2 DEF TypeOK
  <2>3. lock' \in [Locks -> Keys \cup {NoOne}]
    BY <1>5 DEF CommitDim, Unlocked, TypeOK, Locks
  <2>4. queue' \in Seq(Keys) /\ Len(queue') <= QueueDepth
    <3>1. queue' = queue \/ (queue # <<>> /\ queue' = Tail(queue)) BY Zenon, <1>5 DEF CommitDim
    <3>2. queue \in Seq(Keys) /\ Len(queue) <= QueueDepth BY Zenon DEF TypeOK
    <3> QED BY Zenon, <3>1, <3>2, <1>Tails
  <2>5. policy' = policy /\ global_active' = global_active BY Zenon, <1>5 DEF CommitDim
  <2> QED BY Zenon, <2>1, <2>2, <2>3, <2>4, <2>5 DEF TypeOK
<1>6. ASSUME NEW k \in Keys, Release(k) PROVE TypeOK'
  <2>1. PICK r \in Stages : pc' = [pc EXCEPT ![k] = r]
    BY Zenon, <1>6, StageMembers DEF Release, Move, S, Dims
  <2>2. global_active' \in 0 .. Word - 1
    <3>1. Word \in Nat /\ Word > 0
      BY LimiterAssumption
    <3> QED BY <1>6, <3>1 DEF Release, ReleasedGlobal
  <2> QED BY Zenon, <1>6, <2>1, <2>2, <1>MoveType DEF Release, TypeOK
<1>7. ASSUME NEW k \in Keys, NEW d \in Dims, ReleaseDim(k, d) PROVE TypeOK'
  <2>1. PICK r \in Stages : pc' = [pc EXCEPT ![k] = r]
    BY Zenon, <1>7, StageMembers DEF ReleaseDim, Move, S, Dims
  <2>2. active' \in [Dims -> [Ids -> Nat \cup {Absent}]]
    <3>1. Decremented(active[d][Of[k][d]]) \in Nat \cup {Absent} BY DEF Decremented, Absent
    <3>2. active' = [active EXCEPT ![d][Of[k][d]] = Decremented(active[d][Of[k][d]])]
      BY Zenon, <1>7 DEF ReleaseDim, TypeOK
    <3>3. Of[k][d] \in Ids BY Zenon
    <3> QED BY Zenon, <3>1, <3>2, <3>3 DEF TypeOK
  <2> QED BY Zenon, <1>7, <2>1, <2>2, <1>MoveType DEF ReleaseDim, TypeOK
<1>8. ASSUME NEW k \in Keys, Dequeue(k) PROVE TypeOK'
  <2>1. PICK r \in Stages : pc' = [pc EXCEPT ![k] = r]
    BY Zenon, <1>8, StageMembers DEF Dequeue, GiveUp, Move, S, Dims, OutsideAts
  <2>2. lock' \in [Locks -> Keys \cup {NoOne}]
    BY Zenon, <1>8 DEF Dequeue, GiveUp, Unlocked, TypeOK, Locks
  <2>3. queue' = queue BY Zenon, <1>8 DEF Dequeue, GiveUp, HeadPutBack
  <2> QED BY Zenon, <1>8, <2>1, <2>2, <2>3, <1>MoveType DEF Dequeue, TypeOK
<1>9. ASSUME NEW k \in Keys, NEW d \in Dims, DequeueCheck(k, d) PROVE TypeOK'
  <2>1. pc' \in [Keys -> Stages]
    <3>1. Head(queue) \in Keys
      <4>1. pc[k].at = "dequeue" /\ pc[k].d # "global" BY SMTT(30), <1>9 DEF DequeueCheck, At, Dims
      <4>2. lock["queue"] = k BY Zenon, <4>1 DEF HolderInv
      <4> QED BY Zenon, <4>2, LimiterAssumption DEF HolderInv
    <3>2. /\ S("dequeue", "namespace") \in Stages /\ S("done", "none") \in Stages
          /\ S("admitting", "none") \in Stages /\ S("commit", "global") \in Stages
      BY Zenon, StageMembers DEF Dims, OutsideAts
    <3>3. \/ pc' = [pc EXCEPT ![k] = S("dequeue", "namespace")]
          \/ pc' = [pc EXCEPT ![k] = S("done", "none")]
          \/ pc' = [pc EXCEPT ![k] = S("admitting", "none"), ![Head(queue)] = S("commit", "global")]
      BY Zenon, <1>9 DEF DequeueCheck, GiveUp, Move, S
    <3> QED BY Zenon, <3>1, <3>2, <3>3 DEF TypeOK
  <2>2. lock' \in [Locks -> Keys \cup {NoOne}]
    BY Zenon, <1>9 DEF DequeueCheck, GiveUp, Unlocked, TypeOK, Locks
  <2>3. queue' = queue BY Zenon, <1>9 DEF DequeueCheck, GiveUp, HeadPutBack
  <2> QED BY Zenon, <1>9, <2>1, <2>2, <2>3 DEF DequeueCheck, TypeOK
<1> QED BY Zenon, <1>0, <1>1, <1>2, <1>3, <1>4, <1>5, <1>6, <1>7, <1>8, <1>9 DEF Next, Continue

-----------------------------------------------------------------------------
(* The steps, as moves of one key or of two *)

Go(k, from, to) == pc[k] = from /\ pc' = [pc EXCEPT ![k] = to]

Go2(k, from, to, j, to2) ==
  /\ pc[k] = from /\ j \in Keys \ {k}
  /\ pc' = [pc EXCEPT ![k] = to, ![j] = to2]

SameQueue == queue' = queue /\ lock'["queue"] = lock["queue"]

SameCounts == global_active' = global_active /\ active' = active

Entry(d, i, n) ==
  /\ \A e \in Dims : \A j \in Ids :
       active'[e][j] = IF e = d /\ j = i THEN n ELSE active[e][j]
  /\ global_active' = global_active

AcquireOver(k) ==
  Go(k, S("new", "none"), S("overflow", "none")) /\ ThreadFree /\ SameQueue /\ SameCounts

AcquirePass(k) ==
  /\ Go(k, S("new", "none"), S("check", "type")) /\ ThreadFree
  /\ global_active < MaxGlobal /\ SameQueue /\ SameCounts

CheckOver(k, d) ==
  /\ Go(k, S("check", d), S("overflow", d)) /\ SameQueue
  /\ Entry(d, Of[k][d], Count(d, Of[k][d]))

CheckPass(k, d) ==
  /\ Go(k, S("check", d), IF d = "type" THEN S("check", "namespace") ELSE S("commit", "global"))
  /\ Count(d, Of[k][d]) < Limit[d] /\ SameQueue
  /\ Entry(d, Of[k][d], Count(d, Of[k][d]))

OverQueued(k, d) ==
  /\ Go(k, S("overflow", d), S("queued", "none")) /\ policy = "queue"
  /\ lock["queue"] = NoOne /\ lock'["queue"] = NoOne
  /\ queue' = Append(queue, k) /\ SameCounts

OverRejected(k, d) ==
  Go(k, S("overflow", d), S("rejected", "none")) /\ SameQueue /\ SameCounts

CommitOne(k) ==
  /\ Go(k, S("commit", "global"), S("commit", "type")) /\ SameQueue
  /\ global_active' = (global_active + 1) % Word /\ active' = active

CommitType(k) ==
  /\ Go(k, S("commit", "type"), S("commit", "namespace")) /\ SameQueue
  /\ Entry("type", Of[k]["type"], Incremented(active["type"][Of[k]["type"]]))

CommitOwn(k) ==
  /\ Go(k, S("commit", "namespace"), S("held", "none")) /\ SameQueue
  /\ ~(queue # <<>> /\ queue[1] = k /\ lock["queue"] # NoOne)
  /\ Entry("namespace", Of[k]["namespace"], Incremented(active["namespace"][Of[k]["namespace"]]))

CommitHead(k) ==
  /\ Go2(k, S("commit", "namespace"), S("held", "none"), lock["queue"], S("done", "none"))
  /\ pc[lock["queue"]].at = "admitting"
  /\ queue # <<>> /\ queue[1] = k /\ queue' = Tail(queue) /\ lock'["queue"] = NoOne
  /\ Entry("namespace", Of[k]["namespace"], Incremented(active["namespace"][Of[k]["namespace"]]))

ReleaseOne(k) ==
  /\ Go(k, S("held", "none"), S("release", "type")) /\ ThreadFree /\ SameQueue
  /\ global_active' = (global_active - 1) % Word /\ active' = active

ReleaseIn(k, d) ==
  /\ Go(k, S("release", d), IF d = "type" THEN S("release", "namespace") ELSE S("dequeue", "global"))
  /\ SameQueue
  /\ Entry(d, Of[k][d], Decremented(active[d][Of[k][d]]))

DequeueEnd(k, e) ==
  /\ Go(k, S("dequeue", e), S("done", "none")) /\ queue' = queue
  /\ lock["queue"] = (IF e = "global" THEN NoOne ELSE k) /\ lock'["queue"] = NoOne
  /\ SameCounts

DequeuePass(k) ==
  /\ Go(k, S("dequeue", "global"), S("dequeue", "type")) /\ queue # <<>> /\ queue' = queue
  /\ lock["queue"] = NoOne /\ lock'["queue"] = k
  /\ global_active < MaxGlobal /\ SameCounts

DequeueType(k) ==
  /\ Go(k, S("dequeue", "type"), S("dequeue", "namespace")) /\ SameQueue /\ SameCounts
  /\ Count("type", Of[Head(queue)]["type"]) < Limit["type"] \/ active["type"][Of[Head(queue)]["type"]] = Absent

DequeueAdmit(k) ==
  /\ Go2(k, S("dequeue", "namespace"), S("admitting", "none"), Head(queue), S("commit", "global"))
  /\ lock["queue"] = k /\ queue # <<>> /\ pc[Head(queue)].at = "queued" /\ SameQueue /\ SameCounts
  /\ \/ Count("namespace", Of[Head(queue)]["namespace"]) < Limit["namespace"]
     \/ active["namespace"][Of[Head(queue)]["namespace"]] = Absent

Effect(k) ==
  \/ AcquireOver(k) \/ AcquirePass(k)
  \/ \E d \in Dims : CheckOver(k, d) \/ CheckPass(k, d) \/ ReleaseIn(k, d)
  \/ \E d \in Dims \cup {"none"} : OverQueued(k, d) \/ OverRejected(k, d)
  \/ CommitOne(k) \/ CommitType(k) \/ CommitOwn(k) \/ CommitHead(k)
  \/ ReleaseOne(k)
  \/ \E e \in Dims \cup {"global"} : DequeueEnd(k, e)
  \/ DequeuePass(k) \/ DequeueType(k) \/ DequeueAdmit(k)

\* Every step is one of these moves.
LEMMA Effects ==
  ASSUME TypeOK, HolderInv, QueueInv, Next
  PROVE  (\E k \in Keys : Effect(k)) /\ policy' = policy
\* Changing the entry of a key.
<1>EntryChange.
  ASSUME TypeOK, NEW k \in Keys, NEW d \in Dims, NEW n,
         active' = [active EXCEPT ![d][Of[k][d]] = n], global_active' = global_active
  PROVE  Entry(d, Of[k][d], n)
  BY Zenon, <1>EntryChange, Types DEF TypeOK, Entry
<1> USE Types
<1>0. "queue" \in Locks /\ "queue" \notin Dims BY Zenon DEF Locks, Dims
<1>1. ASSUME NEW k \in Keys, Acquire(k)
      PROVE  (AcquireOver(k) \/ AcquirePass(k)) /\ policy' = policy
  <2>1. GlobalFull \/ global_active < MaxGlobal BY SMTT(30), LimiterAssumption DEF GlobalFull
  <2> QED BY Zenon, <1>1, <2>1
              DEF Acquire, At, Move, GlobalFull, AcquireOver, AcquirePass, Go, S, SameQueue, SameCounts
<1>2. ASSUME NEW k \in Keys, NEW d \in Dims, CheckLimit(k, d)
      PROVE  (CheckOver(k, d) \/ CheckPass(k, d)) /\ policy' = policy
  <2>1. Entry(d, Of[k][d], Count(d, Of[k][d])) BY Zenon, <1>2, <1>EntryChange DEF CheckLimit
  <2>2. policy' = policy /\ SameQueue BY Zenon, <1>0, <1>2 DEF CheckLimit, SameQueue, TypeOK
  <2>3. DimFull(d, Of[k][d]) \/ Count(d, Of[k][d]) < Limit[d] BY LimiterAssumption DEF DimFull
  <2>4. CASE DimFull(d, Of[k][d])
    <3>1. Go(k, S("check", d), S("overflow", d)) BY Zenon, <1>2, <2>4 DEF CheckLimit, At, Move, Go, S
    <3> QED BY Zenon, <2>1, <2>2, <3>1 DEF CheckOver
  <2>5. CASE ~DimFull(d, Of[k][d])
    <3>1. Go(k, S("check", d), IF d = "type" THEN S("check", "namespace") ELSE S("commit", "global"))
      BY Zenon, <1>2, <2>5 DEF CheckLimit, At, Move, Go, S
    <3> QED BY Zenon, <2>1, <2>2, <2>3, <2>5, <3>1 DEF CheckPass
  <2> QED BY Zenon, <2>4, <2>5
<1>3. ASSUME NEW k \in Keys, NEW d \in Dims \cup {"none"}, HandleOverflow(k, d)
      PROVE  (OverQueued(k, d) \/ OverRejected(k, d)) /\ policy' = policy
  <2>1. policy' = policy /\ SameCounts /\ pc[k] = S("overflow", d)
    BY Zenon, <1>3 DEF HandleOverflow, SameCounts, At, S
  <2>2. lock'["queue"] = lock["queue"] BY Zenon, <1>0, <1>3 DEF HandleOverflow, Unlocked, TypeOK
  <2>3. CASE OverflowQueued(k, d)
    <3>1. Go(k, S("overflow", d), S("queued", "none")) BY Zenon, <2>1, <2>3 DEF OverflowQueued, Move, Go, S
    <3>2. policy = "queue" /\ lock["queue"] = NoOne /\ queue' = Append(queue, k)
      BY Zenon, <2>3 DEF OverflowQueued, Free
    <3> QED BY Zenon, <2>1, <2>2, <3>1, <3>2 DEF OverQueued
  <2>4. CASE OverflowRejected(k, d)
    <3>1. Go(k, S("overflow", d), S("rejected", "none"))
      BY Zenon, <2>1, <2>4 DEF OverflowRejected, Move, Go, S
    <3> QED BY Zenon, <2>1, <2>2, <2>4, <3>1 DEF OverRejected, OverflowRejected, SameQueue
  <2> QED BY Zenon, <1>3, <2>3, <2>4 DEF HandleOverflow
<1>4. ASSUME NEW k \in Keys, CommitGlobal(k) PROVE CommitOne(k) /\ policy' = policy
  BY Zenon, <1>4 DEF CommitGlobal, At, Move, CommitOne, Go, S, SameQueue
<1>5. ASSUME NEW k \in Keys, NEW d \in Dims, CommitDim(k, d)
      PROVE  (CommitType(k) \/ CommitOwn(k) \/ CommitHead(k)) /\ policy' = policy
  <2>1. Entry(d, Of[k][d], Incremented(active[d][Of[k][d]]))
    <3>1. active' = [active EXCEPT ![d][Of[k][d]] = Incremented(active[d][Of[k][d]])]
      BY Zenon, <1>5 DEF CommitDim, TypeOK
    <3> QED BY Zenon, <1>5, <3>1, <1>EntryChange DEF CommitDim
  <2>2. policy' = policy /\ pc[k] = S("commit", d) BY Zenon, <1>5 DEF CommitDim, At, S
  <2>3. CASE d = "type"
    <3>1. SameQueue /\ Go(k, S("commit", "type"), S("commit", "namespace"))
      BY Zenon, <1>5, <2>2, <2>3 DEF CommitDim, Move, Go, S, SameQueue
    <3> QED BY Zenon, <2>1, <2>2, <2>3, <3>1 DEF CommitType
  <2>4. CASE d = "namespace" /\ ~(lock["queue"] # NoOne /\ queue # <<>> /\ Head(queue) = k)
    <3>1. SameQueue /\ Go(k, S("commit", "namespace"), S("held", "none"))
      BY Zenon, <1>5, <2>2, <2>4 DEF CommitDim, Move, Go, S, SameQueue
    <3> QED BY Zenon, <2>1, <2>2, <2>4, <3>1 DEF CommitOwn
  <2>5. CASE d = "namespace" /\ lock["queue"] # NoOne /\ queue # <<>> /\ Head(queue) = k
    <3>1. pc' = [pc EXCEPT ![k] = S("held", "none"), ![lock["queue"]] = S("done", "none")]
      BY Zenon, <1>5, <2>5 DEF CommitDim, S
    <3>2. queue' = Tail(queue) /\ lock'["queue"] = NoOne
      BY Zenon, <1>0, <1>5, <2>5 DEF CommitDim, Unlocked, TypeOK
    <3>3. queue[1] = k /\ 1 \in DOMAIN queue /\ lock["queue"] \in Keys BY <2>5 DEF TypeOK
    <3>4. pc[k].at = "commit" BY <2>2 DEF S
    <3>5. pc[lock["queue"]].at = "admitting" BY Zenon, <2>5, <3>3, <3>4 DEF QueueInv, Admitting
    <3>6. lock["queue"] # k BY Zenon, <3>4, <3>5
    <3> QED BY Zenon, <2>1, <2>2, <2>5, <3>1, <3>2, <3>3, <3>5, <3>6 DEF CommitHead, Go2
  <2> QED BY Zenon, <2>3, <2>4, <2>5 DEF Dims
<1>6. ASSUME NEW k \in Keys, Release(k) PROVE ReleaseOne(k) /\ policy' = policy
  BY Zenon, <1>6 DEF Release, ReleasedGlobal, At, Move, ReleaseOne, Go, S, SameQueue
<1>7. ASSUME NEW k \in Keys, NEW d \in Dims, ReleaseDim(k, d) PROVE ReleaseIn(k, d) /\ policy' = policy
  <2>1. Entry(d, Of[k][d], Decremented(active[d][Of[k][d]]))
    <3>1. active' = [active EXCEPT ![d][Of[k][d]] = Decremented(active[d][Of[k][d]])]
      BY Zenon, <1>7 DEF ReleaseDim, TypeOK
    <3> QED BY Zenon, <1>7, <3>1, <1>EntryChange DEF ReleaseDim
  <2>2. policy' = policy /\ SameQueue BY Zenon, <1>7 DEF ReleaseDim, SameQueue
  <2>3. Go(k, S("release", d), IF d = "type" THEN S("release", "namespace") ELSE S("dequeue", "global"))
    BY Zenon, <1>7 DEF ReleaseDim, At, Move, Go, S
  <2> QED BY Zenon, <2>1, <2>2, <2>3 DEF ReleaseIn
<1>8. ASSUME NEW k \in Keys, Dequeue(k)
      PROVE  (DequeueEnd(k, "global") \/ DequeuePass(k)) /\ policy' = policy
  <2>1. policy' = policy /\ SameCounts /\ queue' = queue /\ lock["queue"] = NoOne /\ pc[k] = S("dequeue", "global")
    BY Zenon, <1>8 DEF Dequeue, GiveUp, HeadPutBack, SameCounts, Free, At, S
  <2>2. CASE queue = <<>> \/ GlobalFull
    <3>1. pc' = [pc EXCEPT ![k] = S("done", "none")] /\ lock'["queue"] = NoOne
      BY Zenon, <1>0, <1>8, <2>2 DEF Dequeue, GiveUp, Unlocked, Move, S, TypeOK
    <3> QED BY Zenon, <2>1, <3>1 DEF DequeueEnd, Go
  <2>3. CASE ~(queue = <<>> \/ GlobalFull)
    <3>1. pc' = [pc EXCEPT ![k] = S("dequeue", "type")] /\ lock'["queue"] = k
      BY Zenon, <1>0, <1>8, <2>3 DEF Dequeue, Move, S, TypeOK
    <3>2. global_active < MaxGlobal BY SMTT(30), <2>3, LimiterAssumption DEF GlobalFull
    <3> QED BY Zenon, <2>1, <2>3, <3>1, <3>2 DEF DequeuePass, Go
  <2> QED BY Zenon, <2>2, <2>3
<1>9. ASSUME NEW k \in Keys, NEW d \in Dims, DequeueCheck(k, d)
      PROVE  (DequeueEnd(k, d) \/ DequeueType(k) \/ DequeueAdmit(k)) /\ policy' = policy
  <2>1. policy' = policy /\ SameCounts /\ queue' = queue /\ pc[k] = S("dequeue", d)
    BY Zenon, <1>9 DEF DequeueCheck, GiveUp, HeadPutBack, SameCounts, At, S
  <2>2. lock["queue"] = k BY <2>1 DEF HolderInv, S, Dims
  <2>3. queue # <<>> /\ Head(queue) \in Keys BY Zenon, <2>2, LimiterAssumption DEF HolderInv
  <2> DEFINE n == active[d][Of[Head(queue)][d]]
  <2>4. CASE n # Absent /\ n >= Limit[d]
    <3>1. pc' = [pc EXCEPT ![k] = S("done", "none")] /\ lock'["queue"] = NoOne
      BY Zenon, <1>0, <1>9, <2>4 DEF DequeueCheck, GiveUp, Unlocked, Move, S, TypeOK
    <3> QED BY Zenon, <2>1, <2>2, <3>1 DEF DequeueEnd, Go, Dims
  <2>5. CASE ~(n # Absent /\ n >= Limit[d])
    <3>1. lock' = lock BY ZenonT(40), <1>9, <2>5 DEF DequeueCheck
    <3>2. Count(d, Of[Head(queue)][d]) < Limit[d] \/ n = Absent
      <4>1. n \in Nat \cup {Absent} /\ Limit[d] \in Nat BY Zenon, <2>3, LimiterAssumption
      <4> QED BY SMTT(30), <2>5, <4>1 DEF Count
    <3>3. CASE d = "type"
      <4>1. pc' = [pc EXCEPT ![k] = S("dequeue", "namespace")]
        BY Zenon, <1>9, <2>5, <3>3 DEF DequeueCheck, Move, S
      <4> QED BY Zenon, <2>1, <3>1, <3>2, <3>3, <4>1 DEF DequeueType, Go, SameQueue
    <3>4. CASE d = "namespace"
      <4>1. pc' = [pc EXCEPT ![k] = S("admitting", "none"), ![Head(queue)] = S("commit", "global")]
        BY Zenon, <1>9, <2>5, <3>4 DEF DequeueCheck, S
      <4>2. 1 \in DOMAIN queue /\ Head(queue) = queue[1] BY <2>3 DEF TypeOK
      <4>3. ~Admitting BY SMTT(30), <2>1, <2>2 DEF Admitting, S
      <4>4. pc[Head(queue)].at = "queued" BY <4>2, <4>3 DEF QueueInv
      <4>5. Head(queue) # k BY <2>1, <4>4 DEF S
      <4> QED BY Zenon, <2>1, <2>2, <2>3, <3>1, <3>2, <3>4, <4>1, <4>4, <4>5
                  DEF DequeueAdmit, Go2, SameQueue
    <3> QED BY Zenon, <3>3, <3>4 DEF Dims
  <2> QED BY Zenon, <2>4, <2>5
<1> QED BY Zenon, <1>1, <1>2, <1>3, <1>4, <1>5, <1>6, <1>7, <1>8, <1>9 DEF Next, Continue, Effect

-----------------------------------------------------------------------------
(* The holder of the queue's lock, and the queue *)

\* After a move of one key.
LEMMA Moved ==
  ASSUME TypeOK, NEW k \in Keys, NEW from, NEW to, Go(k, from, to)
  PROVE  pc[k] = from /\ pc'[k] = to /\ \A x \in Keys \ {k} : pc'[x] = pc[x]
BY Zenon DEF TypeOK, Go

\* The same for two.
LEMMA Moved2 ==
  ASSUME TypeOK, NEW k \in Keys, NEW from, NEW to, NEW j, NEW to2, Go2(k, from, to, j, to2)
  PROVE  /\ pc[k] = from /\ j \in Keys \ {k} /\ pc'[k] = to /\ pc'[j] = to2
         /\ \A x \in Keys \ {k, j} : pc'[x] = pc[x]
BY Zenon DEF TypeOK, Go2

\* Every step keeps both.
LEMMA QueueStep ==
  ASSUME TypeOK, HolderInv, QueueInv, NEW k \in Keys, Effect(k), policy' = policy
  PROVE  HolderInv' /\ QueueInv'
<1> DEFINE Holding(s) == s.at = "admitting" \/ (s.at = "dequeue" /\ s.d # "global")
           Quiet(from, to) == /\ Holding(from) <=> Holding(to)
                              /\ from.at # "queued" /\ to.at # "queued"
                              /\ from.at = "admitting" <=> to.at = "admitting"
           Keeps(from, to) == from.at = "commit" => to.at = "commit"
<1> HIDE DEF Holding, Quiet, Keeps
\* A move that neither begins nor ends the holding of the queue.
<1>QuietHolder.
  ASSUME NEW from, NEW to, Go(k, from, to), SameQueue,
         Quiet(from, to)
  PROVE  HolderInv'
  <2> USE <1>QuietHolder
  <2>1. pc[k] = from /\ pc'[k] = to /\ \A x \in Keys \ {k} : pc'[x] = pc[x] BY Zenon, Moved
  <2>2. \A x \in Keys : Holding(pc'[x]) <=> Holding(pc[x]) BY Zenon, <2>1 DEF Quiet
  <2>3. queue' = queue /\ lock'["queue"] = lock["queue"] BY Zenon DEF SameQueue
  <2>4. lock["queue"] # NoOne => lock["queue"] \in Keys BY Zenon, Types
  <2> QED BY Zenon, <2>2, <2>3, <2>4 DEF HolderInv, Holding
\* A move of a key that is not in the queue, or stays where it is there.
<1>QuietQueue.
  ASSUME NEW from, NEW to, Go(k, from, to), SameQueue, Quiet(from, to),
         Keeps(from, to) \/ ~(queue # <<>> /\ queue[1] = k /\ lock["queue"] # NoOne)
  PROVE  QueueInv'
  <2> USE <1>QuietQueue DEF Quiet, Keeps
  <2>1. pc[k] = from /\ pc'[k] = to /\ \A x \in Keys \ {k} : pc'[x] = pc[x] BY Zenon, Moved
  <2>2. queue' = queue /\ lock'["queue"] = lock["queue"] BY Zenon DEF SameQueue
  <2>3. lock["queue"] # NoOne => lock["queue"] \in Keys BY Zenon, Types
  <2>4. Admitting' <=> Admitting BY Zenon, <2>1, <2>2, <2>3 DEF Admitting
  <2>5. ASSUME NEW x \in Keys, pc'[x].at = "queued" PROVE \E i \in DOMAIN queue : queue[i] = x
    BY Zenon, <2>1, <2>5 DEF QueueInv
  <2>6. ASSUME NEW i \in DOMAIN queue
        PROVE  IF i = 1 /\ Admitting THEN pc'[queue[i]].at = "commit" ELSE pc'[queue[i]].at = "queued"
    <3>1. queue[i] \in Keys /\ queue # <<>> BY SMTT(30), Types
    <3>2. CASE queue[i] # k BY Zenon, <2>1, <3>1, <3>2 DEF QueueInv
    <3>3. CASE queue[i] = k
      <4>1. i = 1 /\ Admitting /\ from.at = "commit" BY Zenon, <2>1, <3>3 DEF QueueInv
      <4>2. to.at = "commit" BY Zenon, <3>1, <3>3, <4>1 DEF Admitting
      <4> QED BY Zenon, <2>1, <3>3, <4>1, <4>2
    <3> QED BY Zenon, <3>2, <3>3
  <2>7. QueueInv!1' /\ QueueInv!4' BY Zenon, <2>2 DEF QueueInv
  <2> QED BY Zenon, <2>2, <2>4, <2>5, <2>6, <2>7 DEF QueueInv
<1>s. /\ \A d : Quiet(S("check", d), S("overflow", d))
      /\ \A d : Quiet(S("overflow", d), S("rejected", "none"))
      /\ Quiet(S("new", "none"), S("overflow", "none"))
      /\ Quiet(S("new", "none"), S("check", "type"))
      /\ Quiet(S("check", "type"), S("check", "namespace"))
      /\ Quiet(S("check", "namespace"), S("commit", "global"))
      /\ Quiet(S("release", "type"), S("release", "namespace"))
      /\ Quiet(S("release", "namespace"), S("dequeue", "global"))
      /\ Quiet(S("commit", "global"), S("commit", "type"))
      /\ Quiet(S("commit", "type"), S("commit", "namespace"))
      /\ Quiet(S("held", "none"), S("release", "type"))
      /\ Quiet(S("dequeue", "type"), S("dequeue", "namespace"))
      /\ Quiet(S("commit", "namespace"), S("held", "none"))
  BY DEF S, Holding, Quiet
<1>c. /\ \A d : Keeps(S("check", d), S("overflow", d))
      /\ \A d : Keeps(S("overflow", d), S("rejected", "none"))
      /\ Keeps(S("new", "none"), S("overflow", "none"))
      /\ Keeps(S("new", "none"), S("check", "type"))
      /\ Keeps(S("check", "type"), S("check", "namespace"))
      /\ Keeps(S("check", "namespace"), S("commit", "global"))
      /\ Keeps(S("release", "type"), S("release", "namespace"))
      /\ Keeps(S("release", "namespace"), S("dequeue", "global"))
      /\ Keeps(S("commit", "global"), S("commit", "type"))
      /\ Keeps(S("commit", "type"), S("commit", "namespace"))
      /\ Keeps(S("held", "none"), S("release", "type"))
      /\ Keeps(S("dequeue", "type"), S("dequeue", "namespace"))
  BY DEF S, Keeps
<1>1. CASE AcquireOver(k) BY Zenon, <1>1, <1>s, <1>c, <1>QuietHolder, <1>QuietQueue DEF AcquireOver
<1>2. CASE AcquirePass(k) BY Zenon, <1>2, <1>s, <1>c, <1>QuietHolder, <1>QuietQueue DEF AcquirePass
<1>3. ASSUME NEW d \in Dims, CheckOver(k, d) PROVE HolderInv' /\ QueueInv'
  BY Zenon, <1>3, <1>s, <1>c, <1>QuietHolder, <1>QuietQueue DEF CheckOver
<1>4. ASSUME NEW d \in Dims, CheckPass(k, d) PROVE HolderInv' /\ QueueInv'
  <2>1. CASE d = "type" BY Zenon, <1>4, <2>1, <1>s, <1>c, <1>QuietHolder, <1>QuietQueue DEF CheckPass
  <2>2. CASE d = "namespace" BY Zenon, <1>4, <2>2, <1>s, <1>c, <1>QuietHolder, <1>QuietQueue DEF CheckPass
  <2> QED BY Zenon, <2>1, <2>2 DEF Dims
<1>5. ASSUME NEW d \in Dims, ReleaseIn(k, d) PROVE HolderInv' /\ QueueInv'
  <2>1. CASE d = "type" BY Zenon, <1>5, <2>1, <1>s, <1>c, <1>QuietHolder, <1>QuietQueue DEF ReleaseIn
  <2>2. CASE d = "namespace" BY Zenon, <1>5, <2>2, <1>s, <1>c, <1>QuietHolder, <1>QuietQueue DEF ReleaseIn
  <2> QED BY Zenon, <2>1, <2>2 DEF Dims
<1>6. ASSUME NEW d, OverRejected(k, d) PROVE HolderInv' /\ QueueInv'
  BY Zenon, <1>6, <1>s, <1>c, <1>QuietHolder, <1>QuietQueue DEF OverRejected
<1>7. CASE CommitOne(k) BY Zenon, <1>7, <1>s, <1>c, <1>QuietHolder, <1>QuietQueue DEF CommitOne
<1>8. CASE CommitType(k) BY Zenon, <1>8, <1>s, <1>c, <1>QuietHolder, <1>QuietQueue DEF CommitType
<1>9. CASE CommitOwn(k) BY Zenon, <1>9, <1>s, <1>c, <1>QuietHolder, <1>QuietQueue DEF CommitOwn
<1>10. CASE ReleaseOne(k) BY Zenon, <1>10, <1>s, <1>c, <1>QuietHolder, <1>QuietQueue DEF ReleaseOne
<1>11. CASE DequeueType(k) BY Zenon, <1>11, <1>s, <1>c, <1>QuietHolder, <1>QuietQueue DEF DequeueType
<1> USE DEF S
<1>12. ASSUME NEW d, OverQueued(k, d) PROVE HolderInv' /\ QueueInv'
  <2>1. /\ pc[k] = S("overflow", d) /\ pc'[k] = S("queued", "none")
        /\ \A x \in Keys \ {k} : pc'[x] = pc[x]
    BY Zenon, <1>12, Moved DEF OverQueued
  <2>2. /\ lock["queue"] = NoOne /\ lock'["queue"] = NoOne
        /\ queue' = Append(queue, k) /\ policy = "queue"
    BY Zenon, <1>12 DEF OverQueued
  <2>3. HolderInv' BY <2>1, <2>2 DEF HolderInv
  <2>4. ~Admitting /\ ~Admitting' BY Zenon, <2>2 DEF Admitting
  <2>5. /\ Len(queue) \in Nat /\ DOMAIN queue = 1 .. Len(queue)
        /\ DOMAIN queue' = 1 .. Len(queue) + 1 /\ queue'[Len(queue) + 1] = k
        /\ \A i \in DOMAIN queue : queue'[i] = queue[i]
    BY SMTT(30), <2>2 DEF TypeOK
  <2>6. \A i \in DOMAIN queue : queue[i] # k /\ queue[i] \in Keys /\ pc[queue[i]].at = "queued"
    BY <2>1, <2>4, Types DEF QueueInv
  <2>7. \A i \in DOMAIN queue' : i \in DOMAIN queue \/ i = Len(queue) + 1 BY SMTT(30), <2>5
  <2>8. \A i, j \in DOMAIN queue' : queue'[i] = queue'[j] => i = j
    BY SMTT(30), <2>5, <2>6, <2>7 DEF QueueInv
  <2>9. \A i \in DOMAIN queue' : pc'[queue'[i]].at = "queued" BY SMTT(30), <2>1, <2>5, <2>6, <2>7
  <2>10. \A x \in Keys : pc'[x].at = "queued" => \E i \in DOMAIN queue' : queue'[i] = x
    BY SMTT(30), <2>1, <2>5 DEF QueueInv
  <2> QED BY Zenon, <2>2, <2>3, <2>4, <2>8, <2>9, <2>10 DEF QueueInv
<1>13. CASE CommitHead(k)
  <2> DEFINE j == lock["queue"]
  <2>1. /\ pc[k] = S("commit", "namespace") /\ j \in Keys \ {k}
        /\ pc'[k] = S("held", "none") /\ pc'[j] = S("done", "none")
        /\ \A x \in Keys \ {k, j} : pc'[x] = pc[x]
    BY SMTT(30), <1>13, Moved2 DEF CommitHead
  <2>2. /\ pc[j].at = "admitting" /\ queue # <<>> /\ queue[1] = k
        /\ queue' = Tail(queue) /\ lock'["queue"] = NoOne
    BY Zenon, <1>13 DEF CommitHead
  <2>3. \A x \in Keys : ~Holding(pc'[x]) BY SMTT(30), <2>1 DEF HolderInv, Holding
  <2>4. HolderInv' BY Zenon, <2>2, <2>3 DEF HolderInv, Holding
  <2>5. ~Admitting' BY Zenon, <2>2 DEF Admitting
  <2>6. /\ Len(queue) \in Nat /\ DOMAIN queue = 1 .. Len(queue) /\ Len(queue) >= 1
        /\ DOMAIN queue' = 1 .. Len(queue) - 1
        /\ \A i \in DOMAIN queue' : queue'[i] = queue[i + 1]
    BY SMTT(30), <2>2 DEF TypeOK
  <2>7. \A i \in DOMAIN queue' : i + 1 \in DOMAIN queue /\ i + 1 # 1 BY SMTT(30), <2>6
  <2>8. \A i \in DOMAIN queue' : queue'[i] \in Keys /\ pc[queue'[i]].at = "queued"
    BY SMTT(30), <2>6, <2>7, Types DEF QueueInv
  <2>9. \A i \in DOMAIN queue' : queue'[i] # k /\ queue'[i] # j BY <2>1, <2>2, <2>8
  <2>10. \A i \in DOMAIN queue' : pc'[queue'[i]].at = "queued" BY Zenon, <2>1, <2>8, <2>9
  <2>11. ASSUME NEW i \in DOMAIN queue', NEW l \in DOMAIN queue', queue'[i] = queue'[l] PROVE i = l
    <3>1. i + 1 = l + 1 BY SMTT(30), <2>6, <2>7, <2>11 DEF QueueInv
    <3>2. i \in Int /\ l \in Int BY <2>6
    <3> QED BY SMTT(30), <3>1, <3>2
  <2>12. ASSUME NEW x \in Keys, pc'[x].at = "queued" PROVE \E i \in DOMAIN queue' : queue'[i] = x
    <3>1. x # k /\ x # j /\ pc[x].at = "queued" BY <2>1, <2>12
    <3>2. PICK i \in DOMAIN queue : queue[i] = x BY Zenon, <3>1 DEF QueueInv
    <3>3. i # 1 BY Zenon, <2>2, <3>1, <3>2
    <3>4. i - 1 \in DOMAIN queue' /\ (i - 1) + 1 = i BY <2>6, <3>3
    <3> QED BY Zenon, <2>6, <3>2, <3>4
  <2>13. policy # "queue" => queue = <<>> BY Zenon DEF QueueInv
  <2> QED BY Zenon, <2>2, <2>4, <2>5, <2>10, <2>11, <2>12, <2>13 DEF QueueInv
<1>14. ASSUME NEW e \in Dims \cup {"global"}, DequeueEnd(k, e) PROVE HolderInv' /\ QueueInv'
  <2>1. /\ pc[k] = S("dequeue", e) /\ pc'[k] = S("done", "none")
        /\ \A x \in Keys \ {k} : pc'[x] = pc[x]
    BY Zenon, <1>14, Moved DEF DequeueEnd
  <2>2. queue' = queue /\ lock'["queue"] = NoOne /\ (lock["queue"] = NoOne \/ lock["queue"] = k)
    BY Zenon, <1>14 DEF DequeueEnd
  <2>3. \A x \in Keys : ~Holding(pc'[x])
    BY SMTT(30), <2>1, <2>2, LimiterAssumption DEF HolderInv, Holding
  <2>4. HolderInv' BY Zenon, <2>2, <2>3 DEF HolderInv, Holding
  <2>5. ~Admitting /\ ~Admitting' BY SMTT(30), <2>1, <2>2 DEF Admitting
  <2>6. \A i \in DOMAIN queue : queue[i] # k /\ queue[i] \in Keys /\ pc[queue[i]].at = "queued"
    BY SMTT(30), <2>1, <2>5, Types DEF QueueInv
  <2>7. \A i \in DOMAIN queue : pc'[queue[i]].at = "queued" BY Zenon, <2>1, <2>6
  <2>8. \A x \in Keys : pc'[x].at = "queued" => pc[x].at = "queued" BY SMTT(30), <2>1
  <2> QED BY Zenon, <2>2, <2>4, <2>5, <2>7, <2>8 DEF QueueInv
<1>15. CASE DequeuePass(k)
  <2>1. /\ pc[k] = S("dequeue", "global") /\ pc'[k] = S("dequeue", "type")
        /\ \A x \in Keys \ {k} : pc'[x] = pc[x]
    BY <1>15, Moved DEF DequeuePass
  <2>2. queue # <<>> /\ queue' = queue /\ lock["queue"] = NoOne /\ lock'["queue"] = k
    BY Zenon, <1>15 DEF DequeuePass
  <2>3. \A x \in Keys \ {k} : ~Holding(pc'[x])
    BY Zenon, <2>1, <2>2, LimiterAssumption DEF HolderInv, Holding
  <2>4. HolderInv' BY SMTT(30), <2>1, <2>2, <2>3 DEF HolderInv, Holding
  <2>5. ~Admitting /\ ~Admitting' BY SMTT(30), <2>1, <2>2 DEF Admitting
  <2>6. \A i \in DOMAIN queue : queue[i] # k /\ queue[i] \in Keys /\ pc[queue[i]].at = "queued"
    BY SMTT(30), <2>1, <2>5, Types DEF QueueInv
  <2>7. \A i \in DOMAIN queue : pc'[queue[i]].at = "queued" BY Zenon, <2>1, <2>6
  <2>8. \A x \in Keys : pc'[x].at = "queued" => pc[x].at = "queued" BY SMTT(30), <2>1
  <2> QED BY Zenon, <2>2, <2>4, <2>5, <2>7, <2>8 DEF QueueInv
<1>16. CASE DequeueAdmit(k)
  <2> DEFINE h == Head(queue)
  <2>1. /\ pc[k] = S("dequeue", "namespace") /\ h \in Keys \ {k}
        /\ pc'[k] = S("admitting", "none") /\ pc'[h] = S("commit", "global")
        /\ \A x \in Keys \ {k, h} : pc'[x] = pc[x]
    BY SMTT(30), <1>16, Moved2 DEF DequeueAdmit
  <2>2. /\ queue # <<>> /\ queue' = queue /\ lock["queue"] = k /\ lock'["queue"] = k
        /\ h = queue[1]
    BY Zenon, <1>16, Types DEF DequeueAdmit, SameQueue
  <2>3. \A x \in Keys \ {k} : ~Holding(pc'[x])
    BY SMTT(30), <2>1, <2>2 DEF HolderInv, Holding
  <2>4. HolderInv' BY SMTT(30), <2>1, <2>2, <2>3 DEF HolderInv, Holding
  <2>5. ~Admitting BY SMTT(30), <2>1, <2>2 DEF Admitting
  <2>6. Admitting' BY SMTT(30), <2>1, <2>2, LimiterAssumption DEF Admitting
  <2>7. \A i \in DOMAIN queue : queue[i] # k /\ queue[i] \in Keys /\ pc[queue[i]].at = "queued"
    BY <2>1, <2>5, Types DEF QueueInv
  <2>8. 1 \in DOMAIN queue BY SMTT(30), <2>2 DEF TypeOK
  <2>9. \A i \in DOMAIN queue : i # 1 => queue[i] # h BY ZenonT(40), <2>2, <2>8 DEF QueueInv
  <2>10. \A i \in DOMAIN queue : i # 1 => pc'[queue[i]].at = "queued" BY Zenon, <2>1, <2>7, <2>9
  <2>11. pc'[queue[1]].at = "commit" BY SMTT(30), <2>1, <2>2
  <2>12. \A x \in Keys : pc'[x].at = "queued" => pc[x].at = "queued" BY <2>1
  <2> QED BY ZenonT(40), <2>2, <2>4, <2>6, <2>10, <2>11, <2>12 DEF QueueInv
<1> QED BY Zenon, <1>1, <1>2, <1>3, <1>4, <1>5, <1>6, <1>7, <1>8, <1>9, <1>10, <1>11, <1>12, <1>13,
           <1>14, <1>15, <1>16 DEF Effect

-----------------------------------------------------------------------------
(* The threads inside calls, the global count and its reservations *)

\* The calls that have passed the check of the global limit.
Passed ==
  {k \in Keys : \/ pc[k].at = "check"
                \/ pc[k].at = "dequeue" /\ pc[k].d # "global"
                \/ pc[k].at = "commit" /\ pc[k].d = "global"}

\* A call past the check of a dimension has an entry there, if none queue.
EntryInv ==
  policy # "queue" => \A k \in Keys :
    /\ pc[k].at \in {"commit", "held", "release"} =>
         \A d \in Dims : active[d][Of[k][d]] # Absent
    /\ pc[k].at = "check" /\ pc[k].d = "namespace" => active["type"][Of[k]["type"]] # Absent

\* No more calls are under way than there are threads.
BusyInv == Cardinality(Busy) <= MaxCalls

\* The global count stands for the keys that hold a slot.
GlobalInv == global_active = Cardinality(InGlobal)

\* So does the count of an id; it may be lower when requests queue.
DimInv ==
  \A d \in Dims : \A i \in Ids :
    /\ Count(d, i) <= Cardinality(InDim(d, i))
    /\ policy # "queue" => Count(d, i) = Cardinality(InDim(d, i))

\* Counted or reserved, the maximum is passed by less than the number of threads.
ReservedInv == Cardinality(InGlobal \cup Passed) <= MaxGlobal + MaxCalls - 1

\* What is used of the sizes of sets of keys, which are finite.
KeySizes ==
  /\ Cardinality({}) = 0
  /\ \A A \in SUBSET Keys : Cardinality(A) \in Nat
  /\ \A A, B \in SUBSET Keys : A \subseteq B => Cardinality(A) <= Cardinality(B)
  /\ \A A \in SUBSET Keys : \A k \in Keys \ A : Cardinality(A \cup {k}) = Cardinality(A) + 1
  /\ \A A, B \in SUBSET Keys : Cardinality(A \cup B) <= Cardinality(A) + Cardinality(B)

\* Sizes of sets of keys that differ in one key at most.
LEMMA OneKey ==
  ASSUME KeySizes, NEW A \in SUBSET Keys, NEW B \in SUBSET Keys, NEW k \in Keys,
         \A x \in Keys \ {k} : x \in B <=> x \in A
  PROVE  /\ Cardinality(A) \in Nat /\ Cardinality(B) \in Nat
         /\ Cardinality(B) <= Cardinality(Keys)
         /\ (k \in B <=> k \in A) => Cardinality(B) = Cardinality(A)
         /\ k \in B /\ k \notin A => Cardinality(B) = Cardinality(A) + 1
         /\ k \notin B /\ k \in A => Cardinality(A) = Cardinality(B) + 1
<1>1. (k \in B <=> k \in A) => A = B OBVIOUS
<1>2. k \in B /\ k \notin A => B = A \cup {k} BY Zenon
<1>3. k \notin B /\ k \in A => A = B \cup {k} BY Zenon
<1>4. /\ k \notin A => Cardinality(A \cup {k}) = Cardinality(A) + 1
      /\ k \notin B => Cardinality(B \cup {k}) = Cardinality(B) + 1
  BY Zenon DEF KeySizes
<1>5. Keys \in SUBSET Keys /\ B \subseteq Keys BY Zenon
<1>6. /\ Cardinality(A) \in Nat /\ Cardinality(B) \in Nat
      /\ Cardinality(B) <= Cardinality(Keys)
  BY Zenon, <1>5 DEF KeySizes
<1> QED BY Zenon, <1>1, <1>2, <1>3, <1>4, <1>6

\* Sizes of subsets.
LEMMA SubSize ==
  ASSUME KeySizes, NEW A \in SUBSET Keys, NEW B \in SUBSET Keys, A \subseteq B
  PROVE  Cardinality(A) <= Cardinality(B) /\ Cardinality(A) \in Nat /\ Cardinality(B) \in Nat
BY Zenon DEF KeySizes

\* Sets of keys of the same size: one key is exchanged for another.
LEMMA SwapKeys ==
  ASSUME KeySizes, NEW A \in SUBSET Keys, NEW B \in SUBSET Keys, NEW k \in A \ B, NEW h \in B \ A,
         \A x \in Keys \ {k, h} : x \in B <=> x \in A
  PROVE  Cardinality(B) = Cardinality(A)
<1> DEFINE C == A \ {k}
<1>1. C \in SUBSET Keys /\ k \in Keys /\ h \in Keys BY Zenon
<1>2. Cardinality(A) = Cardinality(C) + 1 BY <1>1, OneKey
<1>3. \A x \in Keys \ {h} : x \in B <=> x \in C BY Zenon
<1>4. h \in B /\ h \notin C BY Zenon
<1>5. Cardinality(B) = Cardinality(C) + 1 BY Zenon, <1>1, <1>3, <1>4, OneKey
<1> QED BY Zenon, <1>2, <1>5

\* The sets are sets of keys, now and after the step.
LEMMA KeySets ==
  /\ Busy \in SUBSET Keys /\ Busy' \in SUBSET Keys
  /\ InGlobal \in SUBSET Keys /\ InGlobal' \in SUBSET Keys
  /\ Passed \in SUBSET Keys /\ Passed' \in SUBSET Keys
  /\ InGlobal \cup Passed \in SUBSET Keys /\ (InGlobal \cup Passed)' \in SUBSET Keys
BY Zenon DEF Busy, InGlobal, Passed

\* No more threads than there are, the global count is exact, and the slots
\* counted or reserved stay below the maximum plus the threads: the last
\* thread to reserve saw a count below the maximum.
LEMMA GlobalStep ==
  ASSUME KeySizes, TypeOK, BusyInv, GlobalInv, ReservedInv, NEW k \in Keys, Effect(k)
  PROVE  BusyInv' /\ GlobalInv' /\ ReservedInv'
<1> DEFINE InG(s) == s.at = "held" \/ (s.at = "commit" /\ s.d # "global")
<1> DEFINE InP(s) == \/ s.at = "check"
                     \/ s.at = "dequeue" /\ s.d # "global"
                     \/ s.at = "commit" /\ s.d = "global"
\* What a step does to the number of threads inside calls, to the global count
\* and what it stands for, and to the slots counted or reserved.
<1> DEFINE BusyEffect ==
             \/ Cardinality(Busy') <= Cardinality(Busy)
             \/ ThreadFree /\ Cardinality(Busy') <= Cardinality(Busy) + 1
<1> DEFINE GlobalEffect ==
             \/ global_active' = global_active /\ Cardinality(InGlobal') = Cardinality(InGlobal)
             \/ /\ global_active' = (global_active + 1) % Word
                /\ Cardinality(InGlobal') = Cardinality(InGlobal) + 1
                /\ Cardinality(InGlobal') <= Cardinality(Keys)
             \/ /\ global_active' = (global_active - 1) % Word
                /\ Cardinality(InGlobal) = Cardinality(InGlobal') + 1
<1> DEFINE ReservedEffect ==
             \/ Cardinality((InGlobal \cup Passed)') <= Cardinality(InGlobal \cup Passed)
             \/ global_active < MaxGlobal /\ global_active' = global_active
<1> HIDE DEF InG, InP, BusyEffect, GlobalEffect, ReservedEffect
\* Arithmetic of the two bounds.
<1>UpDown.
  ASSUME NEW n \in Nat, NEW m \in Nat, NEW w \in Nat
  PROVE  /\ m = n + 1 /\ m < w => (n + 1) % w = m
         /\ n = m + 1 /\ n < w => (n - 1) % w = m
  OBVIOUS
\* The calls that hold a reservation are inside a call.
<1>PassedBusy.
  Passed' \subseteq Busy'
  BY Zenon DEF Passed, Busy, Outside
\* The size of a union.
<1>UnionSize.
  ASSUME NEW A \in SUBSET Keys, NEW B \in SUBSET Keys
  PROVE  /\ Cardinality(A \cup B) <= Cardinality(A) + Cardinality(B)
         /\ Cardinality(A \cup B) \in Nat /\ Cardinality(A) \in Nat /\ Cardinality(B) \in Nat
  <2>1. A \cup B \in SUBSET Keys BY Zenon
  <2> QED BY Zenon, <2>1 DEF KeySizes
\* How a move of one key changes the sets.
<1>SetsMove.
  ASSUME NEW from, NEW to, Go(k, from, to)
  PROVE  /\ \A x \in Keys \ {k} : /\ x \in Busy' <=> x \in Busy
                                  /\ x \in InGlobal' <=> x \in InGlobal
                                  /\ x \in (InGlobal \cup Passed)' <=> x \in InGlobal \cup Passed
         /\ k \in Busy <=> from.at \notin OutsideAts
         /\ k \in Busy' <=> to.at \notin OutsideAts
         /\ k \in InGlobal <=> InG(from)
         /\ k \in InGlobal' <=> InG(to)
         /\ k \in InGlobal \cup Passed <=> InG(from) \/ InP(from)
         /\ k \in (InGlobal \cup Passed)' <=> InG(to) \/ InP(to)
  <2> USE <1>SetsMove
  <2>1. pc[k] = from /\ pc'[k] = to /\ \A x \in Keys \ {k} : pc'[x] = pc[x] BY Zenon, Moved
  <2>2. \A x \in Keys \ {k} : x \in Busy' <=> x \in Busy BY Zenon, <2>1 DEF Busy, Outside
  <2>3. \A x \in Keys \ {k} : x \in InGlobal' <=> x \in InGlobal BY Zenon, <2>1 DEF InGlobal
  <2>4. \A x \in Keys \ {k} : x \in Passed' <=> x \in Passed BY Zenon, <2>1 DEF Passed
  <2>5. (k \in Busy <=> from.at \notin OutsideAts) /\ (k \in Busy' <=> to.at \notin OutsideAts)
    BY Zenon, <2>1 DEF Busy, Outside, OutsideAts
  <2>6. (k \in InGlobal <=> InG(from)) /\ (k \in InGlobal' <=> InG(to)) BY Zenon, <2>1 DEF InGlobal, InG
  <2>7. (k \in Passed <=> InP(from)) /\ (k \in Passed' <=> InP(to)) BY Zenon, <2>1 DEF Passed, InP
  <2> QED BY Zenon, <2>2, <2>3, <2>4, <2>5, <2>6, <2>7
\* The same for two keys.
<1>SetsMove2.
  ASSUME NEW from, NEW to, NEW j, NEW to2, Go2(k, from, to, j, to2)
  PROVE  /\ j \in Keys \ {k}
         /\ \A x \in Keys \ {k, j} : /\ x \in Busy' <=> x \in Busy
                                     /\ x \in InGlobal' <=> x \in InGlobal
                                     /\ x \in (InGlobal \cup Passed)' <=> x \in InGlobal \cup Passed
         /\ k \in Busy <=> from.at \notin OutsideAts
         /\ k \in Busy' <=> to.at \notin OutsideAts
         /\ k \in InGlobal <=> InG(from)
         /\ k \in InGlobal' <=> InG(to)
         /\ k \in InGlobal \cup Passed <=> InG(from) \/ InP(from)
         /\ k \in (InGlobal \cup Passed)' <=> InG(to) \/ InP(to)
         /\ j \in Busy <=> pc[j].at \notin OutsideAts
         /\ j \in Busy' <=> to2.at \notin OutsideAts
         /\ j \in InGlobal <=> InG(pc[j])
         /\ j \in InGlobal' <=> InG(to2)
         /\ j \in InGlobal \cup Passed <=> InG(pc[j]) \/ InP(pc[j])
         /\ j \in (InGlobal \cup Passed)' <=> InG(to2) \/ InP(to2)
  <2> USE <1>SetsMove2
  <2>1. /\ pc[k] = from /\ j \in Keys \ {k} /\ pc'[k] = to /\ pc'[j] = to2
        /\ \A x \in Keys \ {k, j} : pc'[x] = pc[x]
    BY Moved2
  <2>2. \A x \in Keys \ {k, j} : x \in Busy' <=> x \in Busy BY Zenon, <2>1 DEF Busy, Outside
  <2>3. \A x \in Keys \ {k, j} : x \in InGlobal' <=> x \in InGlobal BY Zenon, <2>1 DEF InGlobal
  <2>4. \A x \in Keys \ {k, j} : x \in Passed' <=> x \in Passed BY Zenon, <2>1 DEF Passed
  <2>5. (k \in Busy <=> from.at \notin OutsideAts) /\ (k \in Busy' <=> to.at \notin OutsideAts)
    BY Zenon, <2>1 DEF Busy, Outside, OutsideAts
  <2>6. (k \in InGlobal <=> InG(from)) /\ (k \in InGlobal' <=> InG(to)) BY Zenon, <2>1 DEF InGlobal, InG
  <2>7. (k \in Passed <=> InP(from)) /\ (k \in Passed' <=> InP(to)) BY Zenon, <2>1 DEF Passed, InP
  <2>8. (j \in Busy <=> pc[j].at \notin OutsideAts) /\ (j \in Busy' <=> to2.at \notin OutsideAts)
    BY Zenon, <2>1 DEF Busy, Outside, OutsideAts
  <2>9. (j \in InGlobal <=> InG(pc[j])) /\ (j \in InGlobal' <=> InG(to2)) BY Zenon, <2>1 DEF InGlobal, InG
  <2>10. (j \in Passed <=> InP(pc[j])) /\ (j \in Passed' <=> InP(to2)) BY Zenon, <2>1 DEF Passed, InP
  <2> QED BY Zenon, <2>1, <2>2, <2>3, <2>4, <2>5, <2>6, <2>7, <2>8, <2>9, <2>10
\* Hence how a move of one key changes the sizes.
<1>SizesMove.
  ASSUME NEW from, NEW to, Go(k, from, to)
  PROVE  /\ to.at \in OutsideAts \/ from.at \notin OutsideAts
              => Cardinality(Busy') <= Cardinality(Busy)
         /\ Cardinality(Busy') <= Cardinality(Busy) + 1
         /\ (InG(to) <=> InG(from)) => Cardinality(InGlobal') = Cardinality(InGlobal)
         /\ InG(to) /\ ~InG(from) =>
              /\ Cardinality(InGlobal') = Cardinality(InGlobal) + 1
              /\ Cardinality(InGlobal') <= Cardinality(Keys)
         /\ ~InG(to) /\ InG(from) => Cardinality(InGlobal) = Cardinality(InGlobal') + 1
         /\ (InG(to) \/ InP(to) => InG(from) \/ InP(from))
              => Cardinality((InGlobal \cup Passed)') <= Cardinality(InGlobal \cup Passed)
  <2> USE <1>SizesMove
  <2> USE KeySets
  <2>1. \A x \in Keys \ {k} : /\ x \in Busy' <=> x \in Busy
                              /\ x \in InGlobal' <=> x \in InGlobal
                              /\ x \in (InGlobal \cup Passed)' <=> x \in InGlobal \cup Passed
    BY Zenon, <1>SetsMove
  <2>2. /\ k \in Busy <=> from.at \notin OutsideAts
        /\ k \in Busy' <=> to.at \notin OutsideAts
        /\ k \in InGlobal <=> InG(from)
        /\ k \in InGlobal' <=> InG(to)
        /\ k \in InGlobal \cup Passed <=> InG(from) \/ InP(from)
        /\ k \in (InGlobal \cup Passed)' <=> InG(to) \/ InP(to)
    BY Zenon, <1>SetsMove
  <2>3. /\ Cardinality(Busy) \in Nat /\ Cardinality(Busy') \in Nat
        /\ (k \in Busy' <=> k \in Busy) => Cardinality(Busy') = Cardinality(Busy)
        /\ k \in Busy' /\ k \notin Busy => Cardinality(Busy') = Cardinality(Busy) + 1
        /\ k \notin Busy' /\ k \in Busy => Cardinality(Busy) = Cardinality(Busy') + 1
    BY Zenon, <2>1, OneKey
  <2>4. /\ Cardinality(InGlobal') <= Cardinality(Keys)
        /\ (k \in InGlobal' <=> k \in InGlobal) => Cardinality(InGlobal') = Cardinality(InGlobal)
        /\ k \in InGlobal' /\ k \notin InGlobal => Cardinality(InGlobal') = Cardinality(InGlobal) + 1
        /\ k \notin InGlobal' /\ k \in InGlobal => Cardinality(InGlobal) = Cardinality(InGlobal') + 1
    BY Zenon, <2>1, OneKey
  <2>5. (k \in (InGlobal \cup Passed)' => k \in InGlobal \cup Passed)
          => (InGlobal \cup Passed)' \subseteq InGlobal \cup Passed
    BY Zenon, <2>1
  <2>6. (InGlobal \cup Passed)' \subseteq InGlobal \cup Passed
          => Cardinality((InGlobal \cup Passed)') <= Cardinality(InGlobal \cup Passed)
    BY Zenon, SubSize
  <2>7. Cardinality(Busy') <= Cardinality(Busy) + 1
        /\ (k \notin Busy' \/ k \in Busy => Cardinality(Busy') <= Cardinality(Busy))
    BY <2>3
  <2> QED BY Zenon, <2>2, <2>4, <2>5, <2>6, <2>7
\* The commit that ends an admission moves two keys.
<1>SizesHead.
  ASSUME CommitHead(k)
  PROVE  /\ Cardinality(Busy') <= Cardinality(Busy)
         /\ Cardinality(InGlobal') = Cardinality(InGlobal)
         /\ Cardinality((InGlobal \cup Passed)') <= Cardinality(InGlobal \cup Passed)
  <2> USE <1>SizesHead
  <2> USE KeySets
  <2> DEFINE j == lock["queue"]
  <2>1. /\ Go2(k, S("commit", "namespace"), S("held", "none"), j, S("done", "none"))
        /\ pc[j].at = "admitting"
    BY Zenon DEF CommitHead
  <2>2. \A x \in Keys \ {k, j} : /\ x \in Busy' <=> x \in Busy
                                 /\ x \in InGlobal' <=> x \in InGlobal
                                 /\ x \in (InGlobal \cup Passed)' <=> x \in InGlobal \cup Passed
    BY ZenonT(40), <2>1, <1>SetsMove2
  <2>3. /\ k \notin Busy' /\ k \in InGlobal /\ k \in InGlobal'
        /\ k \in InGlobal \cup Passed
    BY SMTT(30), <2>1, <1>SetsMove2 DEF S, OutsideAts, InG, InP
  <2>4. /\ j \in Keys /\ j \notin Busy /\ j \notin Busy' /\ j \notin InGlobal /\ j \notin InGlobal'
        /\ j \notin (InGlobal \cup Passed)'
    BY <2>1, <1>SetsMove2 DEF S, OutsideAts, InG, InP
  <2>5. Busy' \subseteq Busy BY Zenon, <2>2, <2>3, <2>4
  <2>6. InGlobal' = InGlobal BY SMTT(30), <2>2, <2>3, <2>4
  <2>7. (InGlobal \cup Passed)' \subseteq InGlobal \cup Passed BY Zenon, <2>2, <2>3, <2>4
  <2> QED BY Zenon, <2>5, <2>6, <2>7, SubSize
\* A release that admits the head hands its place to it.
<1>SizesAdmit.
  ASSUME DequeueAdmit(k)
  PROVE  /\ Cardinality(Busy') = Cardinality(Busy)
         /\ Cardinality(InGlobal') = Cardinality(InGlobal)
         /\ Cardinality((InGlobal \cup Passed)') = Cardinality(InGlobal \cup Passed)
  <2> USE <1>SizesAdmit
  <2> USE KeySets
  <2> DEFINE h == Head(queue)
  <2>1. /\ Go2(k, S("dequeue", "namespace"), S("admitting", "none"), h, S("commit", "global"))
        /\ pc[h].at = "queued"
    BY Zenon DEF DequeueAdmit
  <2>2. \A x \in Keys \ {k, h} : /\ x \in Busy' <=> x \in Busy
                                 /\ x \in InGlobal' <=> x \in InGlobal
                                 /\ x \in (InGlobal \cup Passed)' <=> x \in InGlobal \cup Passed
    BY ZenonT(40), <2>1, <1>SetsMove2
  <2>3. /\ k \in Busy \ Busy' /\ k \notin InGlobal /\ k \notin InGlobal'
        /\ k \in (InGlobal \cup Passed) \ (InGlobal \cup Passed)'
    BY SMTT(30), <2>1, <1>SetsMove2 DEF S, OutsideAts, InG, InP
  <2>4. /\ h \in Keys /\ h \in Busy' \ Busy /\ h \notin InGlobal /\ h \notin InGlobal'
        /\ h \in (InGlobal \cup Passed)' \ (InGlobal \cup Passed)
    BY <2>1, <1>SetsMove2 DEF S, OutsideAts, InG, InP
  <2>5. InGlobal' = InGlobal BY <2>2, <2>3, <2>4
  <2>6. Cardinality(Busy') = Cardinality(Busy) BY <2>2, <2>3, <2>4, SwapKeys
  <2>7. Cardinality((InGlobal \cup Passed)') = Cardinality(InGlobal \cup Passed)
    BY SMTT(30), <2>2, <2>3, <2>4, SwapKeys
  <2> QED BY Zenon, <2>5, <2>6, <2>7
\* Enough for each, when one key moves.
<1>MoveEffect.
  ASSUME NEW from, NEW to, Go(k, from, to)
  PROVE  /\ to.at \in OutsideAts \/ from.at \notin OutsideAts \/ ThreadFree => BusyEffect
         /\ (InG(to) <=> InG(from)) /\ global_active' = global_active => GlobalEffect
         /\ InG(to) /\ ~InG(from) /\ global_active' = (global_active + 1) % Word => GlobalEffect
         /\ ~InG(to) /\ InG(from) /\ global_active' = (global_active - 1) % Word => GlobalEffect
         /\ (InG(to) \/ InP(to) => InG(from) \/ InP(from)) => ReservedEffect
  <2> USE <1>MoveEffect
  <2>1. to.at \in OutsideAts \/ from.at \notin OutsideAts \/ ThreadFree => BusyEffect
    BY Zenon, <1>SizesMove DEF BusyEffect
  <2>2. /\ (InG(to) <=> InG(from)) /\ global_active' = global_active => GlobalEffect
        /\ InG(to) /\ ~InG(from) /\ global_active' = (global_active + 1) % Word => GlobalEffect
        /\ ~InG(to) /\ InG(from) /\ global_active' = (global_active - 1) % Word => GlobalEffect
    BY Zenon, <1>SizesMove DEF GlobalEffect
  <2>3. (InG(to) \/ InP(to) => InG(from) \/ InP(from)) => ReservedEffect
    BY Zenon, <1>SizesMove DEF ReservedEffect
  <2> QED BY Zenon, <2>1, <2>2, <2>3
\* Every step has such an effect.
<1>SizeStep.
         BusyEffect /\ GlobalEffect /\ ReservedEffect
  <2> USE DEF SameCounts, Entry
  <2>s. /\ \A e : /\ S("queued", e).at \in OutsideAts /\ S("rejected", e).at \in OutsideAts
                  /\ S("done", e).at \in OutsideAts /\ S("held", e).at \in OutsideAts
                  /\ S("check", e).at \notin OutsideAts /\ S("overflow", e).at \notin OutsideAts
                  /\ S("commit", e).at \notin OutsideAts /\ S("release", e).at \notin OutsideAts
                  /\ S("dequeue", e).at \notin OutsideAts
        /\ \A e : /\ ~InG(S("new", e)) /\ ~InG(S("check", e)) /\ ~InG(S("overflow", e))
                  /\ ~InG(S("queued", e)) /\ ~InG(S("rejected", e)) /\ ~InG(S("done", e))
                  /\ ~InG(S("release", e)) /\ ~InG(S("dequeue", e)) /\ InG(S("held", e))
        /\ ~InG(S("commit", "global")) /\ InG(S("commit", "type")) /\ InG(S("commit", "namespace"))
        /\ \A e : /\ ~InP(S("overflow", e)) /\ ~InP(S("queued", e)) /\ ~InP(S("rejected", e))
                  /\ ~InP(S("release", e)) /\ ~InP(S("done", e)) /\ InP(S("check", e))
        /\ InP(S("commit", "global")) /\ ~InP(S("dequeue", "global"))
        /\ InP(S("dequeue", "type")) /\ InP(S("dequeue", "namespace"))
    BY SMTT(30) DEF S, OutsideAts, InG, InP
  <2> DEFINE P == BusyEffect /\ GlobalEffect /\ ReservedEffect
  <2>1. CASE AcquireOver(k)
    BY Zenon, <2>1, <2>s, <1>MoveEffect DEF AcquireOver
  <2>2. CASE AcquirePass(k)
    BY Zenon, <2>2, <2>s, <1>MoveEffect DEF AcquirePass, ReservedEffect
  <2>3. ASSUME NEW d \in Dims, CheckOver(k, d) PROVE P
    BY Zenon, <2>3, <2>s, <1>MoveEffect DEF CheckOver
  <2>4. ASSUME NEW d \in Dims, CheckPass(k, d) PROVE P
    <3>1. CASE d = "type"
      BY Zenon, <2>4, <3>1, <2>s, <1>MoveEffect DEF CheckPass
    <3>2. CASE d # "type"
      BY Zenon, <2>4, <3>2, <2>s, <1>MoveEffect DEF CheckPass
    <3> QED BY Zenon, <3>1, <3>2
  <2>5. ASSUME NEW d \in Dims, ReleaseIn(k, d) PROVE P
    <3>1. CASE d = "type"
      BY Zenon, <2>5, <3>1, <2>s, <1>MoveEffect DEF ReleaseIn
    <3>2. CASE d # "type"
      BY Zenon, <2>5, <3>2, <2>s, <1>MoveEffect DEF ReleaseIn
    <3> QED BY Zenon, <3>1, <3>2
  <2>6. ASSUME NEW d \in Dims \cup {"none"}, OverQueued(k, d) PROVE P
    BY Zenon, <2>6, <2>s, <1>MoveEffect DEF OverQueued
  <2>7. ASSUME NEW d \in Dims \cup {"none"}, OverRejected(k, d) PROVE P
    BY Zenon, <2>7, <2>s, <1>MoveEffect DEF OverRejected
  <2>8. CASE CommitOne(k)
    BY Zenon, <2>8, <2>s, <1>MoveEffect DEF CommitOne
  <2>9. CASE CommitType(k)
    BY Zenon, <2>9, <2>s, <1>MoveEffect DEF CommitType
  <2>10. CASE CommitOwn(k)
    BY Zenon, <2>10, <2>s, <1>MoveEffect DEF CommitOwn
  <2>11. CASE CommitHead(k)
    BY Zenon, <2>11, <1>SizesHead DEF CommitHead, BusyEffect, GlobalEffect, ReservedEffect
  <2>12. CASE ReleaseOne(k)
    BY Zenon, <2>12, <2>s, <1>MoveEffect DEF ReleaseOne
  <2>13. ASSUME NEW e \in Dims \cup {"global"}, DequeueEnd(k, e) PROVE P
    BY Zenon, <2>13, <2>s, <1>MoveEffect DEF DequeueEnd
  <2>14. CASE DequeuePass(k)
    BY Zenon, <2>14, <2>s, <1>MoveEffect DEF DequeuePass, ReservedEffect
  <2>15. CASE DequeueType(k)
    BY Zenon, <2>15, <2>s, <1>MoveEffect DEF DequeueType
  <2>16. CASE DequeueAdmit(k)
    <3>1. SameCounts BY Zenon, <2>16 DEF DequeueAdmit
    <3>2. /\ Cardinality(Busy') = Cardinality(Busy)
          /\ Cardinality(InGlobal') = Cardinality(InGlobal)
          /\ Cardinality((InGlobal \cup Passed)') = Cardinality(InGlobal \cup Passed)
      BY Zenon, <2>16, <1>SizesAdmit
    <3>3. Cardinality(Busy) \in Nat /\ Cardinality(InGlobal \cup Passed) \in Nat
      BY Zenon, KeySets, SubSize
    <3> QED BY SMTT(30), <3>1, <3>2, <3>3 DEF BusyEffect, GlobalEffect, ReservedEffect
  <2> QED BY Zenon, <2>1, <2>2, <2>3, <2>4, <2>5, <2>6, <2>7, <2>8, <2>9, <2>10, <2>11, <2>12, <2>13,
             <2>14, <2>15, <2>16 DEF Effect
<1>1. BusyEffect /\ GlobalEffect /\ ReservedEffect BY Zenon, <1>SizeStep
<1>2. /\ Cardinality(Busy) \in Nat /\ Cardinality(Busy') \in Nat
      /\ Cardinality(InGlobal) \in Nat /\ Cardinality(InGlobal') \in Nat
      /\ Cardinality(InGlobal \cup Passed) \in Nat /\ Cardinality((InGlobal \cup Passed)') \in Nat
      /\ Cardinality(Passed') \in Nat
  BY Zenon, KeySets, SubSize
<1>3. /\ Cardinality(InGlobal) <= Cardinality(Keys) /\ Cardinality(InGlobal') <= Cardinality(Keys)
      /\ Cardinality(Keys) \in Nat /\ Cardinality(Keys) < Word /\ Word \in Nat
      /\ MaxGlobal \in Nat /\ MaxCalls \in Nat
  BY Zenon, KeySets, SubSize, LimiterAssumption
<1>4. BusyInv'
  <2>1. Cardinality(Busy) <= MaxCalls BY Zenon DEF BusyInv
  <2>2. Cardinality(Busy') <= MaxCalls
    BY SMTT(30), <1>1, <1>2, <1>3, <2>1 DEF BusyEffect, ThreadFree
  <2> QED BY Zenon, <2>2 DEF BusyInv
<1>5. GlobalInv'
  <2>1. global_active = Cardinality(InGlobal) BY Zenon DEF GlobalInv
  <2>2. /\ Cardinality(InGlobal') = Cardinality(InGlobal) + 1
             => (Cardinality(InGlobal) + 1) % Word = Cardinality(InGlobal')
        /\ Cardinality(InGlobal) = Cardinality(InGlobal') + 1
             => (Cardinality(InGlobal) - 1) % Word = Cardinality(InGlobal')
    <3>1. Cardinality(InGlobal') < Word /\ Cardinality(InGlobal) < Word BY SMTT(30), <1>2, <1>3
    <3> QED BY SMTT(30), <1>2, <1>3, <3>1, <1>UpDown
  <2> QED BY Zenon, <1>1, <2>1, <2>2 DEF GlobalEffect, GlobalInv
<1>6. ReservedInv'
  <2>1. CASE Cardinality((InGlobal \cup Passed)') <= Cardinality(InGlobal \cup Passed)
    BY SMTT(30), <1>2, <1>3, <2>1 DEF ReservedInv
  <2>2. CASE global_active < MaxGlobal /\ global_active' = global_active
    <3>1. Cardinality(InGlobal') = global_active BY Zenon, <1>5, <2>2 DEF GlobalInv
    <3>2. Cardinality(InGlobal') <= MaxGlobal - 1 BY SMTT(30), <1>2, <1>3, <2>2, <3>1
    <3>3. Cardinality(Passed') <= Cardinality(Busy') BY Zenon, <1>PassedBusy, KeySets, SubSize
    <3>4. Cardinality(Busy') <= MaxCalls BY Zenon, <1>4 DEF BusyInv
    <3>5. Cardinality((InGlobal \cup Passed)') <= Cardinality(InGlobal') + Cardinality(Passed')
      BY Zenon, KeySets, <1>UnionSize
    <3>6. Cardinality((InGlobal \cup Passed)') <= MaxGlobal + MaxCalls - 1
      BY SMTT(30), <1>2, <1>3, <3>2, <3>3, <3>4, <3>5
    <3> QED BY Zenon, <3>6 DEF ReservedInv
  <2> QED BY Zenon, <1>1, <2>1, <2>2 DEF ReservedEffect
<1> QED BY Zenon, <1>4, <1>5, <1>6

-----------------------------------------------------------------------------
(* The counts by type and by namespace *)

\* What a step does to the count of id i, and to the keys it stands for.
DimSame(d, i) ==
  Cardinality(InDim(d, i)') = Cardinality(InDim(d, i)) /\ active'[d][i] \in {active[d][i], Count(d, i)}

DimUp(d, i) ==
  /\ Cardinality(InDim(d, i)') = Cardinality(InDim(d, i)) + 1
  /\ active'[d][i] = Incremented(active[d][i])
  /\ \E x \in Keys : Of[x][d] = i /\ pc[x].at = "commit"

DimDown(d, i) ==
  /\ Cardinality(InDim(d, i)) = Cardinality(InDim(d, i)') + 1
  /\ active'[d][i] = Decremented(active[d][i])

DimEffect(d, i) == DimSame(d, i) \/ DimUp(d, i) \/ DimDown(d, i)

\* Every step has such an effect on every count.
LEMMA DimEffects ==
  ASSUME KeySizes, TypeOK, NEW k \in Keys, Effect(k), NEW d \in Dims, NEW i \in Ids
  PROVE  DimEffect(d, i)
<1> DEFINE InD(s, e) == \/ s.at = "held"
                        \/ s = S("release", "type")
                        \/ e = "type" /\ s = S("commit", "namespace")
                        \/ e = "namespace" /\ s = S("release", "namespace")
<1> HIDE DEF InD
\* The keys a count stands for, when one key moves.
<1>DimMove.
  ASSUME NEW from, NEW to, Go(k, from, to)
  PROVE  /\ Of[k][d] # i \/ (InD(to, d) <=> InD(from, d))
              => Cardinality(InDim(d, i)') = Cardinality(InDim(d, i))
         /\ Of[k][d] = i /\ InD(to, d) /\ ~InD(from, d)
              => Cardinality(InDim(d, i)') = Cardinality(InDim(d, i)) + 1
         /\ Of[k][d] = i /\ ~InD(to, d) /\ InD(from, d)
              => Cardinality(InDim(d, i)) = Cardinality(InDim(d, i)') + 1
  <2> USE <1>DimMove
  <2>1. pc[k] = from /\ pc'[k] = to /\ \A x \in Keys \ {k} : pc'[x] = pc[x] BY Zenon, Moved
  <2>2. InDim(d, i) \in SUBSET Keys /\ InDim(d, i)' \in SUBSET Keys BY Zenon DEF InDim
  <2>3. \A x \in Keys \ {k} : x \in InDim(d, i)' <=> x \in InDim(d, i) BY Zenon, <2>1 DEF InDim, At
  <2>4. k \in InDim(d, i) <=> Of[k][d] = i /\ InD(from, d) BY Zenon, <2>1 DEF InDim, At, InD, S
  <2>5. k \in InDim(d, i)' <=> Of[k][d] = i /\ InD(to, d) BY Zenon, <2>1 DEF InDim, At, InD, S
  <2> QED BY Zenon, <2>2, <2>3, <2>4, <2>5, OneKey
\* Enough for each effect, when one key moves.
<1>DimMoveEffect.
  ASSUME NEW from, NEW to, Go(k, from, to)
  PROVE  /\ (/\ Of[k][d] # i \/ (InD(to, d) <=> InD(from, d))
             /\ active'[d][i] \in {active[d][i], Count(d, i)}) => DimEffect(d, i)
         /\ (/\ Of[k][d] = i /\ InD(to, d) /\ ~InD(from, d) /\ from.at = "commit"
             /\ active'[d][i] = Incremented(active[d][i])) => DimEffect(d, i)
         /\ (/\ Of[k][d] = i /\ ~InD(to, d) /\ InD(from, d)
             /\ active'[d][i] = Decremented(active[d][i])) => DimEffect(d, i)
  <2> USE <1>DimMoveEffect
  <2>1. pc[k] = from BY Zenon, Moved
  <2>2. ASSUME Of[k][d] # i \/ (InD(to, d) <=> InD(from, d)), active'[d][i] \in {active[d][i], Count(d, i)}
        PROVE  DimEffect(d, i)
    <3>1. Cardinality(InDim(d, i)') = Cardinality(InDim(d, i)) BY Zenon, <2>2, <1>DimMove
    <3> QED BY Zenon, <2>2, <3>1 DEF DimEffect, DimSame
  <2>3. ASSUME Of[k][d] = i, InD(to, d), ~InD(from, d), from.at = "commit",
               active'[d][i] = Incremented(active[d][i])
        PROVE  DimEffect(d, i)
    BY Zenon, <2>1, <2>3, <1>DimMove DEF DimEffect, DimUp
  <2>4. ASSUME Of[k][d] = i, ~InD(to, d), InD(from, d), active'[d][i] = Decremented(active[d][i])
        PROVE  DimEffect(d, i)
    BY Zenon, <2>4, <1>DimMove DEF DimEffect, DimDown
  <2> QED BY Zenon, <2>2, <2>3, <2>4
<1> USE DEF SameCounts, Entry
<1> DEFINE P == DimEffect(d, i)
<1>0. d = "type" \/ d = "namespace" BY Zenon DEF Dims
<1>s. /\ \A e : /\ ~InD(S("new", e), d) /\ ~InD(S("check", e), d) /\ ~InD(S("overflow", e), d)
               /\ ~InD(S("queued", e), d) /\ ~InD(S("rejected", e), d) /\ ~InD(S("done", e), d)
               /\ ~InD(S("dequeue", e), d) /\ InD(S("held", e), d)
      /\ ~InD(S("commit", "global"), d) /\ ~InD(S("commit", "type"), d)
      /\ InD(S("commit", "namespace"), d) <=> d = "type"
      /\ InD(S("release", "type"), d)
      /\ InD(S("release", "namespace"), d) <=> d = "namespace"
      /\ \A e : S("commit", e).at = "commit"
  BY Zenon, <1>0 DEF S, InD
<1>1. CASE AcquireOver(k) BY Zenon, <1>1, <1>s, <1>DimMoveEffect DEF AcquireOver
<1>2. CASE AcquirePass(k) BY Zenon, <1>2, <1>s, <1>DimMoveEffect DEF AcquirePass
<1>3. ASSUME NEW e \in Dims, CheckOver(k, e) PROVE P
  BY Zenon, <1>3, <1>s, <1>DimMoveEffect DEF CheckOver
<1>4. ASSUME NEW e \in Dims, CheckPass(k, e) PROVE P
  <2>1. active'[d][i] \in {active[d][i], Count(d, i)} BY Zenon, <1>4 DEF CheckPass
  <2>2. CASE e = "type" BY Zenon, <1>4, <2>1, <2>2, <1>s, <1>DimMoveEffect DEF CheckPass
  <2>3. CASE e # "type" BY Zenon, <1>4, <2>1, <2>3, <1>s, <1>DimMoveEffect DEF CheckPass
  <2> QED BY Zenon, <2>2, <2>3
<1>5. ASSUME NEW e \in Dims, ReleaseIn(k, e) PROVE P
  <2>1. active'[d][i] = IF d = e /\ i = Of[k][e] THEN Decremented(active[d][i]) ELSE active[d][i]
    BY Zenon, <1>5 DEF ReleaseIn
  <2>2. CASE e = "type"
    <3>1. Go(k, S("release", "type"), S("release", "namespace")) BY Zenon, <1>5, <2>2 DEF ReleaseIn
    <3>2. CASE d = e /\ Of[k][d] = i BY Zenon, <2>1, <2>2, <3>1, <3>2, <1>s, <1>DimMoveEffect
    <3>3. CASE ~(d = e /\ Of[k][d] = i) BY Zenon, <1>0, <2>1, <2>2, <3>1, <3>3, <1>s, <1>DimMoveEffect
    <3> QED BY Zenon, <3>2, <3>3
  <2>3. CASE e = "namespace"
    <3>1. Go(k, S("release", "namespace"), S("dequeue", "global")) BY Zenon, <1>5, <2>3 DEF ReleaseIn
    <3>2. CASE d = e /\ Of[k][d] = i BY Zenon, <2>1, <2>3, <3>1, <3>2, <1>s, <1>DimMoveEffect
    <3>3. CASE ~(d = e /\ Of[k][d] = i) BY Zenon, <1>0, <2>1, <2>3, <3>1, <3>3, <1>s, <1>DimMoveEffect
    <3> QED BY Zenon, <3>2, <3>3
  <2> QED BY Zenon, <2>2, <2>3 DEF Dims
<1>6. ASSUME NEW e \in Dims \cup {"none"}, OverQueued(k, e) PROVE P
  BY Zenon, <1>6, <1>s, <1>DimMoveEffect DEF OverQueued
<1>7. ASSUME NEW e \in Dims \cup {"none"}, OverRejected(k, e) PROVE P
  BY Zenon, <1>7, <1>s, <1>DimMoveEffect DEF OverRejected
<1>8. CASE CommitOne(k) BY Zenon, <1>8, <1>s, <1>DimMoveEffect DEF CommitOne
<1>9. CASE CommitType(k)
  <2>1. active'[d][i] = IF d = "type" /\ i = Of[k]["type"] THEN Incremented(active[d][i]) ELSE active[d][i]
    BY Zenon, <1>9 DEF CommitType
  <2>2. Go(k, S("commit", "type"), S("commit", "namespace")) BY Zenon, <1>9 DEF CommitType
  <2>3. CASE d = "type" /\ Of[k][d] = i BY Zenon, <2>1, <2>2, <2>3, <1>s, <1>DimMoveEffect
  <2>4. CASE ~(d = "type" /\ Of[k][d] = i) BY Zenon, <1>0, <2>1, <2>2, <2>4, <1>s, <1>DimMoveEffect
  <2> QED BY Zenon, <2>3, <2>4
<1>10. CASE CommitOwn(k)
  <2>1. active'[d][i] = IF d = "namespace" /\ i = Of[k]["namespace"]
                        THEN Incremented(active[d][i]) ELSE active[d][i]
    BY Zenon, <1>10 DEF CommitOwn
  <2>2. Go(k, S("commit", "namespace"), S("held", "none")) BY Zenon, <1>10 DEF CommitOwn
  <2>3. CASE d = "namespace" /\ Of[k][d] = i BY Zenon, <2>1, <2>2, <2>3, <1>s, <1>DimMoveEffect
  <2>4. CASE ~(d = "namespace" /\ Of[k][d] = i) BY Zenon, <1>0, <2>1, <2>2, <2>4, <1>s, <1>DimMoveEffect
  <2> QED BY Zenon, <2>3, <2>4
<1>11. CASE CommitHead(k)
  <2> DEFINE j == lock["queue"]
  <2>1. active'[d][i] = IF d = "namespace" /\ i = Of[k]["namespace"]
                        THEN Incremented(active[d][i]) ELSE active[d][i]
    BY Zenon, <1>11 DEF CommitHead
  <2>2. /\ pc[k] = S("commit", "namespace") /\ j \in Keys \ {k}
        /\ pc'[k] = S("held", "none") /\ pc'[j] = S("done", "none") /\ pc[j].at = "admitting"
        /\ \A x \in Keys \ {k, j} : pc'[x] = pc[x]
    <3>1. Go2(k, S("commit", "namespace"), S("held", "none"), j, S("done", "none"))
          /\ pc[j].at = "admitting"
      BY Zenon, <1>11 DEF CommitHead
    <3> QED BY SMTT(30), <3>1, Moved2
  <2>3. InDim(d, i) \in SUBSET Keys /\ InDim(d, i)' \in SUBSET Keys BY Zenon DEF InDim
  <2>4. \A x \in Keys \ {k} : x \in InDim(d, i)' <=> x \in InDim(d, i)
    BY SMTT(30), <2>2 DEF InDim, At, S
  <2>5. k \in InDim(d, i) <=> Of[k][d] = i /\ d = "type" BY SMTT(30), <1>0, <2>2 DEF InDim, At, S
  <2>6. k \in InDim(d, i)' <=> Of[k][d] = i BY SMTT(30), <2>2 DEF InDim, At, S
  <2>7. CASE d = "namespace" /\ Of[k][d] = i
    <3>1. Cardinality(InDim(d, i)') = Cardinality(InDim(d, i)) + 1
      BY Zenon, <2>3, <2>4, <2>5, <2>6, <2>7, OneKey
    <3> QED BY Zenon, <1>s, <2>1, <2>2, <2>7, <3>1 DEF DimEffect, DimUp
  <2>8. CASE ~(d = "namespace" /\ Of[k][d] = i)
    <3>1. Cardinality(InDim(d, i)') = Cardinality(InDim(d, i))
      BY Zenon, <1>0, <2>3, <2>4, <2>5, <2>6, <2>8, OneKey
    <3> QED BY Zenon, <2>1, <2>8, <3>1 DEF DimEffect, DimSame
  <2> QED BY Zenon, <2>7, <2>8
<1>12. CASE ReleaseOne(k) BY Zenon, <1>12, <1>s, <1>DimMoveEffect DEF ReleaseOne
<1>13. ASSUME NEW e \in Dims \cup {"global"}, DequeueEnd(k, e) PROVE P
  BY Zenon, <1>13, <1>s, <1>DimMoveEffect DEF DequeueEnd
<1>14. CASE DequeuePass(k) BY Zenon, <1>14, <1>s, <1>DimMoveEffect DEF DequeuePass
<1>15. CASE DequeueType(k) BY Zenon, <1>15, <1>s, <1>DimMoveEffect DEF DequeueType
<1>16. CASE DequeueAdmit(k)
  <2>1. /\ pc[k] = S("dequeue", "namespace") /\ Head(queue) \in Keys \ {k}
        /\ pc'[k] = S("admitting", "none") /\ pc'[Head(queue)] = S("commit", "global")
        /\ pc[Head(queue)].at = "queued"
        /\ \A x \in Keys \ {k, Head(queue)} : pc'[x] = pc[x]
    <3>1. Go2(k, S("dequeue", "namespace"), S("admitting", "none"), Head(queue), S("commit", "global"))
          /\ pc[Head(queue)].at = "queued"
      BY Zenon, <1>16 DEF DequeueAdmit
    <3> QED BY SMTT(30), <3>1, Moved2
  <2>2. InDim(d, i)' = InDim(d, i) BY SMTT(30), <2>1 DEF InDim, At, S
  <2>3. active' = active BY Zenon, <1>16 DEF DequeueAdmit
  <2> QED BY Zenon, <2>2, <2>3 DEF DimEffect, DimSame
<1> QED BY Zenon, <1>1, <1>2, <1>3, <1>4, <1>5, <1>6, <1>7, <1>8, <1>9, <1>10, <1>11, <1>12, <1>13,
           <1>14, <1>15, <1>16 DEF Effect

\* An entry has a count, and none is ever removed.
LEMMA EntryStays ==
  ASSUME KeySizes, TypeOK, NEW k \in Keys, Effect(k), NEW d \in Dims, NEW i \in Ids
  PROVE  /\ active[d][i] \in Nat \cup {Absent} /\ Count(d, i) \in Nat
         /\ active[d][i] # Absent => active'[d][i] # Absent
<1>1. active[d][i] \in Nat \cup {Absent} BY Zenon DEF TypeOK
<1>2. Count(d, i) \in Nat BY Zenon, <1>1 DEF Count, Absent
<1>3. DimEffect(d, i) BY Zenon, DimEffects
<1>4. active'[d][i] \in {active[d][i], Count(d, i), Incremented(active[d][i]), Decremented(active[d][i])}
  BY Zenon, <1>3 DEF DimEffect, DimSame, DimUp, DimDown
<1>5. active[d][i] # Absent => active[d][i] \in Nat BY Zenon, <1>1
<1>6. active[d][i] \in Nat => /\ Incremented(active[d][i]) # Absent
                              /\ Decremented(active[d][i]) # Absent
  BY DEF Incremented, Decremented, Absent
<1>7. Count(d, i) # Absent BY SMTT(30), <1>2 DEF Absent
<1> QED BY Zenon, <1>1, <1>2, <1>4, <1>5, <1>6, <1>7

\* Every step keeps the entries.
LEMMA EntryStep ==
  ASSUME KeySizes, TypeOK, HolderInv, QueueInv, EntryInv, policy' = policy, NEW k \in Keys, Effect(k)
  PROVE  EntryInv'
\* The entries a call needs, when one key moves.
<1>EntryMove.
  ASSUME policy' = policy,
         NEW from, NEW to, Go(k, from, to),
         to.at \in {"commit", "held", "release"} =>
           from.at \in {"commit", "held", "release"}
             \/ (policy # "queue" => \A d \in Dims : active'[d][Of[k][d]] # Absent),
         to.at = "check" /\ to.d = "namespace" => active'["type"][Of[k]["type"]] # Absent
  PROVE  EntryInv'
  <2> USE <1>EntryMove
  <2> SUFFICES ASSUME policy # "queue", NEW x \in Keys
               PROVE  /\ pc'[x].at \in {"commit", "held", "release"} =>
                           \A d \in Dims : active'[d][Of[x][d]] # Absent
                      /\ pc'[x].at = "check" /\ pc'[x].d = "namespace"
                           => active'["type"][Of[x]["type"]] # Absent
    BY Zenon DEF EntryInv
  <2>1. pc[k] = from /\ pc'[k] = to /\ \A y \in Keys \ {k} : pc'[y] = pc[y] BY Zenon, Moved
  <2>2. "type" \in Dims /\ \A d \in Dims : Of[x][d] \in Ids BY Zenon, Types DEF Dims
  <2>3. \A d \in Dims : active[d][Of[x][d]] # Absent => active'[d][Of[x][d]] # Absent
    BY Zenon, <2>2, EntryStays
  <2>4. /\ pc[x].at \in {"commit", "held", "release"} => \A d \in Dims : active[d][Of[x][d]] # Absent
        /\ pc[x].at = "check" /\ pc[x].d = "namespace" => active["type"][Of[x]["type"]] # Absent
    BY Zenon DEF EntryInv
  <2>5. CASE x = k BY Zenon, <2>1, <2>2, <2>3, <2>4, <2>5
  <2>6. CASE x # k BY Zenon, <2>1, <2>2, <2>3, <2>4, <2>6
  <2> QED BY Zenon, <2>5, <2>6
<1> USE DEF S
<1>1. CASE AcquireOver(k) BY Zenon, <1>1, <1>EntryMove DEF AcquireOver
<1>2. CASE AcquirePass(k) BY Zenon, <1>2, <1>EntryMove DEF AcquirePass
<1>3. ASSUME NEW e \in Dims, CheckOver(k, e) PROVE EntryInv' BY Zenon, <1>3, <1>EntryMove DEF CheckOver
<1>4. ASSUME NEW e \in Dims, CheckPass(k, e) PROVE EntryInv'
  <2>1. /\ "type" \in Dims /\ "namespace" \in Dims
        /\ \A d \in Dims : Of[k][d] \in Ids /\ Count(d, Of[k][d]) \in Nat
    BY Zenon, Types, EntryStays DEF Dims
  <2>2. active'[e][Of[k][e]] # Absent BY SMTT(30), <1>4, <2>1 DEF CheckPass, Entry, Absent
  <2>3. CASE e = "type" BY Zenon, <1>4, <2>2, <2>3, <1>EntryMove DEF CheckPass
  <2>4. CASE e = "namespace"
    <3>1. pc[k] = S("check", "namespace") BY Zenon, <1>4, <2>4 DEF CheckPass, Go
    <3>2. policy # "queue" => active'["type"][Of[k]["type"]] # Absent
      BY SMTT(30), <2>1, <3>1, EntryStays DEF EntryInv
    <3>3. policy # "queue" => \A d \in Dims : active'[d][Of[k][d]] # Absent
      BY Zenon, <2>2, <2>4, <3>2 DEF Dims
    <3> QED BY Zenon, <1>4, <2>4, <3>3, <1>EntryMove DEF CheckPass
  <2> QED BY Zenon, <2>3, <2>4 DEF Dims
<1>5. ASSUME NEW e \in Dims, ReleaseIn(k, e) PROVE EntryInv'
  <2>1. CASE e = "type" BY Zenon, <1>5, <2>1, <1>EntryMove DEF ReleaseIn
  <2>2. CASE e # "type" BY Zenon, <1>5, <2>2, <1>EntryMove DEF ReleaseIn
  <2> QED BY Zenon, <2>1, <2>2
<1>6. ASSUME NEW e \in Dims \cup {"none"}, OverQueued(k, e) PROVE EntryInv'
  BY Zenon, <1>6, <1>EntryMove DEF OverQueued
<1>7. ASSUME NEW e \in Dims \cup {"none"}, OverRejected(k, e) PROVE EntryInv'
  BY Zenon, <1>7, <1>EntryMove DEF OverRejected
<1>8. CASE CommitOne(k) BY Zenon, <1>8, <1>EntryMove DEF CommitOne
<1>9. CASE CommitType(k) BY Zenon, <1>9, <1>EntryMove DEF CommitType
<1>10. CASE CommitOwn(k) BY Zenon, <1>10, <1>EntryMove DEF CommitOwn
<1>11. CASE CommitHead(k) BY Zenon, <1>11 DEF CommitHead, QueueInv, EntryInv
<1>12. CASE ReleaseOne(k) BY Zenon, <1>12, <1>EntryMove DEF ReleaseOne
<1>13. ASSUME NEW e \in Dims \cup {"global"}, DequeueEnd(k, e) PROVE EntryInv'
  BY Zenon, <1>13, <1>EntryMove DEF DequeueEnd
<1>14. CASE DequeuePass(k) BY Zenon, <1>14, <1>EntryMove DEF DequeuePass
<1>15. CASE DequeueType(k) BY Zenon, <1>15, <1>EntryMove DEF DequeueType
<1>16. CASE DequeueAdmit(k) BY Zenon, <1>16 DEF DequeueAdmit, QueueInv, EntryInv
<1> QED BY Zenon, <1>1, <1>2, <1>3, <1>4, <1>5, <1>6, <1>7, <1>8, <1>9, <1>10, <1>11, <1>12, <1>13,
           <1>14, <1>15, <1>16 DEF Effect

\* The counts by type and by namespace stay what they stand for.
LEMMA DimStep ==
  ASSUME KeySizes, TypeOK, EntryInv, DimInv, policy' = policy, NEW k \in Keys, Effect(k)
  PROVE  DimInv'
<1> SUFFICES ASSUME NEW d \in Dims, NEW i \in Ids
             PROVE  /\ Count(d, i)' <= Cardinality(InDim(d, i)')
                    /\ policy # "queue" => Count(d, i)' = Cardinality(InDim(d, i)')
  BY Zenon DEF DimInv
<1> DEFINE n == active[d][i]
           m == Cardinality(InDim(d, i))
           np == active'[d][i]
           mp == Cardinality(InDim(d, i)')
           c == Count(d, i)
           cp == Count(d, i)'
<1>1. n \in Nat \cup {Absent} BY Zenon, EntryStays
<1>2. InDim(d, i) \in SUBSET Keys /\ InDim(d, i)' \in SUBSET Keys BY Zenon DEF InDim
<1>3. m \in Nat /\ mp \in Nat BY Zenon, <1>2, SubSize
<1>4. c = (IF n = Absent THEN 0 ELSE n) /\ cp = (IF np = Absent THEN 0 ELSE np) BY Zenon DEF Count
<1>5. c <= m /\ (policy # "queue" => c = m) BY Zenon DEF DimInv
<1>6. DimEffect(d, i) BY Zenon, DimEffects
<1>7. \/ mp = m /\ np \in {n, c}
      \/ mp = m + 1 /\ np = Incremented(n)
      \/ m = mp + 1 /\ np = Decremented(n)
  BY Zenon, <1>6 DEF DimEffect, DimSame, DimUp, DimDown
<1>8. policy # "queue" /\ mp = m + 1 => n # Absent
  <2>1. SUFFICES ASSUME policy # "queue", mp = m + 1 PROVE n # Absent BY Zenon
  <2>2. mp # m /\ m # mp + 1 BY SMTT(30), <1>3, <2>1
  <2>3. DimUp(d, i) BY Zenon, <1>6, <2>2 DEF DimEffect, DimSame, DimDown
  <2> QED BY Zenon, <2>1, <2>3 DEF DimUp, EntryInv
<1> HIDE DEF n, m, np, mp, c, cp
<1>9. cp <= mp /\ (c = m /\ (mp = m + 1 => n # Absent) => cp = mp)
  BY SMTT(30), <1>1, <1>3, <1>4, <1>5, <1>7 DEF Incremented, Decremented, Absent
<1>10. cp <= mp /\ (policy # "queue" => cp = mp) BY Zenon, <1>5, <1>8, <1>9
<1> QED BY Zenon, <1>10 DEF cp, mp

-----------------------------------------------------------------------------
(* The reservations by type and by namespace *)

\* The key a call reserves for: its own, or the head of the queue.
For(k) == IF pc[k].at = "dequeue" THEN Head(queue) ELSE k

\* The calls that have passed the check of id i in dimension d.
PassedDim(d, i) ==
  {k \in Keys :
     /\ \/ d = "type" /\ pc[k].at = "check" /\ pc[k].d = "namespace"
        \/ d = "type" /\ pc[k].at = "dequeue" /\ pc[k].d = "namespace"
        \/ pc[k].at = "commit" /\ pc[k].d \in {"global", "type"}
        \/ d = "namespace" /\ pc[k].at = "commit" /\ pc[k].d = "namespace"
     /\ Of[For(k)][d] = i}

\* Counted or reserved, a limit is passed by less than the number of threads.
ReservedDimInv ==
  \A d \in Dims : \A i \in Ids :
    Limit[d] > 0 => Count(d, i) + Cardinality(PassedDim(d, i)) <= Limit[d] + MaxCalls - 1

\* The inductive invariant.
LimiterInv ==
  TypeOK /\ HolderInv /\ QueueInv /\ EntryInv /\ BusyInv
  /\ GlobalInv /\ DimInv /\ ReservedInv /\ ReservedDimInv

\* How an entry changes its count.
LEMMA CountAfter ==
  ASSUME TypeOK, NEW d \in Dims, NEW i \in Ids
  PROVE  /\ Count(d, i) \in Nat
         /\ active'[d][i] \in {active[d][i], Count(d, i)}
              => Count(d, i)' = Count(d, i) /\ Count(d, i)' <= Count(d, i)
         /\ active'[d][i] = Incremented(active[d][i]) => Count(d, i)' <= Count(d, i) + 1
         /\ active'[d][i] = Decremented(active[d][i]) => Count(d, i)' <= Count(d, i)
<1>1. active[d][i] \in Nat \cup {Absent} BY Zenon DEF TypeOK
<1>2. \A n, np \in Nat \cup {Absent} : \A c, cp :
        c = (IF n = Absent THEN 0 ELSE n) /\ cp = (IF np = Absent THEN 0 ELSE np) =>
          /\ c \in Nat
          /\ np \in {n, c} => cp = c /\ cp <= c
          /\ np = Incremented(n) => cp <= c + 1
          /\ np = Decremented(n) => cp <= c
  BY DEF Incremented, Decremented, Absent
<1>3. Count(d, i) = (IF active[d][i] = Absent THEN 0 ELSE active[d][i])
      /\ Count(d, i)' = (IF active'[d][i] = Absent THEN 0 ELSE active'[d][i])
  BY Zenon DEF Count
<1>4. Count(d, i) \in Nat BY <1>1, <1>3 DEF Absent
<1>5. Incremented(active[d][i]) \in Nat \cup {Absent} /\ Decremented(active[d][i]) \in Nat \cup {Absent}
  BY SMTT(30), <1>1 DEF Incremented, Decremented, Absent
<1>6. ASSUME active'[d][i] \in Nat \cup {Absent}
      PROVE  /\ active'[d][i] \in {active[d][i], Count(d, i)}
                  => Count(d, i)' = Count(d, i) /\ Count(d, i)' <= Count(d, i)
             /\ active'[d][i] = Incremented(active[d][i]) => Count(d, i)' <= Count(d, i) + 1
             /\ active'[d][i] = Decremented(active[d][i]) => Count(d, i)' <= Count(d, i)
  BY Zenon, <1>1, <1>2, <1>3, <1>6
<1> QED BY Zenon, <1>1, <1>4, <1>5, <1>6

\* The reservations are keys of calls.
LEMMA PassedDimKeys ==
  ASSUME KeySizes, NEW d \in Dims, NEW i \in Ids
  PROVE  /\ PassedDim(d, i) \in SUBSET Keys /\ PassedDim(d, i)' \in SUBSET Keys
         /\ PassedDim(d, i)' \subseteq Busy'
         /\ Cardinality(PassedDim(d, i)) \in Nat /\ Cardinality(PassedDim(d, i)') \in Nat
<1>1. PassedDim(d, i) \in SUBSET Keys /\ PassedDim(d, i)' \in SUBSET Keys BY Zenon DEF PassedDim
<1>2. PassedDim(d, i)' \subseteq Busy' BY Zenon DEF PassedDim, Busy, Outside
<1> QED BY Zenon, <1>1, <1>2, SubSize

\* A count and its reservations stay below the limit plus the threads.
LEMMA ReservedDimStep ==
  ASSUME KeySizes, TypeOK, TypeOK', HolderInv, BusyInv', ReservedDimInv, NEW k \in Keys, Effect(k)
  PROVE  ReservedDimInv'
<1> SUFFICES ASSUME NEW d \in Dims, NEW i \in Ids, Limit[d] > 0
             PROVE  Count(d, i)' + Cardinality(PassedDim(d, i)') <= Limit[d] + MaxCalls - 1
  BY Zenon DEF ReservedDimInv
<1> DEFINE PD(s, e) == \/ e = "type" /\ s.at \in {"check", "dequeue"} /\ s.d = "namespace"
                       \/ s.at = "commit" /\ s.d \in {"global", "type"}
                       \/ e = "namespace" /\ s.at = "commit" /\ s.d = "namespace"
<1> DEFINE ForAt(s, x) == IF s.at = "dequeue" THEN Head(queue) ELSE x
<1> DEFINE Reserves(s, x, e, n) == PD(s, e) /\ Of[ForAt(s, x)][e] = n
\* What a step does to a count and its reservations together.
<1> DEFINE DimReserve(e, n) ==
             \/ Count(e, n)' <= Count(e, n) /\ Cardinality(PassedDim(e, n)') <= Cardinality(PassedDim(e, n))
             \/ /\ Count(e, n)' <= Count(e, n) + 1
                /\ Cardinality(PassedDim(e, n)) = Cardinality(PassedDim(e, n)') + 1
             \/ Count(e, n)' = Count(e, n) /\ Count(e, n) < Limit[e]
<1> HIDE DEF PD, ForAt, Reserves, DimReserve
\* A key is in the set as its stage says.
<1>ReservesAt.
  ASSUME NEW x \in Keys
  PROVE  /\ x \in PassedDim(d, i) <=> Reserves(pc[x], x, d, i)
         /\ queue' = queue \/ pc'[x].at # "dequeue"
              => (x \in PassedDim(d, i)' <=> Reserves(pc'[x], x, d, i))
  BY Zenon DEF PassedDim, For, Reserves, PD, ForAt
\* The reservations, when one key moves.
<1>PassedMove.
  ASSUME NEW from, NEW to, Go(k, from, to),
         queue' = queue \/ (lock["queue"] = NoOne /\ to.at # "dequeue")
  PROVE  /\ (Reserves(to, k, d, i) => Reserves(from, k, d, i))
              => Cardinality(PassedDim(d, i)') <= Cardinality(PassedDim(d, i))
         /\ Reserves(from, k, d, i) /\ ~Reserves(to, k, d, i)
              => Cardinality(PassedDim(d, i)) = Cardinality(PassedDim(d, i)') + 1
  <2> USE <1>PassedMove
  <2>1. pc[k] = from /\ pc'[k] = to /\ \A x \in Keys \ {k} : pc'[x] = pc[x] BY Zenon, Moved
  <2>2. /\ k \in PassedDim(d, i) <=> Reserves(from, k, d, i)
        /\ k \in PassedDim(d, i)' <=> Reserves(to, k, d, i)
    BY Zenon, <2>1, <1>ReservesAt
  <2>3. ASSUME NEW x \in Keys \ {k} PROVE x \in PassedDim(d, i)' <=> x \in PassedDim(d, i)
    <3>1. CASE queue' = queue BY Zenon, <2>1, <3>1, <1>ReservesAt
    <3>2. CASE queue' # queue
      <4>1. ~(pc[x].at = "dequeue" /\ pc[x].d # "global") BY Zenon, <3>2, LimiterAssumption DEF HolderInv
      <4>2. PD(pc[x], d) => pc[x].at # "dequeue" BY Zenon, <4>1 DEF PD
      <4> QED BY Zenon, <2>1, <4>2 DEF PassedDim, For, PD
    <3> QED BY Zenon, <3>1, <3>2
  <2>4. PassedDim(d, i) \in SUBSET Keys /\ PassedDim(d, i)' \in SUBSET Keys BY Zenon, PassedDimKeys
  <2>5. (Reserves(to, k, d, i) => Reserves(from, k, d, i)) => PassedDim(d, i)' \subseteq PassedDim(d, i)
    BY Zenon, <2>2, <2>3, <2>4
  <2>6. PassedDim(d, i)' \subseteq PassedDim(d, i)
          => Cardinality(PassedDim(d, i)') <= Cardinality(PassedDim(d, i))
    BY Zenon, <2>4, SubSize
  <2>7. Reserves(from, k, d, i) /\ ~Reserves(to, k, d, i)
          => Cardinality(PassedDim(d, i)) = Cardinality(PassedDim(d, i)') + 1
    BY Zenon, <2>2, <2>3, <2>4, OneKey
  <2> QED BY Zenon, <2>5, <2>6, <2>7
\* Enough for each effect, when one key moves.
<1>ReserveMove.
  ASSUME NEW from, NEW to, Go(k, from, to),
         queue' = queue \/ (lock["queue"] = NoOne /\ to.at # "dequeue")
  PROVE  /\ (Reserves(to, k, d, i) => Reserves(from, k, d, i)) /\ Count(d, i)' <= Count(d, i)
              => DimReserve(d, i)
         /\ Reserves(from, k, d, i) /\ ~Reserves(to, k, d, i) /\ Count(d, i)' <= Count(d, i) + 1
              => DimReserve(d, i)
  BY Zenon, <1>ReserveMove, <1>PassedMove DEF DimReserve
\* Every step has such an effect, where the limit is not zero.
<1>ReserveEffects.
         DimReserve(d, i)
  <2> USE DEF SameQueue, SameCounts, Entry
  <2> DEFINE P == DimReserve(d, i)
  <2>0. d = "type" \/ d = "namespace" BY Zenon DEF Dims
  <2>s. /\ \A e : /\ ~Reserves(S("new", e), k, d, i) /\ ~Reserves(S("overflow", e), k, d, i)
                 /\ ~Reserves(S("queued", e), k, d, i) /\ ~Reserves(S("rejected", e), k, d, i)
                 /\ ~Reserves(S("done", e), k, d, i) /\ ~Reserves(S("held", e), k, d, i)
                 /\ ~Reserves(S("release", e), k, d, i)
        /\ ~Reserves(S("check", "type"), k, d, i)
        /\ Reserves(S("check", "namespace"), k, d, i) <=> d = "type" /\ Of[k][d] = i
        /\ Reserves(S("commit", "global"), k, d, i) <=> Of[k][d] = i
        /\ Reserves(S("commit", "type"), k, d, i) <=> Of[k][d] = i
        /\ Reserves(S("commit", "namespace"), k, d, i) <=> d = "namespace" /\ Of[k][d] = i
        /\ ~Reserves(S("dequeue", "global"), k, d, i) /\ ~Reserves(S("dequeue", "type"), k, d, i)
        /\ Reserves(S("dequeue", "namespace"), k, d, i) <=> d = "type" /\ Of[Head(queue)][d] = i
        /\ \A e : S("queued", e).at # "dequeue"
    BY Zenon, <2>0 DEF S, Reserves, PD, ForAt
  <2>a. SameCounts => Count(d, i)' <= Count(d, i) /\ Count(d, i)' = Count(d, i) BY Zenon, CountAfter
  <2>1. CASE AcquireOver(k) BY Zenon, <2>1, <2>a, <2>s, <1>ReserveMove DEF AcquireOver
  <2>2. CASE AcquirePass(k) BY Zenon, <2>2, <2>a, <2>s, <1>ReserveMove DEF AcquirePass
  <2>3. ASSUME NEW e \in Dims, CheckOver(k, e) PROVE P
    <3>1. active'[d][i] \in {active[d][i], Count(d, i)} BY Zenon, <2>3 DEF CheckOver
    <3>2. Count(d, i)' <= Count(d, i) BY Zenon, <3>1, CountAfter
    <3> QED BY Zenon, <2>3, <3>2, <2>s, <1>ReserveMove DEF CheckOver
  <2>4. ASSUME NEW e \in Dims, CheckPass(k, e) PROVE P
    <3>1. active'[d][i] \in {active[d][i], Count(d, i)} BY Zenon, <2>4 DEF CheckPass
    <3>2. Count(d, i)' <= Count(d, i) /\ Count(d, i)' = Count(d, i) BY Zenon, <3>1, CountAfter
    <3>3. CASE d = e /\ i = Of[k][e] BY Zenon, <2>4, <3>2, <3>3 DEF CheckPass, DimReserve
    <3>4. CASE ~(d = e /\ i = Of[k][e]) /\ e = "type"
      BY Zenon, <2>0, <2>4, <3>2, <3>4, <2>s, <1>ReserveMove DEF CheckPass
    <3>5. CASE ~(d = e /\ i = Of[k][e]) /\ e = "namespace"
      BY Zenon, <2>0, <2>4, <3>2, <3>5, <2>s, <1>ReserveMove DEF CheckPass
    <3> QED BY Zenon, <3>3, <3>4, <3>5 DEF Dims
  <2>5. ASSUME NEW e \in Dims, ReleaseIn(k, e) PROVE P
    <3>1. active'[d][i] \in {active[d][i], Decremented(active[d][i])} BY Zenon, <2>5 DEF ReleaseIn
    <3>2. Count(d, i)' <= Count(d, i) BY Zenon, <3>1, CountAfter
    <3>3. CASE e = "type"
      <4>1. Go(k, S("release", "type"), S("release", "namespace")) /\ queue' = queue
        BY Zenon, <2>5, <3>3 DEF ReleaseIn
      <4> QED BY Zenon, <3>2, <4>1, <2>s, <1>ReserveMove
    <3>4. CASE e # "type" BY Zenon, <2>5, <3>2, <3>4, <2>s, <1>ReserveMove DEF ReleaseIn
    <3> QED BY Zenon, <3>3, <3>4
  <2>6. ASSUME NEW e \in Dims \cup {"none"}, OverQueued(k, e) PROVE P
    BY Zenon, <2>6, <2>a, <2>s, <1>ReserveMove DEF OverQueued
  <2>7. ASSUME NEW e \in Dims \cup {"none"}, OverRejected(k, e) PROVE P
    BY Zenon, <2>7, <2>a, <2>s, <1>ReserveMove DEF OverRejected
  <2>8. CASE CommitOne(k)
    <3>1. Count(d, i)' <= Count(d, i) BY Zenon, <2>8, CountAfter DEF CommitOne
    <3> QED BY Zenon, <2>8, <3>1, <2>s, <1>ReserveMove DEF CommitOne
  <2>9. CASE CommitType(k)
    <3>1. active'[d][i] = IF d = "type" /\ i = Of[k]["type"] THEN Incremented(active[d][i]) ELSE active[d][i]
      BY Zenon, <2>9 DEF CommitType
    <3>2. CASE d = "type" /\ i = Of[k]["type"]
      <4>1. Count(d, i)' <= Count(d, i) + 1 BY Zenon, <3>1, <3>2, CountAfter
      <4> QED BY Zenon, <2>9, <3>2, <4>1, <2>s, <1>ReserveMove DEF CommitType
    <3>3. CASE ~(d = "type" /\ i = Of[k]["type"])
      <4>1. Count(d, i)' <= Count(d, i) BY Zenon, <3>1, <3>3, CountAfter
      <4> QED BY Zenon, <2>0, <2>9, <3>3, <4>1, <2>s, <1>ReserveMove DEF CommitType
    <3> QED BY Zenon, <3>2, <3>3
  <2>10. CASE CommitOwn(k)
    <3>1. active'[d][i] = IF d = "namespace" /\ i = Of[k]["namespace"]
                          THEN Incremented(active[d][i]) ELSE active[d][i]
      BY ZenonT(40), <2>10 DEF CommitOwn
    <3>2. CASE d = "namespace" /\ i = Of[k]["namespace"]
      <4>1. Count(d, i)' <= Count(d, i) + 1 BY Zenon, <3>1, <3>2, CountAfter
      <4>2. Go(k, S("commit", "namespace"), S("held", "none")) /\ queue' = queue
        BY Zenon, <2>10 DEF CommitOwn
      <4>3. Reserves(S("commit", "namespace"), k, d, i) BY Zenon, <2>s, <3>2
      <4>4. ~Reserves(S("held", "none"), k, d, i) BY Zenon, <2>s
      <4> QED BY ZenonT(40), <4>1, <4>2, <4>3, <4>4, <1>ReserveMove
    <3>3. CASE ~(d = "namespace" /\ i = Of[k]["namespace"])
      <4>1. Count(d, i)' <= Count(d, i) BY Zenon, <3>1, <3>3, CountAfter
      <4> QED BY Zenon, <2>0, <2>10, <3>3, <4>1, <2>s, <1>ReserveMove DEF CommitOwn
    <3> QED BY Zenon, <3>2, <3>3
  <2>11. CASE CommitHead(k)
    <3> DEFINE j == lock["queue"]
    <3>1. active'[d][i] = IF d = "namespace" /\ i = Of[k]["namespace"]
                          THEN Incremented(active[d][i]) ELSE active[d][i]
      BY ZenonT(40), <2>11 DEF CommitHead
    <3>2. /\ pc[k] = S("commit", "namespace") /\ j \in Keys \ {k}
          /\ pc'[k] = S("held", "none") /\ pc'[j] = S("done", "none") /\ pc[j].at = "admitting"
          /\ \A x \in Keys \ {k, j} : pc'[x] = pc[x]
      <4>1. Go2(k, S("commit", "namespace"), S("held", "none"), j, S("done", "none"))
            /\ pc[j].at = "admitting"
        BY Zenon, <2>11 DEF CommitHead
      <4> QED BY SMTT(30), <4>1, Moved2
    <3>3. PassedDim(d, i) \in SUBSET Keys /\ PassedDim(d, i)' \in SUBSET Keys BY Zenon, PassedDimKeys
    <3>4. \A x \in Keys : ~(pc[x].at = "dequeue" /\ pc[x].d # "global") BY Zenon, <3>2 DEF HolderInv
    <3>5. \A x \in Keys \ {k, j} : x \in PassedDim(d, i)' <=> x \in PassedDim(d, i)
      BY ZenonT(40), <3>2, <3>4 DEF PassedDim, For
    <3>6. j \notin PassedDim(d, i) /\ j \notin PassedDim(d, i)' BY SMTT(30), <3>2 DEF PassedDim, S
    <3>7. k \notin PassedDim(d, i)' BY SMTT(30), <3>2 DEF PassedDim, S
    <3>8. d = "namespace" /\ i = Of[k]["namespace"] => k \in PassedDim(d, i)
      BY SMTT(30), <3>2 DEF PassedDim, For, S
    <3>9. CASE d = "namespace" /\ i = Of[k]["namespace"]
      <4>1. Count(d, i)' <= Count(d, i) + 1 BY Zenon, <3>1, <3>9, CountAfter
      <4>2. Cardinality(PassedDim(d, i)) = Cardinality(PassedDim(d, i)') + 1
        BY SMTT(30), <3>3, <3>5, <3>6, <3>7, <3>8, <3>9, OneKey
      <4> QED BY ZenonT(40), <4>1, <4>2 DEF DimReserve
    <3>10. CASE ~(d = "namespace" /\ i = Of[k]["namespace"])
      <4>1. Count(d, i)' <= Count(d, i) BY Zenon, <3>1, <3>10, CountAfter
      <4>2. PassedDim(d, i)' \subseteq PassedDim(d, i) BY Zenon, <3>3, <3>5, <3>6, <3>7
      <4> QED BY Zenon, <3>3, <4>1, <4>2, SubSize DEF DimReserve
    <3> QED BY Zenon, <3>9, <3>10
  <2>12. CASE ReleaseOne(k)
    <3>1. Count(d, i)' <= Count(d, i) BY Zenon, <2>12, CountAfter DEF ReleaseOne
    <3> QED BY Zenon, <2>12, <3>1, <2>s, <1>ReserveMove DEF ReleaseOne
  <2>13. ASSUME NEW e \in Dims \cup {"global"}, DequeueEnd(k, e) PROVE P
    BY Zenon, <2>13, <2>a, <2>s, <1>ReserveMove DEF DequeueEnd
  <2>14. CASE DequeuePass(k) BY Zenon, <2>14, <2>a, <2>s, <1>ReserveMove DEF DequeuePass
  <2>15. CASE DequeueType(k)
    <3>1. Count(d, i)' <= Count(d, i) /\ Count(d, i)' = Count(d, i)
      BY Zenon, <2>15, <2>a DEF DequeueType
    <3>2. CASE d = "type" /\ i = Of[Head(queue)]["type"]
      <4>1. Count(d, i) < Limit[d] BY Zenon, <2>15, <3>2 DEF DequeueType, Count
      <4> QED BY Zenon, <3>1, <4>1 DEF DimReserve
    <3>3. CASE ~(d = "type" /\ i = Of[Head(queue)]["type"])
      BY Zenon, <2>15, <3>1, <3>3, <2>s, <1>ReserveMove DEF DequeueType
    <3> QED BY Zenon, <3>2, <3>3
  <2>16. CASE DequeueAdmit(k)
    <3> DEFINE h == Head(queue)
    <3>1. /\ pc[k] = S("dequeue", "namespace") /\ h \in Keys \ {k}
          /\ pc'[k] = S("admitting", "none") /\ pc'[h] = S("commit", "global")
          /\ pc[h].at = "queued"
          /\ \A x \in Keys \ {k, h} : pc'[x] = pc[x]
      <4>1. Go2(k, S("dequeue", "namespace"), S("admitting", "none"), Head(queue), S("commit", "global"))
            /\ pc[Head(queue)].at = "queued"
        BY Zenon, <2>16 DEF DequeueAdmit
      <4> QED BY SMTT(30), <4>1, Moved2
    <3>2. queue' = queue BY Zenon, <2>16 DEF DequeueAdmit
    <3>3. Count(d, i)' <= Count(d, i) /\ Count(d, i)' = Count(d, i)
      BY Zenon, <2>16, <2>a DEF DequeueAdmit
    <3>4. PassedDim(d, i) \in SUBSET Keys /\ PassedDim(d, i)' \in SUBSET Keys BY Zenon, PassedDimKeys
    <3>5. \A x \in Keys \ {k, h} : x \in PassedDim(d, i)' <=> x \in PassedDim(d, i)
      BY ZenonT(40), <3>1, <3>2 DEF PassedDim, For
    <3>6. h \notin PassedDim(d, i) /\ k \notin PassedDim(d, i)' BY SMTT(30), <3>1 DEF PassedDim, S
    <3>7. h \in PassedDim(d, i)' <=> Of[h][d] = i BY SMTT(30), <3>1 DEF PassedDim, For, S
    <3>8. CASE Of[h][d] # i
      <4>1. PassedDim(d, i)' \subseteq PassedDim(d, i) BY Zenon, <3>4, <3>5, <3>6, <3>7, <3>8
      <4> QED BY Zenon, <3>3, <3>4, <4>1, SubSize DEF DimReserve
    <3>9. CASE Of[h][d] = i /\ d = "type"
      <4>1. k \in PassedDim(d, i) BY SMTT(30), <3>1, <3>9 DEF PassedDim, For, S
      <4>2. Cardinality(PassedDim(d, i)') = Cardinality(PassedDim(d, i))
        BY SMTT(30), <3>1, <3>4, <3>5, <3>6, <3>7, <3>9, <4>1, SwapKeys
      <4>3. Cardinality(PassedDim(d, i)) \in Nat BY Zenon, PassedDimKeys
      <4> QED BY SMTT(30), <3>3, <4>2, <4>3 DEF DimReserve
    <3>10. CASE Of[h][d] = i /\ d = "namespace"
      <4>1. Count(d, i) < Limit[d] BY Zenon, <2>16, <3>10 DEF DequeueAdmit, Count
      <4> QED BY Zenon, <3>3, <4>1 DEF DimReserve
    <3> QED BY ZenonT(40), <2>0, <3>8, <3>9, <3>10
  <2> QED BY Zenon, <2>1, <2>2, <2>3, <2>4, <2>5, <2>6, <2>7, <2>8, <2>9, <2>10, <2>11, <2>12, <2>13,
             <2>14, <2>15, <2>16 DEF Effect
\* Arithmetic of a count, its reservations, a limit and the threads.
<1>ReserveStep.
  ASSUME NEW c \in Nat, NEW cp \in Nat, NEW p \in Nat, NEW pp \in Nat,
         NEW l \in Nat, NEW t \in Nat, c + p <= l + t - 1, pp <= t,
         \/ cp <= c /\ pp <= p
         \/ cp <= c + 1 /\ p = pp + 1
         \/ cp = c /\ c < l
  PROVE  cp + pp <= l + t - 1
  BY SMTT(30), <1>ReserveStep
<1>1. DimReserve(d, i) BY Zenon, <1>ReserveEffects
<1>2. Count(d, i) \in Nat BY Zenon, CountAfter
<1>3. Count(d, i)' \in Nat
  <2>1. active'[d][i] \in Nat \cup {Absent} BY Zenon DEF TypeOK
  <2>2. Count(d, i)' = (IF active'[d][i] = Absent THEN 0 ELSE active'[d][i]) BY Zenon DEF Count
  <2> QED BY SMTT(30), <2>1, <2>2
<1>4. Cardinality(PassedDim(d, i)) \in Nat /\ Cardinality(PassedDim(d, i)') \in Nat
  BY Zenon, PassedDimKeys
<1>5. Limit[d] \in Nat /\ MaxCalls \in Nat BY Zenon, LimiterAssumption
<1>6. Cardinality(PassedDim(d, i)') <= MaxCalls
  <2>1. Cardinality(PassedDim(d, i)') <= Cardinality(Busy') /\ Cardinality(Busy') \in Nat
    BY Zenon, PassedDimKeys, KeySets, SubSize
  <2>2. Cardinality(Busy') <= MaxCalls BY Zenon DEF BusyInv
  <2> QED BY SMTT(30), <1>4, <1>5, <2>1, <2>2
<1>7. Count(d, i) + Cardinality(PassedDim(d, i)) <= Limit[d] + MaxCalls - 1 BY Zenon DEF ReservedDimInv
<1> QED BY SMTT(30), <1>1, <1>2, <1>3, <1>4, <1>5, <1>6, <1>7, <1>ReserveStep DEF DimReserve

\* Nothing is counted or reserved by calls that have not started.
LEMMA NoneInside ==
  ASSUME \A k \in Keys : pc[k].at = "new"
  PROVE  /\ Busy = {} /\ InGlobal = {} /\ Passed = {}
         /\ \A d \in Dims : \A i \in Ids : InDim(d, i) = {} /\ PassedDim(d, i) = {}
<1>1. Busy = {} BY Zenon DEF Busy, Outside
<1>2. InGlobal = {} BY Zenon DEF InGlobal
<1>3. Passed = {} BY ZenonT(40) DEF Passed
<1>4. \A d \in Dims : \A i \in Ids : InDim(d, i) = {} BY SMTT(30) DEF InDim, At
<1>5. \A d \in Dims : \A i \in Ids : PassedDim(d, i) = {} BY Zenon DEF PassedDim
<1> QED BY Zenon, <1>1, <1>2, <1>3, <1>4, <1>5

\* The sets that the counts stand for depend on the calls' stages and the queue.
LEMMA SameSets ==
  ASSUME pc' = pc, queue' = queue, active' = active
  PROVE  /\ Busy' = Busy /\ InGlobal' = InGlobal /\ Passed' = Passed
         /\ \A d \in Dims : \A i \in Ids :
              Count(d, i)' = Count(d, i) /\ InDim(d, i)' = InDim(d, i) /\ PassedDim(d, i)' = PassedDim(d, i)
<1>1. Busy' = Busy BY Zenon DEF Busy, Outside
<1>2. InGlobal' = InGlobal BY Zenon DEF InGlobal
<1>3. Passed' = Passed BY Zenon DEF Passed
<1>4. ASSUME NEW d \in Dims, NEW i \in Ids PROVE Count(d, i)' = Count(d, i) BY Zenon DEF Count
<1>5. ASSUME NEW d \in Dims, NEW i \in Ids PROVE InDim(d, i)' = InDim(d, i) BY Zenon DEF InDim, At
<1>6. ASSUME NEW d \in Dims, NEW i \in Ids PROVE PassedDim(d, i)' = PassedDim(d, i)
  BY Zenon DEF PassedDim, For
<1> QED BY Zenon, <1>1, <1>2, <1>3, <1>4, <1>5, <1>6

\* The inductive invariant holds at the start, when nothing is counted,
\* reserved or queued.
LEMMA InitInv ==
  ASSUME KeySizes, Init
  PROVE  LimiterInv
<1>1. TypeOK BY Zenon, InitTypes
<1>2. \A k \in Keys : pc[k].at = "new" BY Zenon DEF Init
<1>3. /\ Busy = {} /\ InGlobal = {} /\ Passed = {}
      /\ \A d \in Dims : \A i \in Ids : InDim(d, i) = {} /\ PassedDim(d, i) = {}
  BY Zenon, <1>2, NoneInside
<1>4. Cardinality({}) = 0 BY Zenon DEF KeySizes
<1>5. \A d \in Dims : \A i \in Ids : Count(d, i) = 0 BY Zenon DEF Init, Count
<1>6. lock["queue"] = NoOne /\ queue = <<>> BY Zenon DEF Init, Locks
<1>7. HolderInv BY ZenonT(40), <1>2, <1>6 DEF HolderInv
<1>8. QueueInv BY SMTT(30), <1>2, <1>6 DEF QueueInv
<1>9. EntryInv BY Zenon, <1>2 DEF EntryInv
<1>10. BusyInv /\ ReservedInv
  <2>1. InGlobal \cup Passed = {} BY Zenon, <1>3
  <2>2. MaxCalls \in Nat \ {0} /\ MaxGlobal \in Nat BY Zenon, LimiterAssumption
  <2> QED BY SMTT(30), <1>3, <1>4, <2>1, <2>2 DEF BusyInv, ReservedInv
<1>11. GlobalInv BY Zenon, <1>3, <1>4 DEF GlobalInv, Init
<1>12. DimInv
  <2>1. 0 <= 0 OBVIOUS
  <2> QED BY Zenon, <1>3, <1>4, <1>5, <2>1 DEF DimInv
<1>13. ReservedDimInv
  <2>1. SUFFICES ASSUME NEW d \in Dims, NEW i \in Ids, Limit[d] > 0
                 PROVE  Count(d, i) + Cardinality(PassedDim(d, i)) <= Limit[d] + MaxCalls - 1
    BY Zenon DEF ReservedDimInv
  <2>2. Count(d, i) = 0 /\ Cardinality(PassedDim(d, i)) = 0 BY Zenon, <1>3, <1>4, <1>5
  <2>3. MaxCalls \in Nat \ {0} /\ Limit[d] \in Nat BY Zenon, LimiterAssumption
  <2> QED BY SMTT(30), <2>1, <2>2, <2>3
<1> QED BY Zenon, <1>1, <1>7, <1>8, <1>9, <1>10, <1>11, <1>12, <1>13 DEF LimiterInv

\* Every step keeps it.
LEMMA NextInv ==
  ASSUME KeySizes, LimiterInv, [Next]_vars
  PROVE  LimiterInv'
<1>1. TypeOK /\ HolderInv /\ QueueInv /\ EntryInv /\ BusyInv /\ GlobalInv /\ DimInv
      /\ ReservedInv /\ ReservedDimInv
  BY Zenon DEF LimiterInv
<1>2. TypeOK' BY Zenon, <1>1, TypeStep
<1>3. CASE Next
  <2>1. policy' = policy BY Zenon, <1>1, <1>3, Effects
  <2>2. PICK k \in Keys : Effect(k) BY Zenon, <1>1, <1>3, Effects
  <2>3. HolderInv' /\ QueueInv' BY Zenon, <1>1, <2>1, <2>2, QueueStep
  <2>4. BusyInv' /\ GlobalInv' /\ ReservedInv' BY Zenon, <1>1, <2>2, GlobalStep
  <2>5. EntryInv' BY Zenon, <1>1, <2>1, <2>2, EntryStep
  <2>6. DimInv' BY Zenon, <1>1, <2>1, <2>2, DimStep
  <2>7. ReservedDimInv' BY Zenon, <1>1, <1>2, <2>2, <2>4, ReservedDimStep
  <2> QED BY Zenon, <1>2, <2>3, <2>4, <2>5, <2>6, <2>7 DEF LimiterInv
<1>4. CASE UNCHANGED vars
  <2>1. /\ policy' = policy /\ global_active' = global_active /\ active' = active
        /\ queue' = queue /\ lock' = lock /\ pc' = pc
    BY Zenon, <1>4 DEF vars
  <2>2. HolderInv' /\ QueueInv' /\ EntryInv'
    BY Zenon, <1>1, <2>1 DEF HolderInv, QueueInv, EntryInv, Admitting
  <2>3. /\ Busy' = Busy /\ InGlobal' = InGlobal /\ Passed' = Passed
        /\ \A d \in Dims : \A i \in Ids :
             Count(d, i)' = Count(d, i) /\ InDim(d, i)' = InDim(d, i) /\ PassedDim(d, i)' = PassedDim(d, i)
    BY Zenon, <2>1, SameSets
  <2>4. BusyInv' /\ GlobalInv' /\ ReservedInv'
    BY Zenon, <1>1, <2>1, <2>3 DEF BusyInv, GlobalInv, ReservedInv
  <2>5. DimInv' /\ ReservedDimInv' BY Zenon, <1>1, <2>1, <2>3 DEF DimInv, ReservedDimInv
  <2> QED BY Zenon, <1>2, <2>2, <2>4, <2>5 DEF LimiterInv
<1> QED BY Zenon, <1>3, <1>4

-----------------------------------------------------------------------------
(* The theorems *)

INSTANCE FiniteSetTheorems

\* The sizes of sets of keys are as assumed so far.
LEMMA KeySizesHold == KeySizes
<1>1. IsFiniteSet(Keys) BY Zenon, LimiterAssumption
<1>2. \A A \in SUBSET Keys : IsFiniteSet(A) BY Zenon, <1>1, FS_Subset
<1>3. Cardinality({}) = 0 BY Zenon, FS_EmptySet
<1>4. \A A \in SUBSET Keys : Cardinality(A) \in Nat BY Zenon, <1>2, FS_CardinalityType
<1>5. \A A, B \in SUBSET Keys : A \subseteq B => Cardinality(A) <= Cardinality(B)
  BY Zenon, <1>2, FS_Subset
<1>6. ASSUME NEW A \in SUBSET Keys, NEW k \in Keys \ A
      PROVE  Cardinality(A \cup {k}) = Cardinality(A) + 1
  BY Zenon, <1>2, FS_AddElement
<1>7. ASSUME NEW A \in SUBSET Keys, NEW B \in SUBSET Keys
      PROVE  Cardinality(A \cup B) <= Cardinality(A) + Cardinality(B)
  <2>1. IsFiniteSet(A) /\ IsFiniteSet(B) BY Zenon, <1>2
  <2>2. Cardinality(A \cup B) = Cardinality(A) + Cardinality(B) - Cardinality(A \cap B)
    BY Zenon, <2>1, FS_Union
  <2>3. A \cap B \in SUBSET Keys BY Zenon
  <2>4. Cardinality(A) \in Nat /\ Cardinality(B) \in Nat /\ Cardinality(A \cap B) \in Nat
    BY Zenon, <1>4, <2>3
  <2> QED BY <2>2, <2>4
<1> QED BY Zenon, <1>3, <1>4, <1>5, <1>6, <1>7 DEF KeySizes

\* The inductive invariant always holds.
LEMMA Inductive == Spec => []LimiterInv
<1>1. Init => LimiterInv BY Zenon, KeySizesHold, InitInv
<1>2. LimiterInv /\ [Next]_vars => LimiterInv' BY Zenon, KeySizesHold, NextInv
<1> QED BY <1>1, <1>2, PTL DEF Spec

\* Type correctness: no count of a type or a namespace goes below zero, the
\* global one does not leave its word, the queue keeps within its depth.
THEOREM TypeCorrect == Spec => []TypeOK
<1>1. LimiterInv => TypeOK BY Zenon DEF LimiterInv
<1> QED BY <1>1, Inductive, PTL

\* Whatever acquire, release and try_dequeue overlap with, the counts stand
\* for the slots held (commit_acquire and release change each count once).
THEOREM CountsExact == Spec => []CountersAgree
<1>1. LimiterInv => CountersAgree BY Zenon DEF LimiterInv, GlobalInv, DimInv, CountersAgree
<1> QED BY <1>1, Inductive, PTL

\* max_global is passed by less than the number of threads: check-then-act
\* in acquire and in try_dequeue costs no more than that.
THEOREM GlobalBound == Spec => []GlobalOvershoot
<1>1. ASSUME LimiterInv PROVE GlobalOvershoot
  <2>1. Cardinality(InGlobal) <= Cardinality(InGlobal \cup Passed)
        /\ Cardinality(InGlobal) \in Nat /\ Cardinality(InGlobal \cup Passed) \in Nat
    BY Zenon, KeySizesHold, KeySets, SubSize
  <2>2. MaxGlobal \in Nat /\ MaxCalls \in Nat BY Zenon, LimiterAssumption
  <2> QED BY <1>1, <2>1, <2>2 DEF LimiterInv, ReservedInv, GlobalOvershoot
<1> QED BY <1>1, Inductive, PTL

\* The same for max_per_type and max_per_namespace, where they are not zero.
THEOREM LimitBound ==
  ASSUME \A d \in Dims : Limit[d] > 0
  PROVE  Spec => []LimitOvershoot
<1>1. ASSUME LimiterInv PROVE LimitOvershoot
  <2> SUFFICES ASSUME NEW d \in Dims, NEW i \in Ids PROVE Count(d, i) <= Limit[d] + MaxCalls - 1
    BY Zenon DEF LimitOvershoot
  <2>1. Count(d, i) + Cardinality(PassedDim(d, i)) <= Limit[d] + MaxCalls - 1
    BY Zenon, <1>1 DEF LimiterInv, ReservedDimInv
  <2>2. Cardinality(PassedDim(d, i)) \in Nat BY Zenon, KeySizesHold, PassedDimKeys
  <2>3. Count(d, i) \in Nat BY Zenon, <1>1, CountAfter DEF LimiterInv
  <2>4. Limit[d] \in Nat /\ MaxCalls \in Nat BY Zenon, LimiterAssumption
  <2> QED BY <2>1, <2>2, <2>3, <2>4
<1> QED BY <1>1, Inductive, PTL

\* The queue holds the requests that were told so, once each; a request put
\* back by try_dequeue keeps its place, and one admitted leaves.
THEOREM QueueExact == Spec => []QueueIsWaiting
<1>1. ASSUME LimiterInv PROVE QueueIsWaiting
  <2>1. TypeOK /\ QueueInv BY Zenon, <1>1 DEF LimiterInv
  <2>2. \A k \in Keys : pc[k] \in Stages BY Zenon, <2>1 DEF TypeOK
  <2>3. \A k \in Keys : pc[k].at = "queued" <=> At(k, "queued", "none")
    BY Zenon, <2>2, StageFields DEF At, S, OutsideAts
  <2>4. \A i \in DOMAIN queue : queue[i] \in Keys BY Zenon, <2>1, Types
  <2> QED BY Zenon, <2>1, <2>3, <2>4 DEF QueueInv, QueueIsWaiting, Admitting
<1> QED BY <1>1, Inductive, PTL
=============================================================================
