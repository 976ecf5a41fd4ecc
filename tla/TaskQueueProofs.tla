-------------------------- MODULE TaskQueueProofs ---------------------------
(***************************************************************************)
(* Proofs about TaskQueue, for any finite sets of queues and threads, any  *)
(* priorities and deadlines and any number of tasks: no task is lost or    *)
(* delivered twice, the counters add up, urgent tasks stay in front, no    *)
(* task overtakes another, the backlog's age is never understated and a    *)
(* sleeping poller's task is announced.                                    *)
(*                                                                         *)
(* The lemmas assume SetFacts, the few facts about finite sets they use;   *)
(* the library's theorems are brought in at the end, where they establish  *)
(* it.                                                                     *)
(***************************************************************************)
EXTENDS TaskQueue, TLAPS

-----------------------------------------------------------------------------
(* Facts about sets, taken from the library at the end of this module *)

\* A set of naturals has a least element; sizes of finite sets.
SetFacts ==
  /\ \A S \in SUBSET Nat : S # {} => \E m \in S : \A k \in S : m <= k
  /\ IsFiniteSet({}) /\ Cardinality({}) = 0
  /\ \A S : IsFiniteSet(S) => Cardinality(S) \in Nat /\ (Cardinality(S) = 0 <=> S = {})
  /\ \A S : IsFiniteSet(S) =>
       \A T \in SUBSET S : IsFiniteSet(T) /\ Cardinality(T) <= Cardinality(S)
  /\ \A S, x : IsFiniteSet(S) =>
       /\ IsFiniteSet(S \cup {x}) /\ IsFiniteSet(S \ {x})
       /\ Cardinality(S \cup {x}) = IF x \in S THEN Cardinality(S) ELSE Cardinality(S) + 1
       /\ Cardinality(S \ {x}) = IF x \in S THEN Cardinality(S) - 1 ELSE Cardinality(S)
  /\ \A a, b \in Int : IsFiniteSet(a .. b)

\* The size of a finite set is a number.
LEMMA SizeType ==
  ASSUME SetFacts, NEW S, IsFiniteSet(S)
  PROVE  Cardinality(S) \in Nat
BY Zenon DEF SetFacts

\* The empty set.
LEMMA EmptySize ==
  ASSUME SetFacts
  PROVE  /\ IsFiniteSet({}) /\ Cardinality({}) = 0
         /\ \A S : IsFiniteSet(S) => (Cardinality(S) = 0 <=> S = {})
BY Zenon DEF SetFacts

\* Subsets of finite sets.
LEMMA SubsetSize ==
  ASSUME SetFacts, NEW S, IsFiniteSet(S), NEW T \in SUBSET S
  PROVE  IsFiniteSet(T) /\ Cardinality(T) <= Cardinality(S)
BY Zenon DEF SetFacts

\* One element more.
LEMMA AddElement ==
  ASSUME SetFacts, NEW S, NEW x, IsFiniteSet(S)
  PROVE  /\ IsFiniteSet(S \cup {x})
         /\ Cardinality(S \cup {x}) = IF x \in S THEN Cardinality(S) ELSE Cardinality(S) + 1
BY Zenon DEF SetFacts

\* One element less.
LEMMA RemoveElement ==
  ASSUME SetFacts, NEW S, NEW x, IsFiniteSet(S)
  PROVE  /\ IsFiniteSet(S \ {x})
         /\ Cardinality(S \ {x}) = IF x \in S THEN Cardinality(S) - 1 ELSE Cardinality(S)
BY Zenon DEF SetFacts

\* Intervals are finite.
LEMMA IntervalFinite ==
  ASSUME SetFacts, NEW a \in Int, NEW b \in Int
  PROVE  IsFiniteSet(a .. b)
BY Zenon DEF SetFacts

\* Induction over the naturals, for a set in place of a predicate.
LEMMA Induction ==
  ASSUME SetFacts, NEW P, 0 \in P, \A n \in Nat : n \in P => n + 1 \in P
  PROVE  \A n \in Nat : n \in P
<1> SUFFICES ASSUME Nat \ P # {} PROVE FALSE
  BY Zenon
<1>1. PICK m \in Nat \ P : \A k \in Nat \ P : m <= k
  <2>1. Nat \ P \in SUBSET Nat
    BY Zenon
  <2> QED
    BY Zenon, <2>1 DEF SetFacts
<1>2. m # 0 /\ m - 1 \in Nat /\ (m - 1) + 1 = m /\ ~(m <= m - 1)
  BY <1>1
<1>3. m - 1 \in P
  BY Zenon, <1>1, <1>2
<1> QED
  BY Zenon, <1>1, <1>2, <1>3

-----------------------------------------------------------------------------
(* VecDeque::retain and VecDeque::insert, as functions of sequences *)

\* u is what is left of s: m tells where in s its elements come from.
Embeds(m, u, s) ==
  /\ m \in [1 .. Len(u) -> 1 .. Len(s)]
  /\ \A i, j \in 1 .. Len(u) : i < j => m[i] < m[j]
  /\ \A i \in 1 .. Len(u) : u[i] = s[m[i]]

\* retain keeps the live elements, in their order, and nothing else.
LEMMA RetainKeeps ==
  ASSUME SetFacts
  PROVE  \A T : \A s \in Seq(T) : \A now :
           /\ Retained(s, now) \in Seq(T)
           /\ Len(Retained(s, now)) <= Len(s)
           /\ \E m : Embeds(m, Retained(s, now), s)
           /\ \A k \in 1 .. Len(s) : LiveAt(s[k], now) =>
                \E i \in 1 .. Len(Retained(s, now)) : Retained(s, now)[i] = s[k]
\* One round of the loop in retain: x is what was kept of the first n - 1.
<1> DEFINE Round(x, s, now, n) == IF LiveAt(s[n], now) THEN Append(x, s[n]) ELSE x
\* g[n] is what the loop has kept after its n-th round.
<1> DEFINE LoopOf(g, T, s, now) ==
             /\ g \in [0 .. Len(s) -> Seq(T)]
             /\ g[0] = <<>>
             /\ \A n \in 1 .. Len(s) : g[n] = Round(g[n - 1], s, now, n)
             /\ Retained(s, now) = g[Len(s)]
<1> HIDE DEF Round, LoopOf
\* Induction up to a bound.
<1>InductionUpTo.
  ASSUME SetFacts, NEW L \in Nat, NEW P, 0 \in P, \A n \in 0 .. L - 1 : n \in P => n + 1 \in P
  PROVE  \A n \in 0 .. L : n \in P
  <2> USE <1>InductionUpTo
  <2> DEFINE Q == {n \in Nat : n <= L => n \in P}
  <2>1. 0 \in Q
    BY Zenon
  <2>2. \A n \in Nat : n \in Q => n + 1 \in Q
    OBVIOUS
  <2> HIDE DEF Q
  <2>3. \A n \in Nat : n \in Q
    BY Zenon, <2>1, <2>2, Induction
  <2> QED
    BY <2>3 DEF Q
\* The loop of retain runs to its end: its recursive definition has a solution.
<1>RetainRuns.
  ASSUME SetFacts, NEW T, NEW s \in Seq(T), NEW now
  PROVE  \E g : LoopOf(g, T, s, now)
  <2> USE <1>RetainRuns
  <2> DEFINE L == Len(s)
             R(x, n) == Round(x, s, now, n)
             Runs(g, n) == g[0] = <<>> /\ \A i \in 1 .. n : g[i] = R(g[i - 1], i)
             Solved(n) == \E g \in [0 .. n -> Seq(T)] : Runs(g, n)
             P == {n \in 0 .. L : Solved(n)}
  <2>0. L \in Nat /\ \A x \in Seq(T), n \in 1 .. L : R(x, n) \in Seq(T)
    BY DEF Round
  <2>1. Solved(0)
    <3>1. [i \in 0 .. 0 |-> <<>>] \in [0 .. 0 -> Seq(T)] /\ Runs([i \in 0 .. 0 |-> <<>>], 0)
      OBVIOUS
    <3> QED
      BY Zenon, <3>1
  <2>2. ASSUME NEW n \in 0 .. L - 1, Solved(n) PROVE Solved(n + 1)
    <3>1. PICK h \in [0 .. n -> Seq(T)] : Runs(h, n)
      BY Zenon, <2>2
    <3> HIDE DEF L, R
    <3> DEFINE g == [i \in 0 .. n + 1 |-> IF i = n + 1 THEN R(h[n], n + 1) ELSE h[i]]
    <3>2. R(h[n], n + 1) \in Seq(T) /\ n \in Nat
      BY <2>0
    <3>3. g \in [0 .. n + 1 -> Seq(T)]
      BY <3>2
    <3>4. g[n + 1] = R(h[n], n + 1) /\ \A i \in 0 .. n : g[i] = h[i]
      BY <3>2
    <3> HIDE DEF g
    <3>5. ASSUME NEW i \in 1 .. n + 1 PROVE g[i] = R(g[i - 1], i)
      <4>1. CASE i = n + 1
        <5>1. i - 1 = n /\ g[n] = h[n]
          BY <3>2, <3>4, <4>1
        <5> QED
          BY Zenon, <3>4, <4>1, <5>1
      <4>2. CASE i # n + 1
        <5>1. i \in 1 .. n /\ i \in 0 .. n /\ i - 1 \in 0 .. n
          BY <3>2, <4>2
        <5>2. g[i] = h[i] /\ g[i - 1] = h[i - 1]
          BY Zenon, <3>4, <5>1
        <5> QED
          BY Zenon, <3>1, <5>1, <5>2
      <4> QED
        BY Zenon, <4>1, <4>2
    <3>6. g[0] = <<>>
      BY <3>1, <3>2, <3>4
    <3> QED
      BY Zenon, <3>3, <3>5, <3>6
  <2>3. Solved(L)
    <3> HIDE DEF Solved
    <3>1. 0 \in P /\ \A n \in 0 .. L - 1 : n \in P => n + 1 \in P
      BY <2>0, <2>1, <2>2
    <3> HIDE DEF P
    <3>2. \A n \in 0 .. L : n \in P
      BY Zenon, <2>0, <3>1, <1>InductionUpTo
    <3> QED
      BY <2>0, <3>2 DEF P
  <2>4. PICK h \in [0 .. L -> Seq(T)] : Runs(h, L)
    BY Zenon, <2>3
  <2> DEFINE Sol(g) == g = [n \in 0 .. Len(s) |->
               IF n = 0 THEN <<>>
               ELSE IF LiveAt(s[n], now) THEN Append(g[n - 1], s[n]) ELSE g[n - 1]]
             u == CHOOSE g : Sol(g)
  <2>5. Sol(h)
    <3>1. h = [n \in 0 .. L |-> h[n]]
      BY Zenon
    <3>2. \A n \in 0 .. L : n = 0 \/ n \in 1 .. L
      BY <2>0
    <3> QED
      BY Zenon, <2>4, <3>1, <3>2 DEF Round
  <2>6. Sol(u)
    BY Zenon, <2>5
  <2>7. Retained(s, now) = u[L]
    BY Zenon DEF Retained
  <2> HIDE DEF u
  <2>8. DOMAIN u = 0 .. L /\ u[0] = <<>> /\ \A i \in 1 .. L : u[i] = R(u[i - 1], i)
    <3>1. 0 \in 0 .. L /\ \A i \in 1 .. L : i \in 0 .. L /\ i # 0
      BY <2>0
    <3> QED
      BY Zenon, <2>6, <3>1 DEF Round
  <2>9. u = [n \in 0 .. L |-> u[n]]
    BY Zenon, <2>6
  <2> HIDE DEF Sol, R, L
  <2>10. \A n \in 0 .. L : u[n] \in Seq(T)
    <3> DEFINE Q == {i \in 0 .. L : u[i] \in Seq(T)}
    <3>1. 0 \in Q
      <4>1. <<>> \in Seq(T) /\ 0 \in 0 .. L
        BY <2>0
      <4> QED
        BY Zenon, <2>8, <4>1
    <3>2. ASSUME NEW n \in 0 .. L - 1, n \in Q PROVE n + 1 \in Q
      <4>1. n + 1 \in 1 .. L /\ n + 1 \in 0 .. L /\ (n + 1) - 1 = n
        BY <2>0
      <4> QED
        BY Zenon, <2>0, <2>8, <3>2, <4>1
    <3> HIDE DEF Q
    <3>3. \A n \in 0 .. L : n \in Q
      BY Zenon, <2>0, <3>1, <3>2, <1>InductionUpTo
    <3> QED
      BY Zenon, <3>3 DEF Q
  <2>11. u \in [0 .. L -> Seq(T)]
    BY Zenon, <2>9, <2>10
  <2> QED
    BY Zenon, <2>7, <2>8, <2>11 DEF L, R, LoopOf
\* So what the loop has kept is as stated.
<1>RetainKept.
  ASSUME SetFacts, NEW T, NEW s \in Seq(T), NEW now
  PROVE  /\ Retained(s, now) \in Seq(T)
         /\ Len(Retained(s, now)) <= Len(s)
         /\ \E m : Embeds(m, Retained(s, now), s)
         /\ \A k \in 1 .. Len(s) : LiveAt(s[k], now) =>
              \E i \in 1 .. Len(Retained(s, now)) : Retained(s, now)[i] = s[k]
  <2> USE <1>RetainKept
  <2>r. PICK g : LoopOf(g, T, s, now)
    BY Zenon, <1>RetainRuns
  <2> DEFINE L == Len(s)
  <2>1. /\ g \in [0 .. L -> Seq(T)] /\ g[0] = <<>>
        /\ \A n \in 1 .. L : g[n] = Round(g[n - 1], s, now, n)
        /\ Retained(s, now) = g[L]
    BY Zenon, <2>r DEF LoopOf
  <2>0. L \in Nat /\ \A n \in 1 .. L : s[n] \in T
    OBVIOUS
  <2> DEFINE Part(n, m) ==
               /\ m \in [1 .. Len(g[n]) -> 1 .. n]
               /\ \A i, j \in 1 .. Len(g[n]) : i < j => m[i] < m[j]
               /\ \A i \in 1 .. Len(g[n]) : g[n][i] = s[m[i]]
             Has(n, k) == \E i \in 1 .. Len(g[n]) : g[n][i] = s[k]
             Good(n) ==
               /\ Len(g[n]) <= n
               /\ \E m : Part(n, m)
               /\ \A k \in 1 .. n : LiveAt(s[k], now) => Has(n, k)
             P == {n \in 0 .. L : Good(n)}
  <2> HIDE DEF L
  <2>2. Good(0)
    <3>1. Part(0, [i \in 1 .. 0 |-> 0]) /\ Len(g[0]) = 0
      BY <2>1
    <3> HIDE DEF Part, Has
    <3> QED
      BY <3>1
  <2>3. ASSUME NEW n \in 0 .. L - 1, Good(n) PROVE Good(n + 1)
    <3>1. n \in Nat /\ n \in 0 .. L /\ n + 1 \in 0 .. L /\ n + 1 \in 1 .. L /\ (n + 1) - 1 = n
      BY <2>0
    <3>2. PICK m : Part(n, m)
      BY Zenon, <2>3
    <3>3. g[n] \in Seq(T) /\ Len(g[n]) \in Nat /\ s[n + 1] \in T /\ Len(g[n]) <= n
      BY <2>0, <2>1, <2>3, <3>1
    <3>4. g[n + 1] = Round(g[n], s, now, n + 1)
      BY Zenon, <2>1, <3>1
    <3>5. CASE LiveAt(s[n + 1], now)
      <4>1. g[n + 1] = Append(g[n], s[n + 1])
        BY Zenon, <3>4, <3>5 DEF Round
      <4> DEFINE l == Len(g[n]) + 1
                 h == [i \in 1 .. l |-> IF i = l THEN n + 1 ELSE m[i]]
      <4>2. /\ Len(g[n + 1]) = l /\ l \in Nat \ {0} /\ g[n + 1][l] = s[n + 1]
            /\ \A i \in 1 .. Len(g[n]) : g[n + 1][i] = g[n][i]
        BY <3>3, <4>1
      <4>3. \A i \in 1 .. Len(g[n]) : i \in 1 .. l /\ i # l /\ m[i] \in 1 .. n
        <5>1. m \in [1 .. Len(g[n]) -> 1 .. n]
          BY Zenon, <3>2
        <5> QED
          BY <3>3, <5>1
      <4>4. h \in [1 .. l -> 1 .. n + 1]
        BY <3>1, <3>3, <4>3
      <4>5. ASSUME NEW i \in 1 .. l, NEW j \in 1 .. l, i < j PROVE h[i] < h[j]
        <5>1. i \in 1 .. Len(g[n]) /\ h[i] = m[i] /\ m[i] \in 1 .. n
          BY <3>3, <4>3, <4>5
        <5>2. CASE j = l
          BY <3>1, <5>1, <5>2
        <5>3. CASE j # l
          <6>1. j \in 1 .. Len(g[n]) /\ h[j] = m[j]
            BY <3>3, <5>3
          <6> QED
            BY Zenon, <3>2, <4>5, <5>1, <6>1
        <5> QED
          BY Zenon, <5>2, <5>3
      <4>6. \A i \in 1 .. l : g[n + 1][i] = s[h[i]]
        BY <3>1, <3>2, <3>3, <4>2
      <4> HIDE DEF h
      <4>7. Part(n + 1, h)
        BY Zenon, <4>2, <4>4, <4>5, <4>6
      <4>8. ASSUME NEW k \in 1 .. n + 1, LiveAt(s[k], now) PROVE Has(n + 1, k)
        <5>1. CASE k = n + 1
          <6>1. l \in 1 .. Len(g[n + 1]) /\ g[n + 1][l] = s[k]
            BY <4>2, <5>1
          <6> QED
            BY Zenon, <6>1
        <5>2. CASE k # n + 1
          <6>1. k \in 1 .. n
            BY <3>1, <5>2
          <6>2. PICK i \in 1 .. Len(g[n]) : g[n][i] = s[k]
            BY Zenon, <2>3, <4>8, <6>1
          <6> QED
            BY Zenon, <4>2, <4>3, <6>2
        <5> QED
          BY Zenon, <5>1, <5>2
      <4>9. Len(g[n + 1]) <= n + 1
        BY <3>1, <3>3, <4>2
      <4> HIDE DEF Part, Has
      <4> QED
        BY Zenon, <4>7, <4>8, <4>9
    <3>6. CASE ~LiveAt(s[n + 1], now)
      <4>1. g[n + 1] = g[n]
        BY Zenon, <3>4, <3>6 DEF Round
      <4>2. Part(n + 1, m)
        <5>1. 1 .. n \subseteq 1 .. n + 1
          BY <3>1
        <5> QED
          BY Zenon, <3>2, <4>1, <5>1
      <4>3. \A k \in 1 .. n + 1 : LiveAt(s[k], now) => k \in 1 .. n
        BY <3>1, <3>6
      <4>4. \A k \in 1 .. n : LiveAt(s[k], now) => Has(n + 1, k)
        BY Zenon, <2>3, <4>1
      <4>5. Len(g[n + 1]) <= n + 1
        BY <3>1, <3>3, <4>1
      <4> HIDE DEF Part, Has
      <4> QED
        BY Zenon, <4>2, <4>3, <4>4, <4>5
    <3> QED
      BY Zenon, <3>5, <3>6
  <2>4. Good(L)
    <3> HIDE DEF Good
    <3>1. 0 \in P /\ \A n \in 0 .. L - 1 : n \in P => n + 1 \in P
      BY <2>0, <2>2, <2>3
    <3> HIDE DEF P
    <3>2. \A n \in 0 .. L : n \in P
      BY Zenon, <2>0, <3>1, <1>InductionUpTo
    <3> QED
      BY <2>0, <3>2 DEF P
  <2>5. L \in 0 .. L
    BY <2>0
  <2>6. PICK m : Part(L, m)
    BY Zenon, <2>4
  <2>7. Embeds(m, g[L], s)
    BY Zenon, <2>6 DEF Embeds, L
  <2>8. g[L] \in Seq(T) /\ Len(g[L]) <= L
    BY Zenon, <2>1, <2>4, <2>5
  <2>9. \A k \in 1 .. L : LiveAt(s[k], now) => Has(L, k)
    BY Zenon, <2>4
  <2> HIDE DEF Part, Good
  <2> QED
    BY Zenon, <2>1, <2>7, <2>8, <2>9 DEF L
<1> QED
  BY Zenon, <1>RetainKept

\* Where the new task goes: behind every task that is as urgent, if it has a
\* priority, and in front of a less urgent one, if it is not last.
GoesTo(p, s, t) ==
  /\ p \in 1 .. Len(s) + 1
  /\ p <= Len(s) => t.priority > 0 /\ s[p].priority > t.priority
  /\ t.priority > 0 => \A i \in 1 .. p - 1 : s[i].priority <= t.priority

\* s with t at position p.
InsertedAt(u, p, s, t) ==
  /\ Len(u) = Len(s) + 1
  /\ u[p] = t
  /\ \A i \in 1 .. p - 1 : u[i] = s[i]
  /\ \A i \in p .. Len(s) : u[i + 1] = s[i]

\* enqueue places a task at one position, behind all that are as urgent.
LEMMA PlacedAt ==
  ASSUME SetFacts, NEW s \in Seq(Task), NEW t \in Task
  PROVE  /\ Placed(s, t) \in Seq(Task)
         /\ \E p : GoesTo(p, s, t) /\ InsertedAt(Placed(s, t), p, s, t)
\* Min is the least element.
<1>LeastOf.
  ASSUME SetFacts, NEW I, I \subseteq Nat, I # {}
  PROVE  Min(I) \in I /\ \A y \in I : Min(I) <= y
  <2> USE <1>LeastOf
  <2>1. \E m \in I : \A y \in I : m <= y
    BY Zenon DEF SetFacts
  <2> QED
    BY Zenon, <2>1 DEF Min
<1> DEFINE I == {k \in DOMAIN s : t.priority > 0 /\ s[k].priority > t.priority}
           i == Min(I)
           u == [k \in 1 .. Len(s) + 1 |->
                   IF k < i THEN s[k] ELSE IF k = i THEN t ELSE s[k - 1]]
<1>0. DOMAIN s = 1 .. Len(s) /\ Len(s) \in Nat /\ \A k \in 1 .. Len(s) : s[k] \in Task
  OBVIOUS
<1>1. \A x \in Task : x.priority \in Nat
  BY Zenon, QueueAssumption DEF Task
<1>2. t.priority \in Nat /\ \A k \in 1 .. Len(s) : s[k].priority \in Nat
  BY Zenon, <1>0, <1>1
<1>3. Placed(s, t) = IF I = {} THEN Append(s, t) ELSE u
  BY Zenon DEF Placed, InsertedAtFirst
<1> HIDE DEF i, u
<1>4. CASE I # {}
  <2>1. i \in I /\ \A y \in I : i <= y
    <3>1. I \subseteq Nat
      BY <1>0
    <3> HIDE DEF I
    <3> QED
      BY Zenon, <1>4, <3>1, <1>LeastOf DEF i
  <2>2. i \in 1 .. Len(s) /\ s[i].priority > t.priority /\ t.priority > 0
    BY Zenon, <1>0, <2>1
  <2>3. \A k \in 1 .. i - 1 : s[k].priority <= t.priority
    BY <1>0, <1>2, <2>1, <2>2
  <2>4. GoesTo(i, s, t)
    BY <1>0, <2>2, <2>3 DEF GoesTo
  <2>5. \A k \in 1 .. Len(s) + 1 : k < i \/ k = i \/ k - 1 \in 1 .. Len(s)
    BY <1>0, <2>2
  <2>6. \A k \in 1 .. Len(s) + 1 : k < i => k \in 1 .. Len(s)
    BY <1>0, <2>2
  <2>7. \A k \in 1 .. Len(s) + 1 : u[k] \in Task
    BY Zenon, <1>0, <2>5, <2>6 DEF u
  <2>8. u \in Seq(Task) /\ Len(u) = Len(s) + 1
    <3>1. Len(s) + 1 \in Nat /\ u \in [1 .. Len(s) + 1 -> Task]
      BY <1>0, <2>7 DEF u
    <3> HIDE DEF u
    <3> QED
      BY <3>1
  <2>9. u[i] = t /\ \A k \in 1 .. i - 1 : u[k] = s[k]
    BY <1>0, <2>2 DEF u
  <2>10. ASSUME NEW k \in i .. Len(s) PROVE u[k + 1] = s[k]
    <3>1. k + 1 \in 1 .. Len(s) + 1 /\ ~(k + 1 < i) /\ k + 1 # i /\ (k + 1) - 1 = k
      BY <1>0, <2>2
    <3> QED
      BY Zenon, <3>1 DEF u
  <2>11. InsertedAt(u, i, s, t)
    BY Zenon, <2>8, <2>9, <2>10 DEF InsertedAt
  <2> QED
    BY Zenon, <1>3, <1>4, <2>4, <2>8, <2>11
<1>5. CASE I = {}
  <2>1. Placed(s, t) = Append(s, t)
    BY Zenon, <1>3, <1>5
  <2>2. GoesTo(Len(s) + 1, s, t)
    BY <1>0, <1>2, <1>5 DEF GoesTo
  <2>3. InsertedAt(Append(s, t), Len(s) + 1, s, t)
    BY DEF InsertedAt
  <2> QED
    BY <2>1, <2>2, <2>3
<1> QED
  BY Zenon, <1>4, <1>5

-----------------------------------------------------------------------------
(* Sums: what SumOver computes, whatever order the fold takes *)

\* SumOver computes the sum, whatever order the fold takes: a sum of naturals is
\* a natural, a sum of zeros is zero, and adding one to one summand adds one.
LEMMA SumLaws ==
  ASSUME SetFacts
  PROVE  /\ \A S : IsFiniteSet(S) => \A f \in [S -> Nat] : SumOver(S, f) \in Nat
         /\ \A S : IsFiniteSet(S) => \A f \in [S -> Nat] :
              (\A x \in S : f[x] = 0) => SumOver(S, f) = 0
         /\ \A S : IsFiniteSet(S) => \A f, h \in [S -> Nat] : \A q \in S :
              h[q] = f[q] + 1 /\ (\A x \in S : x # q => h[x] = f[x])
                => SumOver(S, h) = SumOver(S, f) + 1
<1> DEFINE First(s) == CHOOSE x \in s : TRUE
<1> DEFINE Others(s) == s \ {First(s)}
\* g[s] is the sum of f over s, in the order in which the fold goes through s.
<1> DEFINE SumsOf(g, f, S) ==
             /\ g \in [SUBSET S -> Nat]
             /\ g[{}] = 0
             /\ \A s \in SUBSET S : s # {} => g[s] = f[First(s)] + g[Others(s)]
<1> HIDE DEF First, Others, SumsOf
\* The fold takes one element out at a time.
<1>OneLess.
  ASSUME SetFacts, NEW S, IsFiniteSet(S), NEW s \in SUBSET S
  PROVE  /\ IsFiniteSet(s) /\ Cardinality(s) \in Nat /\ (Cardinality(s) = 0 <=> s = {})
         /\ s # {} => /\ First(s) \in s /\ Others(s) \in SUBSET S
                      /\ Cardinality(Others(s)) = Cardinality(s) - 1
  <2> USE <1>OneLess
  <2>1. IsFiniteSet(s)
    BY Zenon, SubsetSize
  <2>2. Cardinality(s) \in Nat /\ (Cardinality(s) = 0 <=> s = {})
    BY Zenon, <2>1, SizeType, EmptySize
  <2>3. ASSUME s # {} PROVE First(s) \in s
    BY Zenon, <2>3 DEF First
  <2>4. ASSUME s # {} PROVE Cardinality(Others(s)) = Cardinality(s) - 1
    BY Zenon, <2>1, <2>3, <2>4, RemoveElement DEF Others
  <2> QED
    BY Zenon, <2>1, <2>2, <2>3, <2>4 DEF Others
\* Induction in the order of the fold.
<1>FoldInduction.
  ASSUME SetFacts, NEW S, IsFiniteSet(S), NEW P, {} \in P,
         \A s \in SUBSET S : s # {} /\ Others(s) \in P => s \in P
  PROVE  S \in P
  <2> USE <1>FoldInduction
  <2> DEFINE Q == {n \in Nat : \A s \in SUBSET S : Cardinality(s) = n => s \in P}
  <2>1. 0 \in Q
    BY Zenon, <1>OneLess
  <2>2. ASSUME NEW n \in Nat, n \in Q PROVE n + 1 \in Q
    <3>1. ASSUME NEW s \in SUBSET S, Cardinality(s) = n + 1 PROVE s \in P
      <4>1. s # {} /\ Others(s) \in SUBSET S /\ Cardinality(Others(s)) = n
        BY <3>1, <1>OneLess
      <4> QED
        BY Zenon, <2>2, <4>1
    <3> QED
      BY <3>1
  <2> HIDE DEF Q
  <2>3. \A n \in Nat : n \in Q
    BY Zenon, <2>1, <2>2, Induction
  <2>4. S \in SUBSET S /\ Cardinality(S) \in Nat
    BY Zenon, <1>OneLess
  <2> QED
    BY Zenon, <2>3, <2>4 DEF Q
\* The recursion behind SumOver has a solution.
<1>SumRuns.
  ASSUME SetFacts, NEW S, IsFiniteSet(S), NEW f \in [S -> Nat]
  PROVE  \E g : SumsOf(g, f, S) /\ SumOver(S, f) = g[S]
  <2> USE <1>SumRuns
  <2> DEFINE D(n) == {s \in SUBSET S : Cardinality(s) <= n}
             Runs(g, n) == \A s \in D(n) :
               g[s] = IF s = {} THEN 0 ELSE f[First(s)] + g[Others(s)]
             Solved(n) == \E g \in [D(n) -> Nat] : Runs(g, n)
             Q == {n \in Nat : Solved(n)}
  <2>0. \A s \in SUBSET S : /\ Cardinality(s) \in Nat /\ (Cardinality(s) = 0 <=> s = {})
                            /\ s # {} => /\ First(s) \in S /\ Others(s) \in SUBSET S
                                         /\ Cardinality(Others(s)) = Cardinality(s) - 1
    BY Zenon, <1>OneLess
  <2>1. Solved(0)
    <3>1. \A s \in D(0) : s = {}
      BY <2>0
    <3>2. [s \in D(0) |-> 0] \in [D(0) -> Nat]
      BY Zenon
    <3>3. Runs([s \in D(0) |-> 0], 0)
      BY Zenon, <3>1
    <3> QED
      BY Zenon, <3>2, <3>3
  <2>2. ASSUME NEW n \in Nat, Solved(n) PROVE Solved(n + 1)
    <3>1. PICK h \in [D(n) -> Nat] : Runs(h, n)
      BY Zenon, <2>2
    <3> DEFINE V(s) == IF s = {} THEN 0 ELSE f[First(s)] + h[Others(s)]
               g == [s \in D(n + 1) |-> V(s)]
    <3>2. ASSUME NEW s \in D(n + 1), s # {} PROVE Others(s) \in D(n) /\ Others(s) \in D(n + 1)
      BY <2>0, <3>2
    <3>3. \A s \in D(n + 1) : V(s) \in Nat
      <4>1. ASSUME NEW s \in D(n + 1), s # {} PROVE f[First(s)] \in Nat /\ h[Others(s)] \in Nat
        BY Zenon, <2>0, <3>2, <4>1
      <4> QED
        BY <4>1
    <3>4. \A s \in D(n) : s \in D(n + 1) /\ h[s] = V(s)
      <4>1. \A s \in D(n) : s \in D(n + 1)
        BY <2>0
      <4> QED
        BY Zenon, <3>1, <4>1
    <3> HIDE DEF V, D
    <3>5. g \in [D(n + 1) -> Nat] /\ \A s \in D(n + 1) : g[s] = V(s)
      BY Zenon, <3>3
    <3>6. \A s \in D(n) : g[s] = h[s]
      BY Zenon, <3>4, <3>5
    <3> HIDE DEF g
    <3>7. Runs(g, n + 1)
      BY Zenon, <3>2, <3>5, <3>6 DEF V
    <3> QED
      BY Zenon, <3>5, <3>7
  <2>3. Solved(Cardinality(S))
    <3> HIDE DEF Solved
    <3>1. 0 \in Q /\ \A n \in Nat : n \in Q => n + 1 \in Q
      BY <2>1, <2>2
    <3> HIDE DEF Q
    <3>2. \A n \in Nat : n \in Q
      BY Zenon, <3>1, Induction
    <3>3. Cardinality(S) \in Nat
      BY Zenon, <2>0
    <3> QED
      BY Zenon, <3>2, <3>3 DEF Q
  <2>4. D(Cardinality(S)) = SUBSET S
    BY Zenon, <2>0, SubsetSize
  <2>5. PICK h \in [SUBSET S -> Nat] : \A s \in SUBSET S :
          h[s] = IF s = {} THEN 0 ELSE f[First(s)] + h[Others(s)]
    <3> HIDE DEF D
    <3> QED
      BY Zenon, <2>3, <2>4
  <2> DEFINE Sol(g) == g = [s \in SUBSET S |->
               IF s = {} THEN 0
               ELSE f[CHOOSE x \in s : TRUE] + g[s \ {CHOOSE x \in s : TRUE}]]
             u == CHOOSE g : Sol(g)
  <2>6. Sol(h)
    <3>1. h = [s \in SUBSET S |-> h[s]]
      BY Zenon
    <3> QED
      BY Zenon, <2>5, <3>1 DEF First, Others
  <2>7. Sol(u)
    BY <2>6
  <2>8. SumOver(S, f) = u[S]
    BY Zenon DEF SumOver, FoldFunctionOnSet, MapThenFoldSet
  <2> HIDE DEF u
  <2>9. u = [s \in SUBSET S |-> u[s]] /\ u[{}] = 0
        /\ \A s \in SUBSET S : s # {} => u[s] = f[First(s)] + u[Others(s)]
    BY Zenon, <2>7 DEF First, Others
  <2> HIDE DEF Sol
  <2>10. \A s \in SUBSET S : u[s] \in Nat
    <3> SUFFICES ASSUME NEW t \in SUBSET S PROVE u[t] \in Nat
      BY Zenon
    <3> DEFINE Z == {s \in SUBSET S : u[s] \in Nat}
    <3>1. {} \in Z
      BY <2>9
    <3>2. ASSUME NEW s \in SUBSET t, s # {}, Others(s) \in Z PROVE s \in Z
      <4>1. s \in SUBSET S /\ First(s) \in S /\ u[s] = f[First(s)] + u[Others(s)]
        BY Zenon, <2>0, <2>9, <3>2
      <4> QED
        BY <3>2, <4>1
    <3>3. IsFiniteSet(t)
      BY Zenon, <1>OneLess
    <3> HIDE DEF Z
    <3>4. t \in Z
      BY Zenon, <3>1, <3>2, <3>3, <1>FoldInduction
    <3> QED
      BY Zenon, <3>4 DEF Z
  <2>11. u \in [SUBSET S -> Nat]
    BY Zenon, <2>9, <2>10
  <2>12. SumsOf(u, f, S)
    BY Zenon, <2>9, <2>11 DEF SumsOf
  <2> QED
    BY Zenon, <2>8, <2>12
\* A sum of naturals is one.
<1>SumIsNat.
  ASSUME SetFacts, NEW S, IsFiniteSet(S), NEW f \in [S -> Nat]
  PROVE  SumOver(S, f) \in Nat
  <2> USE <1>SumIsNat
  <2>1. PICK g : SumsOf(g, f, S) /\ SumOver(S, f) = g[S]
    BY Zenon, <1>SumRuns
  <2>2. g \in [SUBSET S -> Nat] /\ S \in SUBSET S
    BY Zenon, <2>1 DEF SumsOf
  <2> QED
    BY <2>1, <2>2
\* A sum of zeros is zero.
<1>SumOfZeros.
  ASSUME SetFacts, NEW S, IsFiniteSet(S), NEW f \in [S -> Nat], \A x \in S : f[x] = 0
  PROVE  SumOver(S, f) = 0
  <2> USE <1>SumOfZeros
  <2>1. PICK g : SumsOf(g, f, S) /\ SumOver(S, f) = g[S]
    BY Zenon, <1>SumRuns
  <2> DEFINE P == {s \in SUBSET S : g[s] = 0}
  <2>2. {} \in P
    BY Zenon, <2>1 DEF SumsOf
  <2>3. ASSUME NEW s \in SUBSET S, s # {}, Others(s) \in P PROVE s \in P
    <3>1. First(s) \in S /\ g[s] = f[First(s)] + g[Others(s)]
      BY Zenon, <2>1, <2>3, <1>OneLess DEF SumsOf
    <3> QED
      BY <2>3, <3>1
  <2> HIDE DEF P
  <2>4. S \in P
    BY Zenon, <2>2, <2>3, <1>FoldInduction
  <2> QED
    BY Zenon, <2>1, <2>4 DEF P
\* Adding one to one summand adds one to the sum.
<1>SumPlusOne.
  ASSUME SetFacts, NEW S, IsFiniteSet(S), NEW f \in [S -> Nat], NEW h \in [S -> Nat], NEW q \in S,
         h[q] = f[q] + 1, \A x \in S : x # q => h[x] = f[x]
  PROVE  SumOver(S, f) \in Nat /\ SumOver(S, h) = SumOver(S, f) + 1
  <2> USE <1>SumPlusOne
  <2>1. PICK g : SumsOf(g, f, S) /\ SumOver(S, f) = g[S]
    BY Zenon, <1>SumRuns
  <2>2. PICK k : SumsOf(k, h, S) /\ SumOver(S, h) = k[S]
    BY Zenon, <1>SumRuns
  <2> DEFINE P == {s \in SUBSET S : k[s] = g[s] + IF q \in s THEN 1 ELSE 0}
  <2>3. {} \in P
    BY <2>1, <2>2 DEF SumsOf
  <2>4. ASSUME NEW s \in SUBSET S, s # {}, Others(s) \in P PROVE s \in P
    <3>1. /\ First(s) \in S /\ First(s) \in s /\ Others(s) \in SUBSET S
          /\ g[s] = f[First(s)] + g[Others(s)] /\ k[s] = h[First(s)] + k[Others(s)]
          /\ g[Others(s)] \in Nat /\ f[First(s)] \in Nat
      BY ZenonT(40), <2>1, <2>2, <2>4, <1>OneLess DEF SumsOf
    <3>2. CASE First(s) = q
      <4>1. q \in s /\ q \notin Others(s)
        BY Zenon, <3>1, <3>2 DEF Others
      <4> QED
        BY <2>4, <3>1, <3>2, <4>1
    <3>3. CASE First(s) # q
      <4>1. q \in s <=> q \in Others(s)
        BY Zenon, <3>1, <3>3 DEF Others
      <4> QED
        BY <2>4, <3>1, <3>3, <4>1
    <3> QED
      BY Zenon, <3>2, <3>3
  <2> HIDE DEF P
  <2>5. S \in P
    BY Zenon, <2>3, <2>4, <1>FoldInduction
  <2>6. g[S] \in Nat
    BY Zenon, <2>1 DEF SumsOf
  <2> QED
    BY Zenon, <2>1, <2>2, <2>5, <2>6 DEF P
<1> QED
  BY Zenon, <1>SumIsNat, <1>SumOfZeros, <1>SumPlusOne

-----------------------------------------------------------------------------
(* The inductive invariant *)

Inserting == {e \in Enqueuers : enq[e].at = "insert"}

\* An id is in one place: held by one enqueue call, at one position of one
\* deque, or taken.
IdsOnce ==
  /\ \A e, f \in Inserting : enq[e].task.id = enq[f].task.id => e = f
  /\ \A q, r \in Queues : \A i \in DOMAIN deque[q], j \in DOMAIN deque[r] :
       deque[q][i].id = deque[r][j].id => q = r /\ i = j
  /\ \A q \in Queues : Pending(q) \cap (taken \cup InFlight) = {}
  /\ taken \cap InFlight = {}

\* Every id that is anywhere has been handed out.
IdsIssued ==
  /\ InFlight \cup taken \subseteq 1 .. next_task_id - 1
  /\ \A q \in Queues : Pending(q) \subseteq 1 .. next_task_id - 1

Dequeued == [q \in Queues |-> counts[q].dequeued]

Enqueued == [q \in Queues |-> counts[q].enqueued]

\* Each queue's counters agree with its deque.
Counted ==
  \A q \in Queues :
    counts[q].enqueued = counts[q].dequeued + counts[q].expired + Len(deque[q])

\* What has been taken, and what has been handed out, is what the counters of
\* all queues together say.
Totals ==
  /\ Cardinality(taken) = SumOver(Queues, Dequeued)
  /\ next_task_id - 1 = Cardinality(InFlight) + SumOver(Queues, Enqueued)

Numbered ==
  \A q \in Queues :
    /\ oldest_task_at[q] <= counts[q].enqueued
    /\ \A i \in DOMAIN deque[q] : deque[q][i].nth <= counts[q].enqueued

\* The inductive invariant, but for the totals.
QueueInv ==
  /\ TypeOK /\ IdsOnce /\ IdsIssued /\ Counted
  /\ UrgentFirst /\ Numbered /\ BacklogNotUnderstated

-----------------------------------------------------------------------------
(* How a step changes the deques *)

\* pop_front keeps all but the first.
LEMMA TailKeeps ==
  ASSUME NEW T, NEW s \in Seq(T), s # <<>>
  PROVE  /\ Tail(s) \in Seq(T) /\ Len(Tail(s)) = Len(s) - 1 /\ Head(s) = s[1]
         /\ 1 \in DOMAIN s /\ Head(s) \in T
         /\ \A i \in 1 .. Len(Tail(s)) : Tail(s)[i] = s[i + 1]
         /\ \E m : Embeds(m, Tail(s), s)
<1>1. /\ Len(s) \in Nat \ {0} /\ Len(Tail(s)) = Len(s) - 1 /\ Head(s) = s[1] /\ 1 \in DOMAIN s
      /\ Tail(s) \in Seq(T)
      /\ \A i \in 1 .. Len(Tail(s)) : Tail(s)[i] = s[i + 1]
  OBVIOUS
<1>2. Embeds([i \in 1 .. Len(Tail(s)) |-> i + 1], Tail(s), s)
  BY <1>1 DEF Embeds
<1> QED
  BY <1>1, <1>2

\* A record an enqueue call, or a poll, keeps its place in.
LEMMA CallTypes ==
  ASSUME TypeOK
  PROVE  /\ \A e \in Enqueuers : /\ enq[e].at = "insert" =>
                                      enq[e].queue \in Queues /\ enq[e].task \in Task
                                 /\ enq[e].at \in {"idle", "insert", "notify"}
         /\ \A w \in Pollers : /\ poller[w].at \in {"checking", "waiting"} =>
                                    poller[w] \in [at : {"checking", "waiting"},
                                                   queue : Queues, timed : BOOLEAN]
                               /\ poller[w].at \in {"idle", "checking", "waiting"}
<1>1. ASSUME NEW e \in Enqueuers
      PROVE  /\ enq[e].at = "insert" => enq[e].queue \in Queues /\ enq[e].task \in Task
             /\ enq[e].at \in {"idle", "insert", "notify"}
  <2>1. \/ enq[e] \in {Idle, [at |-> "notify"]}
        \/ enq[e] \in [at : {"insert"}, queue : Queues, task : Task]
    BY Zenon DEF TypeOK
  <2> QED
    BY <2>1 DEF Idle
<1>2. ASSUME NEW w \in Pollers
      PROVE  /\ poller[w].at \in {"checking", "waiting"} =>
                  poller[w] \in [at : {"checking", "waiting"}, queue : Queues, timed : BOOLEAN]
             /\ poller[w].at \in {"idle", "checking", "waiting"}
  <2>1. \/ poller[w] = Idle
        \/ poller[w] \in [at : {"checking", "waiting"}, queue : Queues, timed : BOOLEAN]
    BY Zenon DEF TypeOK
  <2> QED
    BY <2>1 DEF Idle
<1> QED
  BY Zenon, <1>1, <1>2

\* Every deque keeps only tasks it had, in their order.
Shrinks == \A q \in Queues : \E m : Embeds(m, deque'[q], deque[q])

\* A sequence is a part of itself.
LEMMA SameEmbeds ==
  ASSUME NEW T, NEW s \in Seq(T)
  PROVE  \E m : Embeds(m, s, s)
<1>1. Embeds([i \in 1 .. Len(s) |-> i], s, s)
  BY Zenon DEF Embeds
<1> QED
  BY Zenon, <1>1

\* So does a step that leaves the deques alone ...
LEMMA QuietShrinks ==
  ASSUME TypeOK, UNCHANGED deque
  PROVE  Shrinks
<1>1. \A q \in Queues : deque[q] \in Seq(Task) /\ deque'[q] = deque[q]
  BY Zenon DEF TypeOK
<1> QED
  BY Zenon, <1>1, SameEmbeds DEF Shrinks

\* ... a poll, which takes the front task of one queue ...
LEMMA PopShrinks ==
  ASSUME TypeOK, NEW q \in Queues, Pop(q)
  PROVE  /\ Shrinks
         /\ deque' \in [Queues -> Seq(Task)]
         /\ deque[q] \in Seq(Task) /\ deque[q] # <<>> /\ deque'[q] = Tail(deque[q])
         /\ \A r \in Queues : r # q => deque'[r] = deque[r]
<1>1. deque[q] \in Seq(Task) /\ deque[q] # <<>> /\ deque' = [deque EXCEPT ![q] = Tail(deque[q])]
  BY Zenon DEF TypeOK, Pop, Rest
<1>2. Tail(deque[q]) \in Seq(Task) /\ \E m : Embeds(m, Tail(deque[q]), deque[q])
  BY Zenon, <1>1, TailKeeps
<1>3. /\ deque' \in [Queues -> Seq(Task)] /\ deque'[q] = Tail(deque[q])
      /\ \A r \in Queues : r # q => deque'[r] = deque[r]
  BY Zenon, <1>1, <1>2 DEF TypeOK
<1>4. \A r \in Queues : r # q => \E m : Embeds(m, deque'[r], deque[r])
  <2>1. \A r \in Queues : deque[r] \in Seq(Task)
    BY Zenon DEF TypeOK
  <2> QED
    BY Zenon, <1>3, <2>1, SameEmbeds
<1> QED
  BY Zenon, <1>1, <1>2, <1>3, <1>4 DEF Shrinks

\* What remove_expired leaves: every live task of every queue.
Expires(now) ==
  /\ Shrinks /\ deque' \in [Queues -> Seq(Task)]
  /\ \A q \in Queues :
       /\ Len(deque'[q]) <= Len(deque[q])
       /\ \A k \in 1 .. Len(deque[q]) : LiveAt(deque[q][k], now) =>
            \E i \in 1 .. Len(deque'[q]) : deque'[q][i] = deque[q][k]

\* enqueue e puts task t at position p of queue q.
Inserts(e, q, t, p) ==
  /\ e \in Inserting /\ q \in Queues /\ q = enq[e].queue
  /\ t \in Task /\ t.id = enq[e].task.id /\ t.nth = counts[q].enqueued + 1
  /\ deque[q] \in Seq(Task) /\ deque'[q] \in Seq(Task)
  /\ GoesTo(p, deque[q], t) /\ InsertedAt(deque'[q], p, deque[q], t)
  /\ \A r \in Queues : r # q => deque'[r] = deque[r]

\* What retain and insert do in a step.  DequesMoved, below, shows that every
\* step does this, from the loops of the two.
DequesMove ==
  /\ \A e \in Enqueuers : InsertTask(e) =>
       /\ deque' \in [Queues -> Seq(Task)]
       /\ \E q, t, p : Inserts(e, q, t, p)
  /\ \A now \in Clock : RemoveExpired(now) => Expires(now)

\* After an insertion every other task is where it was, or one place further on.
Displaced(b, u, p, s) ==
  /\ b \in [(1 .. Len(u)) \ {p} -> 1 .. Len(s)]
  /\ \A i \in (1 .. Len(u)) \ {p} : u[i] = s[b[i]] /\ (i < p <=> b[i] < p)
  /\ \A i, j \in (1 .. Len(u)) \ {p} : i < j => b[i] < b[j]
  /\ \A k \in 1 .. Len(s) : \E i \in (1 .. Len(u)) \ {p} : u[i] = s[k]

\* An insertion displaces the tasks behind it, and changes nothing else.
LEMMA InsertDisplaces ==
  ASSUME NEW s \in Seq(Task), NEW u \in Seq(Task), NEW p \in 1 .. Len(s) + 1, NEW t,
         InsertedAt(u, p, s, t)
  PROVE  /\ p \in 1 .. Len(u) /\ u[p] = t /\ Len(u) = Len(s) + 1
         /\ \E b : Displaced(b, u, p, s)
<1>1. Len(s) \in Nat /\ Len(u) = Len(s) + 1 /\ u[p] = t /\ p \in 1 .. Len(u)
  BY DEF InsertedAt
<1> DEFINE X == (1 .. Len(u)) \ {p}
           b == [i \in X |-> IF i < p THEN i ELSE i - 1]
<1>2. \A i \in X : b[i] = IF i < p THEN i ELSE i - 1
  BY Zenon
<1>3. \A i \in X : b[i] \in 1 .. Len(s) /\ (i < p <=> b[i] < p)
  BY <1>1
<1>4. b \in [X -> 1 .. Len(s)]
  BY Zenon, <1>3
<1>5. \A i, j \in X : i < j => b[i] < b[j]
  BY <1>1
<1> HIDE DEF b
<1>6. ASSUME NEW i \in X PROVE u[i] = s[b[i]]
  <2>1. CASE i < p
    BY <1>1, <1>2, <2>1 DEF InsertedAt
  <2>2. CASE ~(i < p)
    <3>1. b[i] = i - 1 /\ i - 1 \in p .. Len(s) /\ (i - 1) + 1 = i
      BY <1>1, <1>2, <2>2
    <3>2. u[(i - 1) + 1] = s[i - 1]
      BY Zenon, <3>1 DEF InsertedAt
    <3> QED
      BY Zenon, <3>1, <3>2
  <2> QED
    BY Zenon, <2>1, <2>2
<1>7. ASSUME NEW k \in 1 .. Len(s) PROVE \E i \in X : u[i] = s[k]
  <2>1. CASE k < p
    <3>1. k \in X /\ k \in 1 .. p - 1
      BY <1>1, <2>1
    <3> QED
      BY Zenon, <3>1 DEF InsertedAt
  <2>2. CASE ~(k < p)
    <3>1. k + 1 \in X /\ k \in p .. Len(s)
      BY <1>1, <2>2
    <3> QED
      BY Zenon, <3>1 DEF InsertedAt
  <2> QED
    BY Zenon, <2>1, <2>2
<1>8. Displaced(b, u, p, s)
  BY Zenon, <1>3, <1>4, <1>5, <1>6, <1>7 DEF Displaced
<1> QED
  BY Zenon, <1>1, <1>8

\* The insertion as the other positions of the queue see it: b says where they
\* were.
Enters(q, t, p, b) ==
  /\ q \in Queues /\ t \in Task /\ deque[q] \in Seq(Task) /\ deque'[q] \in Seq(Task)
  /\ p \in DOMAIN deque'[q] /\ deque'[q][p] = t /\ Len(deque'[q]) = Len(deque[q]) + 1
  /\ GoesTo(p, deque[q], t) /\ Displaced(b, deque'[q], p, deque[q])
  /\ \A r \in Queues : r # q => deque'[r] = deque[r]

\* An insertion is one for some b.
LEMMA InsertEnters ==
  ASSUME NEW e, NEW q, NEW t, NEW p, Inserts(e, q, t, p)
  PROVE  \E b : Enters(q, t, p, b)
<1>1. /\ deque[q] \in Seq(Task) /\ deque'[q] \in Seq(Task) /\ p \in 1 .. Len(deque[q]) + 1
      /\ InsertedAt(deque'[q], p, deque[q], t)
  BY Zenon DEF Inserts, GoesTo
<1>2. /\ p \in 1 .. Len(deque'[q]) /\ deque'[q][p] = t /\ Len(deque'[q]) = Len(deque[q]) + 1
      /\ \E b : Displaced(b, deque'[q], p, deque[q])
  BY ZenonT(40), <1>1, InsertDisplaces
<1>3. DOMAIN deque'[q] = 1 .. Len(deque'[q])
  BY <1>1
<1> QED
  BY Zenon, <1>1, <1>2, <1>3 DEF Enters, Inserts

\* Every position holds the new task, or one that was there.
LEMMA EnteredPositions ==
  ASSUME NEW q, NEW t, NEW p, NEW b, Enters(q, t, p, b), NEW i \in DOMAIN deque'[q]
  PROVE  /\ i \in Nat /\ p \in Nat
         /\ i = p => deque'[q][i] = t
         /\ i # p => /\ b[i] \in DOMAIN deque[q] /\ b[i] \in Nat
                     /\ deque'[q][i] = deque[q][b[i]] /\ (i < p <=> b[i] < p)
                     /\ \A j \in DOMAIN deque'[q] \ {p} : i < j => b[i] < b[j]
<1>1. /\ DOMAIN deque'[q] = 1 .. Len(deque'[q]) /\ DOMAIN deque[q] = 1 .. Len(deque[q])
      /\ Len(deque'[q]) \in Nat /\ Len(deque[q]) \in Nat
  BY DEF Enters
<1> QED
  BY <1>1 DEF Enters, Displaced

-----------------------------------------------------------------------------
(* How a step moves ids *)

OneMoreAt(g, f, q) == g[q] = f[q] + 1 /\ \A r \in Queues : r # q => g[r] = f[r]

IdsStay ==
  /\ UNCHANGED <<next_task_id, taken>> /\ InFlight' = InFlight
  /\ Enqueued' = Enqueued /\ Dequeued' = Dequeued

\* enqueue takes the next id ...
IdIssued ==
  /\ next_task_id' = next_task_id + 1 /\ next_task_id \notin InFlight
  /\ InFlight' = InFlight \cup {next_task_id}
  /\ UNCHANGED taken /\ Enqueued' = Enqueued /\ Dequeued' = Dequeued

\* ... puts it into a queue ...
IdQueued(q) ==
  /\ \E x \in InFlight : InFlight' = InFlight \ {x}
  /\ OneMoreAt(Enqueued', Enqueued, q)
  /\ UNCHANGED <<next_task_id, taken>> /\ Dequeued' = Dequeued

\* ... from which a poll takes it.
IdTaken(q) ==
  /\ \E x \in Pending(q) \ taken : taken' = taken \cup {x}
  /\ OneMoreAt(Dequeued', Dequeued, q)
  /\ UNCHANGED next_task_id /\ InFlight' = InFlight /\ Enqueued' = Enqueued

IdsMove == IdsStay \/ IdIssued \/ \E q \in Queues : IdQueued(q) \/ IdTaken(q)

-----------------------------------------------------------------------------
(* Every step keeps the invariant *)

\* No two positions of the deques hold the same id.
PositionsOnce ==
  \A q, r \in Queues : \A i \in DOMAIN deque[q], j \in DOMAIN deque[r] :
    deque[q][i].id = deque[r][j].id => q = r /\ i = j

\* The types of the deques, spelled out.
LEMMA DequeTypes ==
  ASSUME TypeOK
  PROVE  \A q \in Queues :
           /\ deque[q] \in Seq(Task) /\ Len(deque[q]) \in Nat
           /\ DOMAIN deque[q] = 1 .. Len(deque[q])
           /\ counts[q].enqueued \in Nat /\ counts[q].dequeued \in Nat
           /\ counts[q].expired \in Nat /\ oldest_task_at[q] \in Nat
           /\ \A i \in DOMAIN deque[q] :
                /\ deque[q][i] \in Task /\ deque[q][i].id \in Nat /\ deque[q][i].nth \in Nat
                /\ deque[q][i].priority \in Nat /\ deque[q][i].deadline \in Nat
                /\ deque[q][i].id \in Pending(q)
<1> SUFFICES ASSUME NEW q \in Queues
             PROVE  /\ deque[q] \in Seq(Task) /\ Len(deque[q]) \in Nat
                    /\ DOMAIN deque[q] = 1 .. Len(deque[q])
                    /\ counts[q].enqueued \in Nat /\ counts[q].dequeued \in Nat
                    /\ counts[q].expired \in Nat /\ oldest_task_at[q] \in Nat
                    /\ \A i \in DOMAIN deque[q] :
                         /\ deque[q][i] \in Task /\ deque[q][i].id \in Nat
                         /\ deque[q][i].nth \in Nat
                         /\ deque[q][i].priority \in Nat /\ deque[q][i].deadline \in Nat
                         /\ deque[q][i].id \in Pending(q)
  BY Zenon
<1>1. deque[q] \in Seq(Task) /\ oldest_task_at[q] \in Nat
      /\ counts[q] \in [enqueued : Nat, dequeued : Nat, expired : Nat]
  BY Zenon DEF TypeOK
<1>2. DOMAIN deque[q] = 1 .. Len(deque[q]) /\ Len(deque[q]) \in Nat
      /\ \A i \in DOMAIN deque[q] : deque[q][i] \in Task
  BY <1>1
<1>3. \A t \in Task : t.id \in Nat /\ t.nth \in Nat /\ t.priority \in Nat /\ t.deadline \in Nat
  BY Zenon, QueueAssumption DEF Task
<1>4. \A i \in DOMAIN deque[q] : deque[q][i].id \in Pending(q)
  BY Zenon DEF Pending
<1>5. counts[q].enqueued \in Nat /\ counts[q].dequeued \in Nat /\ counts[q].expired \in Nat
  BY Zenon, <1>1
<1> QED
  BY Zenon, <1>1, <1>2, <1>3, <1>4, <1>5

\* The values a poller takes.
PollerStates ==
  {Idle} \cup [at : {"checking", "waiting"}, queue : Queues, timed : BOOLEAN]

\* The invariant holds when the process starts.
LEMMA InitInv ==
  ASSUME Init
  PROVE  QueueInv
<1>1. TypeOK
  <2>1. next_task_id \in 1 .. MaxTasks + 1
    BY QueueAssumption DEF Init
  <2>2. counts \in [Queues -> [enqueued : Nat, dequeued : Nat, expired : Nat]]
    BY Zenon DEF Init, ZeroCounts
  <2>3. deque \in [Queues -> Seq(Task)]
    BY DEF Init
  <2> QED
    BY Zenon, <2>1, <2>2, <2>3 DEF Init, TypeOK
<1>2. /\ Inserting = {} /\ InFlight = {} /\ taken = {}
      /\ \A q \in Queues : Pending(q) = {} /\ DOMAIN deque[q] = {} /\ deque[q] = <<>>
  BY DEF Init, Idle, Inserting, InFlight, Pending
<1>3. IdsOnce /\ IdsIssued
  BY Zenon, <1>2 DEF IdsOnce, IdsIssued
<1>4. UrgentFirst
  BY Zenon, <1>2 DEF UrgentFirst
<1>5. \A q \in Queues : /\ counts[q].enqueued = 0 /\ counts[q].dequeued = 0
                        /\ counts[q].expired = 0 /\ oldest_task_at[q] = 0
                        /\ Len(deque[q]) = 0
  BY Zenon, <1>2 DEF Init, ZeroCounts
<1>6. Numbered /\ BacklogNotUnderstated
  BY <1>2, <1>5 DEF Numbered, BacklogNotUnderstated
<1>7. Counted
  BY <1>5 DEF Counted
<1> QED
  BY Zenon, <1>1, <1>3, <1>4, <1>6, <1>7 DEF QueueInv

\* A poller that is moved keeps a poller's type.
LEMMA PollerMoves ==
  ASSUME TypeOK, NEW w \in Pollers, NEW x \in PollerStates, poller' = [poller EXCEPT ![w] = x]
  PROVE  poller' \in [Pollers -> PollerStates]
  BY Zenon DEF TypeOK, PollerStates

\* A poller that wakes looks at its queue again.
LEMMA WakeType ==
  ASSUME TypeOK, NEW w \in Pollers, poller[w].at \in {"checking", "waiting"},
         NEW c \in {"checking", "waiting"}
  PROVE  /\ [poller[w] EXCEPT !.at = c] \in PollerStates
         /\ [poller EXCEPT ![w].at = c] = [poller EXCEPT ![w] = [poller[w] EXCEPT !.at = c]]
<1>1. poller[w] \in [at : {"checking", "waiting"}, queue : Queues, timed : BOOLEAN]
  BY Zenon, CallTypes
<1> QED
  BY Zenon, <1>1 DEF PollerStates

\* Every step keeps the invariant, and moves at most one id.
LEMMA NextInv ==
  ASSUME QueueInv, [Next]_vars, DequesMove
  PROVE  QueueInv' /\ IdsMove
\* What InsertTask does to the counters and the timestamp of queue q, if the
\* task has number n.
<1> DEFINE CountsEntry(q, n) ==
             /\ counts[q].enqueued \in Nat /\ n = counts[q].enqueued + 1
             /\ counts'[q].enqueued = n
             /\ \A r \in Queues : /\ counts'[r].dequeued = counts[r].dequeued
                                  /\ counts'[r].expired = counts[r].expired
                                  /\ r # q => counts'[r].enqueued = counts[r].enqueued
             /\ oldest_task_at'[q] = IF oldest_task_at[q] = 0 THEN n ELSE oldest_task_at[q]
             /\ \A r \in Queues : r # q => oldest_task_at'[r] = oldest_task_at[r]
<1> HIDE DEF CountsEntry
\* What a deque that shrinks can break: nothing about ids and urgency.
<1>ShrinkKeeps.
  ASSUME TypeOK, PositionsOnce, UrgentFirst, Shrinks, deque' \in [Queues -> Seq(Task)]
  PROVE  /\ PositionsOnce' /\ UrgentFirst'
         /\ \A q \in Queues : /\ Pending(q)' \subseteq Pending(q)
                              /\ \A i \in DOMAIN deque'[q] :
                                   \E k \in DOMAIN deque[q] : deque'[q][i] = deque[q][k]
  <2> USE <1>ShrinkKeeps
  <2>1. \A q \in Queues : /\ DOMAIN deque'[q] = 1 .. Len(deque'[q])
                          /\ DOMAIN deque[q] = 1 .. Len(deque[q])
                          /\ Len(deque'[q]) \in Nat
    <3>1. \A q \in Queues : deque'[q] \in Seq(Task)
      BY Zenon
    <3> QED
      BY <3>1, DequeTypes
  <2>2. ASSUME NEW q \in Queues, NEW i \in DOMAIN deque'[q]
        PROVE  \E k \in DOMAIN deque[q] : deque'[q][i] = deque[q][k]
    <3>1. PICK m : Embeds(m, deque'[q], deque[q])
      BY Zenon DEF Shrinks
    <3>2. m[i] \in DOMAIN deque[q] /\ deque'[q][i] = deque[q][m[i]]
      BY Zenon, <2>1, <3>1 DEF Embeds
    <3> QED
      BY Zenon, <3>2
  <2>3. ASSUME NEW q \in Queues PROVE Pending(q)' \subseteq Pending(q)
    BY <2>2 DEF Pending
  <2>4. PositionsOnce'
    <3> SUFFICES ASSUME NEW q \in Queues, NEW r \in Queues,
                        NEW i \in DOMAIN deque'[q], NEW j \in DOMAIN deque'[r],
                        deque'[q][i].id = deque'[r][j].id
                 PROVE  q = r /\ i = j
      BY Zenon DEF PositionsOnce
    <3>1. PICK k \in DOMAIN deque[q] : deque'[q][i] = deque[q][k]
      BY Zenon, <2>2
    <3>2. PICK l \in DOMAIN deque[r] : deque'[r][j] = deque[r][l]
      BY Zenon, <2>2
    <3>3. q = r
      BY <3>1, <3>2 DEF PositionsOnce
    <3>4. PICK m : Embeds(m, deque'[q], deque[q])
      BY Zenon DEF Shrinks
    <3>5. /\ i \in 1 .. Len(deque'[q]) /\ j \in 1 .. Len(deque'[q])
          /\ m[i] \in DOMAIN deque[q] /\ m[j] \in DOMAIN deque[q]
          /\ m[i] \in Int /\ m[j] \in Int
          /\ deque'[q][i] = deque[q][m[i]] /\ deque'[q][j] = deque[q][m[j]]
      <4>1. i \in 1 .. Len(deque'[q]) /\ j \in 1 .. Len(deque'[q])
        BY Zenon, <2>1, <3>3
      <4>2. /\ m[i] \in 1 .. Len(deque[q]) /\ m[j] \in 1 .. Len(deque[q])
            /\ deque'[q][i] = deque[q][m[i]] /\ deque'[q][j] = deque[q][m[j]]
        BY Zenon, <3>4, <4>1 DEF Embeds
      <4>3. m[i] \in Int /\ m[j] \in Int
        BY <4>2
      <4> QED
        BY Zenon, <2>1, <4>1, <4>2, <4>3
    <3>6. m[i] = m[j]
      BY <3>3, <3>5 DEF PositionsOnce
    <3>7. ~(i < j) /\ ~(j < i)
      BY <3>4, <3>5, <3>6 DEF Embeds
    <3> QED
      BY <3>3, <3>5, <3>7
  <2>5. UrgentFirst'
    <3> SUFFICES ASSUME NEW q \in Queues, NEW i \in DOMAIN deque'[q], NEW j \in DOMAIN deque'[q],
                        i < j, deque'[q][i].priority > 0, deque'[q][j].priority > 0
                 PROVE  deque'[q][i].priority <= deque'[q][j].priority
      BY Zenon DEF UrgentFirst
    <3>1. PICK m : Embeds(m, deque'[q], deque[q])
      BY Zenon DEF Shrinks
    <3>2. /\ m[i] \in DOMAIN deque[q] /\ m[j] \in DOMAIN deque[q] /\ m[i] < m[j]
          /\ deque'[q][i] = deque[q][m[i]] /\ deque'[q][j] = deque[q][m[j]]
      BY Zenon, <2>1, <3>1 DEF Embeds
    <3> QED
      BY Zenon, <3>2 DEF UrgentFirst
  <2> QED
    BY Zenon, <2>2, <2>3, <2>4, <2>5
\* The ids of the tasks being inserted only depend on the calls that insert.
<1>SameInFlight.
  ASSUME Inserting' = Inserting, \A e \in Inserting : enq'[e] = enq[e]
  PROVE  /\ InFlight' = InFlight
         /\ InFlight = {enq[e].task.id : e \in Inserting}
  <2> USE <1>SameInFlight
  <2>1. InFlight = {enq[e].task.id : e \in Inserting}
    BY Zenon DEF InFlight, Inserting
  <2>2. InFlight' = {enq'[e].task.id : e \in Inserting'}
    BY Zenon DEF InFlight, Inserting
  <2> QED
    BY Zenon, <2>1, <2>2
\* A step that touches neither the deques nor the calls that insert.
<1>QuietInv.
  ASSUME QueueInv, TypeOK', UNCHANGED <<next_task_id, deque, counts, oldest_task_at, taken>>,
         Inserting' = Inserting, \A e \in Inserting : enq'[e] = enq[e]
  PROVE  QueueInv' /\ IdsStay
  <2> USE <1>QuietInv
  <2>1. InFlight' = InFlight /\ \A q \in Queues : Pending(q)' = Pending(q)
    BY Zenon, <1>SameInFlight DEF Pending
  <2>2. IdsOnce'
    BY <2>1 DEF QueueInv, IdsOnce
  <2>3. IdsIssued'
    BY Zenon, <2>1 DEF QueueInv, IdsIssued
  <2>4. Counted'
    BY Zenon DEF QueueInv, Counted
  <2>5. UrgentFirst' /\ Numbered' /\ BacklogNotUnderstated'
    BY Zenon DEF QueueInv, UrgentFirst, Numbered, BacklogNotUnderstated
  <2>6. IdsStay
    BY Zenon, <2>1 DEF IdsStay, Enqueued, Dequeued
  <2> QED
    BY Zenon, <2>2, <2>3, <2>4, <2>5, <2>6 DEF QueueInv
\* enqueue takes its id.
<1>TakeIdInv.
  ASSUME QueueInv, NEW e \in Enqueuers, NEW q \in Queues, NEW p \in Priorities,
         NEW d \in Deadlines, TakeId(e, q, p, d)
  PROVE  QueueInv' /\ IdIssued
  <2> USE <1>TakeIdInv
  <2> DEFINE n == next_task_id
             t == [id |-> n, priority |-> p, deadline |-> d, nth |-> 0]
  <2>1. /\ enq[e] = Idle /\ n \in 1 .. MaxTasks /\ next_task_id' = n + 1
        /\ enq' = [enq EXCEPT ![e] = [at |-> "insert", queue |-> q, task |-> t]]
        /\ UNCHANGED <<known, deque, shut, counts, oldest_task_at, poller, closing, taken>>
    BY QueueAssumption DEF TakeId, queueVars, QueueInv, TypeOK
  <2>2. t \in Task /\ t.id = n
    BY <2>1 DEF Task
  <2> HIDE DEF t
  <2>3. TypeOK'
    <3>1. enq' \in [Enqueuers -> {Idle, [at |-> "notify"]}
                      \cup [at : {"insert"}, queue : Queues, task : Task]]
      BY Zenon, <2>1, <2>2 DEF QueueInv, TypeOK
    <3>2. next_task_id' \in 1 .. MaxTasks + 1
      BY <2>1, QueueAssumption
    <3> QED
      BY Zenon, <2>1, <3>1, <3>2 DEF QueueInv, TypeOK
  <2>4. /\ e \notin Inserting /\ Inserting' = Inserting \cup {e}
        /\ enq'[e].task.id = n /\ \A f \in Inserting : enq'[f] = enq[f]
    <3>1. enq \in [Enqueuers -> {Idle, [at |-> "notify"]}
                      \cup [at : {"insert"}, queue : Queues, task : Task]]
      BY Zenon DEF QueueInv, TypeOK
    <3> QED
      BY <2>1, <2>2, <3>1 DEF Inserting, Idle
  <2>5. InFlight' = InFlight \cup {n}
    <3>1. InFlight = {enq[f].task.id : f \in Inserting}
      BY Zenon DEF InFlight, Inserting
    <3>2. InFlight' = {enq'[f].task.id : f \in Inserting'}
      BY Zenon DEF InFlight, Inserting
    <3> QED
      BY Zenon, <2>4, <3>1, <3>2
  <2>6. /\ n \notin InFlight /\ n \notin taken /\ \A r \in Queues : n \notin Pending(r)
    BY <2>1 DEF QueueInv, IdsIssued
  <2>7. \A r \in Queues : Pending(r)' = Pending(r)
    BY Zenon, <2>1 DEF Pending
  <2>8. IdsOnce'
    <3>1. \A f \in Inserting : enq[f].task.id \in InFlight
      BY ZenonT(40) DEF InFlight, Inserting
    <3>2. \A f, g \in Inserting' : enq'[f].task.id = enq'[g].task.id => f = g
      BY SMTT(30), <2>4, <2>6, <3>1 DEF QueueInv, IdsOnce
    <3>3. \A r \in Queues : Pending(r)' \cap (taken' \cup InFlight') = {}
      BY SMTT(30), <2>1, <2>5, <2>6, <2>7 DEF QueueInv, IdsOnce
    <3>4. taken' \cap InFlight' = {}
      BY <2>1, <2>5, <2>6 DEF QueueInv, IdsOnce
    <3> QED
      BY <2>1, <3>2, <3>3, <3>4 DEF QueueInv, IdsOnce
  <2>9. IdsIssued'
    <3>1. 1 .. n - 1 \subseteq 1 .. (n + 1) - 1 /\ n \in 1 .. (n + 1) - 1
      BY <2>1
    <3> QED
      BY Zenon, <2>1, <2>5, <2>7, <3>1 DEF QueueInv, IdsIssued
  <2>10. Counted' /\ IdIssued
    <3>1. Counted'
      BY Zenon, <2>1 DEF QueueInv, Counted
    <3>2. Enqueued' = Enqueued /\ Dequeued' = Dequeued
      BY Zenon, <2>1 DEF Enqueued, Dequeued
    <3> QED
      BY Zenon, <2>1, <2>5, <2>6, <3>1, <3>2 DEF IdIssued
  <2>11. UrgentFirst' /\ Numbered' /\ BacklogNotUnderstated'
    BY Zenon, <2>1 DEF QueueInv, UrgentFirst, Numbered, BacklogNotUnderstated
  <2> QED
    BY Zenon, <2>3, <2>8, <2>9, <2>10, <2>11 DEF QueueInv
\* A poll that takes the front task.
<1>PopInv.
  ASSUME QueueInv, NEW q \in Queues, Pop(q), UNCHANGED <<next_task_id, enq, closing>>,
         poller' \in [Pollers -> PollerStates]
  PROVE  QueueInv' /\ IdTaken(q)
  <2> USE <1>PopInv
  <2> DEFINE s == deque[q]
             h == Head(s)
  <2>0. TypeOK /\ PositionsOnce /\ UrgentFirst /\ IdsOnce /\ IdsIssued
    BY Zenon DEF QueueInv, IdsOnce, PositionsOnce
  <2>1. /\ Shrinks /\ deque' \in [Queues -> Seq(Task)]
        /\ s \in Seq(Task) /\ s # <<>> /\ deque'[q] = Tail(s)
        /\ \A r \in Queues : r # q => deque'[r] = deque[r]
    BY Zenon, <2>0, PopShrinks
  <2>2. /\ Len(Tail(s)) = Len(s) - 1 /\ h = s[1] /\ 1 \in DOMAIN s /\ h \in Task
        /\ \A i \in 1 .. Len(Tail(s)) : Tail(s)[i] = s[i + 1]
    BY Zenon, <2>1, TailKeeps
  <2>3. /\ PositionsOnce' /\ UrgentFirst'
        /\ \A r \in Queues : /\ Pending(r)' \subseteq Pending(r)
                             /\ \A i \in DOMAIN deque'[r] :
                                  \E k \in DOMAIN deque[r] : deque'[r][i] = deque[r][k]
    BY Zenon, <2>0, <2>1, <1>ShrinkKeeps
  <2>4. /\ taken' = taken \cup {h.id} /\ UNCHANGED <<known, shut, next_task_id, enq, closing>>
        /\ counts' = [counts EXCEPT ![q].dequeued = @ + 1]
        /\ oldest_task_at' = [oldest_task_at EXCEPT ![q] =
             IF deque'[q] = <<>> THEN 0 ELSE oldest_task_at[q]]
    BY Zenon, <2>1 DEF Pop, OldestAfterPop, Rest
  <2>5. /\ counts' \in [Queues -> [enqueued : Nat, dequeued : Nat, expired : Nat]]
        /\ counts'[q] = [counts[q] EXCEPT !.dequeued = @ + 1]
        /\ \A r \in Queues : r # q => counts'[r] = counts[r]
    <3> DEFINE C == [enqueued : Nat, dequeued : Nat, expired : Nat]
               d == [counts[q] EXCEPT !.dequeued = @ + 1]
    <3>1. counts \in [Queues -> C] /\ counts[q] \in C
      BY Zenon, <2>0 DEF TypeOK
    <3>2. d \in C
      BY <3>1
    <3>3. counts' = [counts EXCEPT ![q] = d]
      BY Zenon, <2>4
    <3> HIDE DEF d, C
    <3>4. counts' \in [Queues -> C] /\ counts'[q] = d
          /\ \A r \in Queues : r # q => counts'[r] = counts[r]
      BY Zenon, <3>1, <3>2, <3>3
    <3> QED
      BY Zenon, <3>4 DEF d, C
  <2>6. /\ counts'[q].dequeued = counts[q].dequeued + 1
        /\ \A r \in Queues : /\ counts'[r].enqueued = counts[r].enqueued
                             /\ counts'[r].expired = counts[r].expired
                             /\ r # q => counts'[r].dequeued = counts[r].dequeued
    <3>1. counts[q] \in [enqueued : Nat, dequeued : Nat, expired : Nat]
      BY Zenon, <2>0 DEF TypeOK
    <3>2. /\ counts'[q].dequeued = counts[q].dequeued + 1
          /\ counts'[q].enqueued = counts[q].enqueued /\ counts'[q].expired = counts[q].expired
      BY Zenon, <2>5, <3>1
    <3> QED
      BY Zenon, <2>5, <3>2
  <2> HIDE DEF s, h
  <2>7. h.id \in Pending(q) /\ h.id \in 1 .. MaxTasks /\ h.id \notin taken /\ h.id \notin InFlight
    <3>1. h.id \in Pending(q)
      BY Zenon, <2>2 DEF Pending, s
    <3>2. 1 .. next_task_id - 1 \subseteq 1 .. MaxTasks
      BY <2>0, QueueAssumption DEF TypeOK
    <3> QED
      BY Zenon, <2>0, <3>1, <3>2 DEF IdsIssued, IdsOnce
  <2>8. TypeOK'
    <3>1. oldest_task_at' \in [Queues -> Nat]
      BY Zenon, <2>0, <2>4 DEF TypeOK
    <3>2. taken' \subseteq 1 .. MaxTasks
      BY Zenon, <2>0, <2>4, <2>7 DEF TypeOK
    <3> QED
      BY <2>0, <2>1, <2>4, <2>5, <3>1, <3>2 DEF TypeOK, PollerStates
  <2>9. InFlight' = InFlight
    BY Zenon, <2>4 DEF InFlight
  <2>10. \A r \in Queues : h.id \notin Pending(r)'
    <3> SUFFICES ASSUME NEW r \in Queues, NEW i \in DOMAIN deque'[r], deque'[r][i].id = h.id
                 PROVE  FALSE
      BY Zenon DEF Pending
    <3>1. CASE r = q
      <4>1. i \in 1 .. Len(Tail(s)) /\ i \in Nat \ {0}
        BY <2>1, <3>1
      <4>2. i + 1 \in DOMAIN s /\ deque'[r][i] = s[i + 1] /\ i + 1 # 1
        <5>1. DOMAIN s = 1 .. Len(s) /\ Len(s) \in Nat
          BY <2>1
        <5>2. deque'[r][i] = s[i + 1]
          BY Zenon, <2>1, <2>2, <3>1, <4>1
        <5> QED
          BY <2>2, <4>1, <5>1, <5>2
      <4> QED
        BY <2>0, <2>2, <4>2 DEF PositionsOnce, s
    <3>2. CASE r # q
      <4>1. i \in DOMAIN deque[r] /\ deque[r][i].id = h.id
        BY Zenon, <2>1, <3>2
      <4> QED
        BY Zenon, <2>0, <2>2, <3>2, <4>1 DEF PositionsOnce, s
    <3> QED
      BY Zenon, <3>1, <3>2
  <2>11. IdsOnce'
    <3>1. \A r \in Queues : Pending(r)' \cap (taken' \cup InFlight') = {}
      BY <2>0, <2>3, <2>4, <2>9, <2>10 DEF IdsOnce
    <3>2. taken' \cap InFlight' = {}
      BY <2>0, <2>4, <2>7, <2>9 DEF IdsOnce
    <3>3. \A e, f \in Inserting' : enq'[e].task.id = enq'[f].task.id => e = f
      BY Zenon, <2>0, <2>4 DEF IdsOnce, Inserting
    <3> QED
      BY Zenon, <2>3, <3>1, <3>2, <3>3 DEF IdsOnce, PositionsOnce
  <2>12. IdsIssued'
    BY <2>0, <2>3, <2>4, <2>7, <2>9 DEF IdsIssued
  <2>13. Counted'
    <3>0. Counted
      BY Zenon DEF QueueInv
    <3>1. ASSUME NEW r \in Queues
          PROVE  counts'[r].enqueued = counts'[r].dequeued + counts'[r].expired + Len(deque'[r])
      <4>1. /\ counts[r].enqueued = counts[r].dequeued + counts[r].expired + Len(deque[r])
            /\ counts[r].dequeued \in Nat /\ counts[r].expired \in Nat /\ Len(deque[r]) \in Nat
        BY Zenon, <2>0, <3>0, DequeTypes DEF Counted
      <4>2. CASE r = q
        <5>1. Len(deque'[r]) = Len(deque[r]) - 1
          BY Zenon, <2>1, <2>2, <4>2 DEF s
        <5>2. /\ counts'[r].dequeued = counts[r].dequeued + 1
              /\ counts'[r].enqueued = counts[r].enqueued /\ counts'[r].expired = counts[r].expired
          BY Zenon, <2>6, <4>2
        <5>3. \A d, x, l \in Nat : d + x + l = (d + 1) + x + (l - 1)
          OBVIOUS
        <5>4. counts[r].dequeued + counts[r].expired + Len(deque[r])
                = (counts[r].dequeued + 1) + counts[r].expired + (Len(deque[r]) - 1)
          BY Zenon, <4>1, <5>3
        <5> QED
          BY Zenon, <4>1, <5>1, <5>2, <5>4
      <4>3. CASE r # q
        BY Zenon, <2>1, <2>6, <4>1, <4>3
      <4> QED
        BY Zenon, <4>2, <4>3
    <3> QED
      BY Zenon, <3>1 DEF Counted
  <2>14. Numbered' /\ BacklogNotUnderstated'
    <3>0. \A r \in Queues : oldest_task_at'[r] =
            IF r = q /\ deque'[q] = <<>> THEN 0 ELSE oldest_task_at[r]
      BY Zenon, <2>0, <2>4 DEF TypeOK
    <3>1. ASSUME NEW r \in Queues
          PROVE  /\ oldest_task_at'[r] <= counts'[r].enqueued
                 /\ \A i \in DOMAIN deque'[r] : deque'[r][i].nth <= counts'[r].enqueued
      <4>1. /\ counts[r].enqueued \in Nat /\ oldest_task_at[r] <= counts[r].enqueued
            /\ \A k \in DOMAIN deque[r] : deque[r][k].nth <= counts[r].enqueued
        BY Zenon, <2>0, DequeTypes DEF QueueInv, Numbered
      <4>2. oldest_task_at'[r] <= counts'[r].enqueued
        BY <2>6, <3>0, <4>1
      <4> QED
        BY Zenon, <2>3, <2>6, <4>1, <4>2
    <3>2. ASSUME NEW r \in Queues
          PROVE  /\ \A i \in DOMAIN deque'[r] : oldest_task_at'[r] \in 1 .. deque'[r][i].nth
                 /\ deque'[r] = <<>> /\ oldest_task_at'[r] # 0 => counts'[r].expired > 0
      <4>1. /\ \A i \in DOMAIN deque[r] : oldest_task_at[r] \in 1 .. deque[r][i].nth
            /\ deque[r] = <<>> /\ oldest_task_at[r] # 0 => counts[r].expired > 0
        BY Zenon DEF QueueInv, BacklogNotUnderstated
      <4>2. CASE r = q /\ deque'[q] = <<>>
        <5>1. DOMAIN deque'[r] = {} /\ oldest_task_at'[r] = 0
          BY <3>0, <4>2
        <5> QED
          BY Zenon, <5>1
      <4>3. CASE ~(r = q /\ deque'[q] = <<>>)
        <5>1. oldest_task_at'[r] = oldest_task_at[r]
          BY Zenon, <3>0, <4>3
        <5>2. \A i \in DOMAIN deque'[r] : oldest_task_at'[r] \in 1 .. deque'[r][i].nth
          BY Zenon, <2>3, <4>1, <5>1
        <5>3. deque'[r] = <<>> => r # q
          BY Zenon, <4>3
        <5> QED
          BY Zenon, <2>1, <2>6, <4>1, <5>1, <5>2, <5>3
      <4> QED
        BY Zenon, <4>2, <4>3
    <3> QED
      BY Zenon, <3>1, <3>2 DEF Numbered, BacklogNotUnderstated
  <2>15. IdTaken(q)
    <3>1. Enqueued' = Enqueued
      BY Zenon, <2>6 DEF Enqueued
    <3>2. OneMoreAt(Dequeued', Dequeued, q)
      BY Zenon, <2>6 DEF Dequeued, OneMoreAt
    <3> QED
      BY Zenon, <2>4, <2>7, <2>9, <3>1, <3>2 DEF IdTaken
  <2> QED
    BY Zenon, <2>3, <2>8, <2>11, <2>12, <2>13, <2>14, <2>15 DEF QueueInv
\* remove_expired.
<1>ExpiryInv.
  ASSUME QueueInv, NEW now \in Clock, RemoveExpired(now), Expires(now)
  PROVE  QueueInv' /\ IdsStay
  <2> USE <1>ExpiryInv
  <2>0. TypeOK /\ PositionsOnce /\ UrgentFirst /\ IdsOnce /\ IdsIssued /\ Counted
    BY Zenon DEF QueueInv, IdsOnce, PositionsOnce
  <2>1. /\ Shrinks /\ deque' \in [Queues -> Seq(Task)]
        /\ \A q \in Queues : deque'[q] = Retained(deque[q], now) /\ Len(deque'[q]) <= Len(deque[q])
    BY Zenon DEF Expires, RemoveExpired, Kept
  <2>2. \A q \in Queues : /\ deque'[q] \in Seq(Task) /\ Len(deque'[q]) \in Nat
                          /\ (deque'[q] = <<>> <=> Len(deque'[q]) = 0)
                          /\ (deque[q] = <<>> <=> Len(deque[q]) = 0)
    <3>1. \A q \in Queues : deque'[q] \in Seq(Task) /\ deque[q] \in Seq(Task)
      BY Zenon, <2>0, <2>1, DequeTypes
    <3> QED
      BY <3>1
  <2>3. /\ PositionsOnce' /\ UrgentFirst'
        /\ \A r \in Queues : /\ Pending(r)' \subseteq Pending(r)
                             /\ \A i \in DOMAIN deque'[r] :
                                  \E k \in DOMAIN deque[r] : deque'[r][i] = deque[r][k]
    BY Zenon, <2>0, <2>1, <1>ShrinkKeeps
  <2> DEFINE gone(q) == Len(deque[q]) - Len(deque'[q])
  <2>4. /\ UNCHANGED <<next_task_id, known, shut, oldest_task_at, enq, poller, closing, taken>>
        /\ counts' = [q \in Queues |-> [counts[q] EXCEPT !.expired = @ + gone(q)]]
    <3>1. \A q \in Queues : RemovedCount(q, now) = gone(q)
      BY ZenonT(40), <2>1 DEF RemovedCount, Kept
    <3> QED
      BY Zenon, <3>1 DEF RemoveExpired
  <2>5. \A q \in Queues : gone(q) \in Nat
    BY <2>0, <2>1, <2>2, DequeTypes
  <2> HIDE DEF gone
  <2>6. counts' \in [Queues -> [enqueued : Nat, dequeued : Nat, expired : Nat]]
    <3> DEFINE C == [enqueued : Nat, dequeued : Nat, expired : Nat]
               d(q) == [counts[q] EXCEPT !.expired = @ + gone(q)]
    <3>1. \A q \in Queues : counts[q] \in C
      BY Zenon, <2>0 DEF TypeOK
    <3>2. \A q \in Queues : d(q) \in C
      BY <2>5, <3>1
    <3>3. counts' = [q \in Queues |-> d(q)]
      BY Zenon, <2>4
    <3> HIDE DEF d, C
    <3>4. counts' \in [Queues -> C]
      BY Zenon, <3>2, <3>3
    <3> QED
      BY Zenon, <3>4 DEF C
  <2>7. \A r \in Queues : /\ counts'[r].enqueued = counts[r].enqueued
                          /\ counts'[r].dequeued = counts[r].dequeued
                          /\ counts'[r].expired = counts[r].expired + gone(r)
    BY <2>0, <2>4 DEF TypeOK
  <2>8. TypeOK'
    BY Zenon, <2>0, <2>1, <2>4, <2>6 DEF TypeOK
  <2>9. InFlight' = InFlight
    BY Zenon, <2>4 DEF InFlight
  <2>10. IdsOnce'
    <3>1. \A r \in Queues : Pending(r)' \cap (taken' \cup InFlight') = {}
      BY Zenon, <2>0, <2>3, <2>4, <2>9 DEF IdsOnce
    <3>2. \A e, f \in Inserting' : enq'[e].task.id = enq'[f].task.id => e = f
      BY Zenon, <2>0, <2>4 DEF IdsOnce, Inserting
    <3> QED
      BY Zenon, <2>0, <2>3, <2>4, <2>9, <3>1, <3>2 DEF IdsOnce, PositionsOnce
  <2>11. IdsIssued'
    BY Zenon, <2>0, <2>3, <2>4, <2>9 DEF IdsIssued
  <2>12. Counted'
    <3>1. ASSUME NEW r \in Queues
          PROVE  counts'[r].enqueued = counts'[r].dequeued + counts'[r].expired + Len(deque'[r])
      <4>1. /\ counts[r].enqueued = counts[r].dequeued + counts[r].expired + Len(deque[r])
            /\ counts[r].dequeued \in Nat /\ counts[r].expired \in Nat /\ Len(deque[r]) \in Nat
        BY Zenon, <2>0, DequeTypes DEF Counted
      <4>2. /\ counts'[r].dequeued = counts[r].dequeued
            /\ counts'[r].enqueued = counts[r].enqueued
            /\ counts'[r].expired = counts[r].expired + (Len(deque[r]) - Len(deque'[r]))
        BY Zenon, <2>7 DEF gone
      <4>3. Len(deque'[r]) \in Nat
        BY Zenon, <2>2
      <4>4. counts[r].dequeued + counts[r].expired + Len(deque[r])
              = counts[r].dequeued + (counts[r].expired + (Len(deque[r]) - Len(deque'[r])))
                + Len(deque'[r])
        <5> DEFINE dq == counts[r].dequeued
                   ex == counts[r].expired
                   l  == Len(deque[r])
                   k  == Len(deque'[r])
        <5>1. dq \in Nat /\ ex \in Nat /\ l \in Nat /\ k \in Nat
          BY Zenon, <4>1, <4>3
        <5> HIDE DEF dq, ex, l, k
        <5>2. dq + ex + l = dq + (ex + (l - k)) + k
          BY <5>1
        <5> QED
          BY Zenon, <5>2 DEF dq, ex, l, k
      <4> QED
        BY Zenon, <4>1, <4>2, <4>4
    <3> QED
      BY Zenon, <3>1 DEF Counted
  <2>13. Numbered' /\ BacklogNotUnderstated'
    <3>1. ASSUME NEW r \in Queues
          PROVE  /\ oldest_task_at'[r] <= counts'[r].enqueued
                 /\ \A i \in DOMAIN deque'[r] : deque'[r][i].nth <= counts'[r].enqueued
      BY <2>3, <2>4, <2>7 DEF QueueInv, Numbered
    <3>2. ASSUME NEW r \in Queues
          PROVE  /\ \A i \in DOMAIN deque'[r] : oldest_task_at'[r] \in 1 .. deque'[r][i].nth
                 /\ deque'[r] = <<>> /\ oldest_task_at'[r] # 0 => counts'[r].expired > 0
      <4>1. /\ \A i \in DOMAIN deque[r] : oldest_task_at[r] \in 1 .. deque[r][i].nth
            /\ deque[r] = <<>> /\ oldest_task_at[r] # 0 => counts[r].expired > 0
            /\ counts[r].expired \in Nat /\ Len(deque[r]) \in Nat
        BY Zenon, <2>0, DequeTypes DEF QueueInv, BacklogNotUnderstated
      <4>2. \A i \in DOMAIN deque'[r] : oldest_task_at'[r] \in 1 .. deque'[r][i].nth
        BY ZenonT(40), <2>3, <2>4, <4>1
      <4>3. ASSUME deque'[r] = <<>>, oldest_task_at'[r] # 0 PROVE counts'[r].expired > 0
        <5>1. CASE deque[r] = <<>>
          BY <2>4, <2>5, <2>7, <4>1, <4>3, <5>1
        <5>2. CASE deque[r] # <<>>
          <6>1. gone(r) = Len(deque[r]) /\ Len(deque[r]) # 0
            BY <2>2, <4>1, <4>3, <5>2 DEF gone
          <6> QED
            BY <2>7, <4>1, <6>1
        <5> QED
          BY Zenon, <5>1, <5>2
      <4> QED
        BY Zenon, <4>2, <4>3
    <3> QED
      BY Zenon, <3>1, <3>2 DEF Numbered, BacklogNotUnderstated
  <2>14. IdsStay
    <3>1. Enqueued' = Enqueued /\ Dequeued' = Dequeued
      BY Zenon, <2>7 DEF Enqueued, Dequeued
    <3> QED
      BY Zenon, <2>4, <2>9, <3>1 DEF IdsStay
  <2> QED
    BY Zenon, <2>3, <2>8, <2>10, <2>11, <2>12, <2>13, <2>14 DEF QueueInv
\* An id that is new to the queues is in one position afterwards, like all others.
<1>EnterOnce.
  ASSUME PositionsOnce, NEW q, NEW t, NEW p, NEW b, Enters(q, t, p, b),
         \A r \in Queues : t.id \notin Pending(r)
  PROVE  /\ PositionsOnce'
         /\ Pending(q)' \subseteq Pending(q) \cup {t.id}
         /\ \A r \in Queues : r # q => Pending(r)' = Pending(r)
  <2> USE <1>EnterOnce
  <2> DEFINE s == deque[q]
             u == deque'[q]
  <2>1. q \in Queues /\ \A r \in Queues : r # q => deque'[r] = deque[r]
    BY ZenonT(40) DEF Enters
  <2>2. ASSUME NEW i \in DOMAIN u
        PROVE  \/ i = p /\ u[i] = t
               \/ i # p /\ b[i] \in DOMAIN s /\ u[i] = s[b[i]]
    BY EnteredPositions
  <2>3. \A r \in Queues : \A k \in DOMAIN deque[r] : deque[r][k].id # t.id
    BY Zenon DEF Pending
  <2> HIDE DEF s, u
  <2>4. Pending(q)' \subseteq Pending(q) \cup {t.id}
    <3>1. Pending(q)' = {u[i].id : i \in DOMAIN u} /\ Pending(q) = {s[k].id : k \in DOMAIN s}
      BY Zenon DEF Pending, s, u
    <3> QED
      BY <2>2, <3>1
  <2>5. \A r \in Queues : r # q => Pending(r)' = Pending(r)
    BY Zenon, <2>1 DEF Pending
  <2>6. ASSUME NEW i \in DOMAIN u, NEW j \in DOMAIN u, u[i].id = u[j].id PROVE i = j
    <3>1. CASE i = p \/ j = p
      BY <2>1, <2>2, <2>3, <2>6, <3>1 DEF s
    <3>2. CASE i # p /\ j # p
      <4>1. b[i] \in DOMAIN s /\ b[j] \in DOMAIN s /\ u[i] = s[b[i]] /\ u[j] = s[b[j]]
        BY ZenonT(40), <2>2, <3>2
      <4>2. b[i] = b[j]
        BY SMTT(30), <2>1, <2>6, <4>1 DEF PositionsOnce, s
      <4>3. /\ i \in Nat /\ j \in Nat /\ b[i] \in Nat /\ b[j] \in Nat
            /\ (i < j => b[i] < b[j]) /\ (j < i => b[j] < b[i])
        BY SMTT(30), <3>2, EnteredPositions DEF u
      <4> QED
        BY <4>2, <4>3
    <3> QED
      BY Zenon, <3>1, <3>2
  <2>7. ASSUME NEW i \in DOMAIN u, NEW r \in Queues, r # q, NEW j \in DOMAIN deque[r]
        PROVE  u[i].id # deque[r][j].id
    BY <2>1, <2>2, <2>3, <2>7 DEF PositionsOnce, s
  <2>8. ASSUME NEW x \in Queues, NEW y \in Queues,
               NEW i \in DOMAIN deque'[x], NEW j \in DOMAIN deque'[y],
               deque'[x][i].id = deque'[y][j].id
        PROVE  x = y /\ i = j
    <3>1. CASE x = q /\ y = q
      BY ZenonT(40), <2>6, <2>8, <3>1 DEF u
    <3>2. CASE x = q /\ y # q
      BY SMTT(30), <2>1, <2>7, <2>8, <3>2 DEF u
    <3>3. CASE x # q /\ y = q
      BY <2>1, <2>7, <2>8, <3>3 DEF u
    <3>4. CASE x # q /\ y # q
      BY <2>1, <2>8, <3>4 DEF PositionsOnce
    <3> QED
      BY Zenon, <3>1, <3>2, <3>3, <3>4
  <2>9. PositionsOnce'
    BY Zenon, <2>8 DEF PositionsOnce
  <2> QED
    BY Zenon, <2>4, <2>5, <2>9
\* An insertion keeps the more urgent tasks in front.
<1>EnterUrgent.
  ASSUME TypeOK, UrgentFirst, NEW q, NEW t, NEW p, NEW b, Enters(q, t, p, b)
  PROVE  UrgentFirst'
  <2> USE <1>EnterUrgent
  <2> DEFINE s == deque[q]
             u == deque'[q]
  <2>1. /\ q \in Queues /\ \A r \in Queues : r # q => deque'[r] = deque[r]
        /\ s \in Seq(Task) /\ Len(s) \in Nat /\ DOMAIN s = 1 .. Len(s)
        /\ GoesTo(p, s, t) /\ p \in 1 .. Len(s) + 1
    BY DEF Enters, GoesTo
  <2>2. t.priority \in Nat /\ \A k \in DOMAIN s : s[k].priority \in Nat
    <3>1. t.priority \in Priorities
      BY Zenon DEF Enters, Task
    <3> QED
      BY Zenon, <2>1, <3>1, QueueAssumption, DequeTypes
  <2>3. ASSUME NEW i \in DOMAIN u, NEW j \in DOMAIN u, i < j, u[i].priority > 0, u[j].priority > 0
        PROVE  u[i].priority <= u[j].priority
    <3>1. CASE i # p /\ j # p
      <4>1. /\ b[i] \in DOMAIN s /\ b[j] \in DOMAIN s /\ u[i] = s[b[i]] /\ u[j] = s[b[j]]
            /\ b[i] < b[j]
        BY <2>3, <3>1, EnteredPositions
      <4> QED
        BY ZenonT(40), <2>1, <2>3, <4>1 DEF UrgentFirst
    <3>2. CASE j = p
      <4>1. b[i] \in DOMAIN s /\ u[i] = s[b[i]] /\ u[j] = t /\ b[i] < p
        BY <2>3, <3>2, EnteredPositions
      <4>2. b[i] \in 1 .. p - 1
        BY <2>1, <4>1
      <4> QED
        BY ZenonT(40), <2>1, <2>3, <4>1, <4>2 DEF GoesTo
    <3>3. CASE i = p
      <4>1. b[j] \in DOMAIN s /\ u[j] = s[b[j]] /\ u[i] = t /\ ~(b[j] < p)
        BY SMTT(30), <2>3, <3>3, EnteredPositions
      <4>2. p \in DOMAIN s /\ p <= b[j]
        BY SMTT(30), <2>1, <4>1
      <4>3. s[p].priority > t.priority
        BY <2>1, <4>2 DEF GoesTo
      <4> HIDE DEF s, u
      <4>4. s[p].priority <= s[b[j]].priority
        <5>1. CASE p = b[j]
          BY <2>2, <4>2, <5>1
        <5>2. CASE p # b[j]
          <6>1. p < b[j] /\ s[p].priority > 0 /\ s[b[j]].priority > 0
            BY <2>1, <2>2, <2>3, <4>1, <4>2, <4>3, <5>2
          <6> QED
            BY ZenonT(40), <2>1, <4>1, <4>2, <6>1 DEF UrgentFirst, s
        <5> QED
          BY Zenon, <5>1, <5>2
      <4> QED
        BY SMTT(30), <2>2, <4>1, <4>2, <4>3, <4>4
    <3> QED
      BY Zenon, <3>1, <3>2, <3>3
  <2> QED
    BY ZenonT(40), <2>1, <2>3 DEF UrgentFirst
\* The numbers of the insertions and the backlog's timestamp stay consistent.
<1>EnterNumbered.
  ASSUME TypeOK, Numbered, BacklogNotUnderstated, NEW q, NEW t, NEW p, NEW b,
         Enters(q, t, p, b), CountsEntry(q, t.nth)
  PROVE  Numbered' /\ BacklogNotUnderstated'
  <2> USE <1>EnterNumbered
  <2> DEFINE s == deque[q]
             u == deque'[q]
             n == t.nth
  <2>1. /\ q \in Queues /\ \A r \in Queues : r # q => deque'[r] = deque[r]
        /\ u \in Seq(Task) /\ Len(u) = Len(s) + 1 /\ Len(s) \in Nat
    BY DEF Enters
  <2>2. /\ oldest_task_at[q] \in Nat /\ n \in Nat \ {0}
        /\ \A k \in DOMAIN s : s[k].nth \in Nat /\ s[k].nth <= n
        /\ oldest_task_at[q] <= n
    <3>1. /\ oldest_task_at[q] \in Nat /\ oldest_task_at[q] <= counts[q].enqueued
          /\ \A k \in DOMAIN s : s[k].nth \in Nat /\ s[k].nth <= counts[q].enqueued
      BY Zenon, <2>1, DequeTypes DEF Numbered
    <3>2. counts[q].enqueued \in Nat /\ n = counts[q].enqueued + 1
      BY ZenonT(40) DEF CountsEntry
    <3> HIDE DEF s, n
    <3> QED
      BY <3>1, <3>2
  <2>3. ASSUME NEW i \in DOMAIN u
        PROVE  u[i].nth = n \/ \E k \in DOMAIN s : u[i] = s[k]
    BY EnteredPositions
  <2>4. u # <<>>
    BY <2>1
  <2> HIDE DEF s, u, n
  <2>5. oldest_task_at'[q] = IF oldest_task_at[q] = 0 THEN n ELSE oldest_task_at[q]
    BY Zenon DEF CountsEntry, n
  <2>6. ASSUME NEW r \in Queues
        PROVE  /\ oldest_task_at'[r] <= counts'[r].enqueued
               /\ \A i \in DOMAIN deque'[r] : deque'[r][i].nth <= counts'[r].enqueued
    <3>1. CASE r = q
      <4>1. oldest_task_at'[q] <= n /\ \A i \in DOMAIN u : u[i].nth <= n
        BY <2>2, <2>3, <2>5
      <4>2. counts'[q].enqueued = n
        BY Zenon DEF CountsEntry, n
      <4> QED
        BY ZenonT(40), <3>1, <4>1, <4>2 DEF u
    <3>2. CASE r # q
      BY Zenon, <2>1, <3>2 DEF CountsEntry, Numbered
    <3> QED
      BY Zenon, <3>1, <3>2
  <2>7. ASSUME NEW r \in Queues
        PROVE  /\ \A i \in DOMAIN deque'[r] : oldest_task_at'[r] \in 1 .. deque'[r][i].nth
               /\ deque'[r] = <<>> /\ oldest_task_at'[r] # 0 => counts'[r].expired > 0
    <3>1. CASE r = q
      <4>1. \A k \in DOMAIN s : oldest_task_at[q] \in 1 .. s[k].nth
        BY Zenon, <2>1 DEF BacklogNotUnderstated, s
      <4>2. ASSUME NEW i \in DOMAIN u PROVE oldest_task_at'[q] \in 1 .. u[i].nth
        <5>1. CASE u[i].nth = n
          BY <2>2, <2>5, <5>1
        <5>2. CASE \E k \in DOMAIN s : u[i] = s[k]
          <6>1. PICK k \in DOMAIN s : u[i] = s[k]
            BY Zenon, <5>2
          <6>2. oldest_task_at[q] \in 1 .. s[k].nth /\ oldest_task_at[q] # 0
            BY <2>2, <4>1
          <6> QED
            BY Zenon, <2>5, <6>1, <6>2
        <5> QED
          BY Zenon, <2>3, <5>1, <5>2
      <4> QED
        BY Zenon, <2>4, <3>1, <4>2 DEF u
    <3>2. CASE r # q
      BY Zenon, <2>1, <3>2 DEF CountsEntry, BacklogNotUnderstated
    <3> QED
      BY Zenon, <3>1, <3>2
  <2> QED
    BY ZenonT(40), <2>6, <2>7 DEF Numbered, BacklogNotUnderstated
\* The counters agree with the deque one longer.
<1>EnterCounted.
  ASSUME TypeOK, Counted, NEW q, NEW t, NEW p, NEW b, Enters(q, t, p, b), CountsEntry(q, t.nth)
  PROVE  Counted'
  <2> USE <1>EnterCounted
  <2> SUFFICES ASSUME NEW r \in Queues
               PROVE  counts'[r].enqueued
                        = counts'[r].dequeued + counts'[r].expired + Len(deque'[r])
    BY Zenon DEF Counted
  <2>1. /\ counts[r].enqueued = counts[r].dequeued + counts[r].expired + Len(deque[r])
        /\ counts[r].dequeued \in Nat /\ counts[r].expired \in Nat /\ Len(deque[r]) \in Nat
    BY Zenon, DequeTypes DEF Counted
  <2>2. CASE r = q
    <3>1. /\ counts'[r].enqueued = counts[r].enqueued + 1
          /\ counts'[r].dequeued = counts[r].dequeued
          /\ counts'[r].expired = counts[r].expired
          /\ Len(deque'[r]) = Len(deque[r]) + 1
      BY Zenon, <2>2 DEF CountsEntry, Enters
    <3>2. \A d, x, l \in Nat : (d + x + l) + 1 = d + x + (l + 1)
      OBVIOUS
    <3>3. (counts[r].dequeued + counts[r].expired + Len(deque[r])) + 1
            = counts[r].dequeued + counts[r].expired + (Len(deque[r]) + 1)
      BY Zenon, <2>1, <3>2
    <3> QED
      BY Zenon, <2>1, <3>1, <3>3
  <2>3. CASE r # q
    BY Zenon, <2>1, <2>3 DEF CountsEntry, Enters
  <2> QED
    BY Zenon, <2>2, <2>3
\* An enqueue call that inserts.
<1>EnterCall.
  ASSUME TypeOK, IdsOnce, NEW e \in Inserting, enq' = [enq EXCEPT ![e] = [at |-> "notify"]]
  PROVE  /\ Inserting' = Inserting \ {e} /\ \A f \in Inserting' : enq'[f] = enq[f]
         /\ enq[e].task.id \in InFlight /\ InFlight' = InFlight \ {enq[e].task.id}
  <2> USE <1>EnterCall
  <2>1. enq \in [Enqueuers -> {Idle, [at |-> "notify"]}
                    \cup [at : {"insert"}, queue : Queues, task : Task]]
    BY Zenon DEF TypeOK
  <2>2. Inserting' = Inserting \ {e} /\ \A f \in Inserting' : enq'[f] = enq[f]
    BY Zenon, <2>1 DEF Inserting
  <2>3. InFlight = {enq[f].task.id : f \in Inserting}
    BY Zenon DEF InFlight, Inserting
  <2>4. InFlight' = {enq'[f].task.id : f \in Inserting'}
    BY Zenon DEF InFlight, Inserting
  <2>5. \A f \in Inserting : f # e => enq[f].task.id # enq[e].task.id
    BY Zenon DEF IdsOnce
  <2>6. InFlight' = {enq[f].task.id : f \in Inserting \ {e}}
    BY Zenon, <2>2, <2>4
  <2>7. InFlight' = InFlight \ {enq[e].task.id}
    BY Zenon, <2>3, <2>5, <2>6
  <2> QED
    BY Zenon, <2>2, <2>3, <2>7
\* InsertTask's effect on the counters and on the types.
<1>EnterTypes.
  ASSUME TypeOK, NEW e \in Enqueuers, InsertTask(e), deque' \in [Queues -> Seq(Task)],
         NEW q \in Queues, NEW t, NEW p, Inserts(e, q, t, p)
  PROVE  TypeOK' /\ CountsEntry(q, t.nth)
  <2> USE <1>EnterTypes
  <2> DEFINE n == counts[q].enqueued + 1
  <2>1. /\ known' = known \cup {q}
        /\ counts' = [counts EXCEPT ![q].enqueued = n]
        /\ oldest_task_at' = [oldest_task_at EXCEPT ![q] = IF @ = 0 THEN n ELSE @]
        /\ enq' = [enq EXCEPT ![e] = [at |-> "notify"]]
        /\ UNCHANGED <<next_task_id, shut, poller, closing, taken>>
        /\ t.nth = n
    BY ZenonT(40) DEF InsertTask, KnownWith, Inserts
  <2>2. n \in Nat /\ counts[q].enqueued \in Nat
    BY DequeTypes
  <2>3. n = counts[q].enqueued + 1
    BY Zenon
  <2> HIDE DEF n
  <2>4. /\ counts' \in [Queues -> [enqueued : Nat, dequeued : Nat, expired : Nat]]
        /\ counts'[q].enqueued = n
        /\ \A r \in Queues : /\ counts'[r].dequeued = counts[r].dequeued
                             /\ counts'[r].expired = counts[r].expired
                             /\ r # q => counts'[r].enqueued = counts[r].enqueued
    <3> DEFINE C == [enqueued : Nat, dequeued : Nat, expired : Nat]
               d == [counts[q] EXCEPT !.enqueued = n]
    <3>1. counts \in [Queues -> C] /\ counts[q] \in C
      BY Zenon DEF TypeOK
    <3>2. d \in C /\ d.enqueued = n /\ d.dequeued = counts[q].dequeued
          /\ d.expired = counts[q].expired
      BY Zenon, <2>2, <3>1
    <3>3. counts' = [counts EXCEPT ![q] = d]
      BY Zenon, <2>1
    <3> HIDE DEF d, C
    <3>4. counts' \in [Queues -> C] /\ counts'[q] = d
          /\ \A r \in Queues : r # q => counts'[r] = counts[r]
      BY Zenon, <3>1, <3>2, <3>3
    <3> QED
      BY Zenon, <3>2, <3>4 DEF C
  <2>5. /\ oldest_task_at' \in [Queues -> Nat]
        /\ oldest_task_at'[q] = IF oldest_task_at[q] = 0 THEN n ELSE oldest_task_at[q]
        /\ \A r \in Queues : r # q => oldest_task_at'[r] = oldest_task_at[r]
    BY Zenon, <2>1, <2>2 DEF TypeOK
  <2>6. enq' \in [Enqueuers -> {Idle, [at |-> "notify"]}
                    \cup [at : {"insert"}, queue : Queues, task : Task]]
    BY Zenon, <2>1 DEF TypeOK
  <2>7. known' \subseteq Queues /\ shut' \subseteq known'
    BY Zenon, <2>1 DEF TypeOK
  <2>8. TypeOK'
    BY Zenon, <2>1, <2>4, <2>5, <2>6, <2>7 DEF TypeOK
  <2>9. CountsEntry(q, t.nth)
    BY Zenon, <2>1, <2>2, <2>3, <2>4, <2>5 DEF CountsEntry
  <2> QED
    BY Zenon, <2>8, <2>9
\* enqueue inserts its task.
<1>InsertInv.
  ASSUME QueueInv, NEW e \in Enqueuers, InsertTask(e), deque' \in [Queues -> Seq(Task)],
         NEW q \in Queues, NEW t, NEW p, Inserts(e, q, t, p)
  PROVE  QueueInv' /\ IdQueued(q)
  <2> USE <1>InsertInv
  <2>0. /\ TypeOK /\ PositionsOnce /\ IdsOnce /\ IdsIssued /\ Counted
        /\ UrgentFirst /\ Numbered /\ BacklogNotUnderstated
    BY Zenon DEF QueueInv, IdsOnce, PositionsOnce
  <2>1. PICK b : Enters(q, t, p, b)
    BY Zenon, InsertEnters
  <2>2. /\ e \in Inserting /\ t.id = enq[e].task.id /\ UNCHANGED <<next_task_id, taken>>
        /\ enq' = [enq EXCEPT ![e] = [at |-> "notify"]]
    BY Zenon DEF Inserts, InsertTask
  <2>3. TypeOK' /\ CountsEntry(q, t.nth)
    BY Zenon, <2>0, <1>EnterTypes
  <2>4. /\ Inserting' = Inserting \ {e} /\ \A f \in Inserting' : enq'[f] = enq[f]
        /\ t.id \in InFlight /\ InFlight' = InFlight \ {t.id}
    BY Zenon, <2>0, <2>2, <1>EnterCall
  <2>5. t.id \notin taken /\ \A r \in Queues : t.id \notin Pending(r)
    BY Zenon, <2>0, <2>4 DEF IdsOnce
  <2>6. /\ PositionsOnce' /\ Pending(q)' \subseteq Pending(q) \cup {t.id}
        /\ \A r \in Queues : r # q => Pending(r)' = Pending(r)
    BY Zenon, <2>0, <2>1, <2>5, <1>EnterOnce
  <2>7. IdsOnce'
    <3>1. \A f, g \in Inserting' : enq'[f].task.id = enq'[g].task.id => f = g
      BY <2>0, <2>4 DEF IdsOnce
    <3>2. \A r \in Queues : Pending(r)' \cap (taken' \cup InFlight') = {}
      <4>1. \A r \in Queues : Pending(r)' \subseteq Pending(r) \cup {t.id}
        BY Zenon, <2>6
      <4>2. \A r \in Queues : Pending(r) \cap (taken \cup InFlight) = {}
        BY Zenon, <2>0 DEF IdsOnce
      <4>3. taken' = taken
        BY Zenon, <2>2
      <4> QED
        BY Zenon, <2>4, <2>5, <4>1, <4>2, <4>3
    <3>3. taken' \cap InFlight' = {}
      BY Zenon, <2>0, <2>2, <2>4 DEF IdsOnce
    <3> QED
      BY ZenonT(40), <2>6, <3>1, <3>2, <3>3 DEF IdsOnce, PositionsOnce
  <2>8. IdsIssued'
    BY Zenon, <2>0, <2>2, <2>4, <2>6 DEF IdsIssued
  <2>9. UrgentFirst' /\ Numbered' /\ BacklogNotUnderstated' /\ Counted'
    BY Zenon, <2>0, <2>1, <2>3, <1>EnterUrgent, <1>EnterNumbered, <1>EnterCounted
  <2>10. IdQueued(q)
    <3>1. Dequeued' = Dequeued
      BY Zenon, <2>3 DEF Dequeued, CountsEntry
    <3>2. OneMoreAt(Enqueued', Enqueued, q)
      BY Zenon, <2>3 DEF Enqueued, OneMoreAt, CountsEntry
    <3> QED
      BY Zenon, <2>2, <2>4, <3>1, <3>2 DEF IdQueued
  <2> QED
    BY Zenon, <2>3, <2>7, <2>8, <2>9, <2>10 DEF QueueInv
\* The steps that only move pollers, or only mark queues as shut down.
<1>PollersInv.
  ASSUME QueueInv, UNCHANGED <<next_task_id, known, deque, counts, oldest_task_at, enq, taken>>,
         shut' \subseteq known, closing' \in BOOLEAN, poller' \in [Pollers -> PollerStates]
  PROVE  QueueInv' /\ IdsStay
  <2> USE <1>PollersInv
  <2>1. TypeOK'
    BY Zenon DEF QueueInv, TypeOK, PollerStates
  <2>2. Inserting' = Inserting /\ \A e \in Inserting : enq'[e] = enq[e]
    BY Zenon DEF Inserting
  <2> QED
    BY Zenon, <2>1, <2>2, <1>QuietInv
\* NotifyOne wakes a poller and ends the enqueue call.
<1>NotifyInv.
  ASSUME QueueInv, NEW e \in Enqueuers, NotifyOne(e)
  PROVE  QueueInv' /\ IdsStay
  <2> USE <1>NotifyInv
  <2>0. TypeOK
    BY Zenon DEF QueueInv
  <2>1. poller' \in [Pollers -> PollerStates]
    <3>1. CASE UNCHANGED poller
      BY Zenon, <2>0, <3>1 DEF TypeOK, PollerStates
    <3>2. CASE \E w \in Waiting : poller' = Wake(w)
      <4>1. PICK w \in Waiting : poller' = Wake(w)
        BY Zenon, <3>2
      <4>2. w \in Pollers /\ poller[w].at = "waiting"
        BY Zenon, <4>1 DEF Waiting
      <4> QED
        BY Zenon, <2>0, <4>1, <4>2, WakeType, PollerMoves DEF Wake
    <3> QED
      BY Zenon, <3>1, <3>2 DEF NotifyOne, WakeOne
  <2>2. /\ enq[e].at = "notify" /\ enq' = [enq EXCEPT ![e] = Idle]
        /\ UNCHANGED <<next_task_id, known, deque, shut, counts, oldest_task_at, closing, taken>>
    BY Zenon DEF NotifyOne, queueVars
  <2>3. TypeOK'
    <3>1. enq' \in [Enqueuers -> {Idle, [at |-> "notify"]}
                      \cup [at : {"insert"}, queue : Queues, task : Task]]
      BY Zenon, <2>0, <2>2 DEF TypeOK
    <3> QED
      BY Zenon, <2>0, <2>1, <2>2, <3>1 DEF TypeOK, PollerStates
  <2>4. Inserting' = Inserting /\ \A f \in Inserting : enq'[f] = enq[f]
    <3>1. enq \in [Enqueuers -> {Idle, [at |-> "notify"]}
                      \cup [at : {"insert"}, queue : Queues, task : Task]]
      BY Zenon, <2>0 DEF TypeOK
    <3> QED
      BY Zenon, <2>2, <3>1 DEF Inserting, Idle
  <2> QED
    BY Zenon, <2>2, <2>3, <2>4, <1>QuietInv
<1>0. TypeOK /\ shut \subseteq known /\ closing \in BOOLEAN
      /\ poller \in [Pollers -> PollerStates] /\ Idle \in PollerStates
  BY Zenon DEF QueueInv, TypeOK, PollerStates
<1> DEFINE Quiet == QueueInv' /\ IdsStay
<1>1. ASSUME NEW e \in Enqueuers, NEW q \in Queues, NEW p \in Priorities, NEW d \in Deadlines,
             TakeId(e, q, p, d)
      PROVE  QueueInv' /\ IdIssued
  BY Zenon, <1>1, <1>TakeIdInv
<1>2. ASSUME NEW e \in Enqueuers, InsertTask(e)
      PROVE  QueueInv' /\ \E q \in Queues : IdQueued(q)
  <2>1. deque' \in [Queues -> Seq(Task)] /\ \E q, t, p : Inserts(e, q, t, p)
    BY Zenon, <1>2 DEF DequesMove
  <2>2. PICK q, t, p : Inserts(e, q, t, p)
    BY Zenon, <2>1
  <2>3. q \in Queues
    BY Zenon, <2>2 DEF Inserts
  <2> QED
    BY Zenon, <1>2, <2>1, <2>2, <2>3, <1>InsertInv
<1>3. ASSUME NEW e \in Enqueuers, NotifyOne(e) PROVE Quiet
  BY Zenon, <1>3, <1>NotifyInv
<1>4. ASSUME NEW w \in Pollers, NEW q \in Queues, NEW timed \in BOOLEAN, StartPoll(w, q, timed)
      PROVE  Quiet
  <2>1. [at |-> "checking", queue |-> q, timed |-> timed] \in PollerStates
    BY Zenon DEF PollerStates
  <2>2. poller' \in [Pollers -> PollerStates]
    BY Zenon, <1>0, <1>4, <2>1, PollerMoves DEF StartPoll
  <2> QED
    BY Zenon, <1>0, <1>4, <2>2, <1>PollersInv DEF StartPoll, queueVars
<1>5. ASSUME NEW w \in Pollers, PollTask(w) PROVE QueueInv' /\ \E q \in Queues : IdTaken(q)
  <2>1. poller[w].queue \in Queues
    BY Zenon, <1>0, <1>5, CallTypes DEF PollTask
  <2>2. poller' \in [Pollers -> PollerStates]
    BY Zenon, <1>0, <1>5, PollerMoves DEF PollTask
  <2> QED
    BY Zenon, <1>5, <2>1, <2>2, <1>PopInv DEF PollTask
<1>6. ASSUME NEW w \in Pollers, PollNone(w) PROVE Quiet
  <2>1. poller' \in [Pollers -> PollerStates]
    BY Zenon, <1>0, <1>6, PollerMoves DEF PollNone
  <2> QED
    BY Zenon, <1>0, <1>6, <2>1, <1>PollersInv DEF PollNone, queueVars
<1>7. ASSUME NEW w \in Pollers, PollWait(w) PROVE Quiet
  <2>1. poller' = [poller EXCEPT ![w].at = "waiting"] /\ poller[w].at = "checking"
    BY Zenon, <1>7 DEF PollWait
  <2>2. poller' \in [Pollers -> PollerStates]
    BY Zenon, <1>0, <2>1, WakeType, PollerMoves
  <2> QED
    BY Zenon, <1>0, <1>7, <2>2, <1>PollersInv DEF PollWait, queueVars
<1>8. ASSUME NEW w \in Pollers, WakeUnnotified(w) PROVE Quiet
  <2>1. poller' = [poller EXCEPT ![w].at = "checking"] /\ poller[w].at = "waiting"
    BY Zenon, <1>8 DEF WakeUnnotified, Waiting, Wake
  <2>2. poller' \in [Pollers -> PollerStates]
    BY Zenon, <1>0, <2>1, WakeType, PollerMoves
  <2> QED
    BY Zenon, <1>0, <1>8, <2>2, <1>PollersInv DEF WakeUnnotified, queueVars
<1>9. ASSUME NEW q \in Queues, TryPoll(q) PROVE QueueInv' /\ IdTaken(q)
  BY Zenon, <1>0, <1>9, <1>PopInv DEF TryPoll
<1>10. ASSUME NEW now \in Clock, RemoveExpired(now) PROVE Quiet
  BY Zenon, <1>10, <1>ExpiryInv DEF DequesMove
<1>11. CASE ShutdownMark
  <2>1. shut' \subseteq known /\ closing' \in BOOLEAN /\ poller' \in [Pollers -> PollerStates]
    BY Zenon, <1>0, <1>11 DEF ShutdownMark
  <2>2. Quiet
    BY Zenon, <1>11, <2>1, <1>PollersInv DEF ShutdownMark
  <2> QED
    BY Zenon, <2>2 DEF IdsMove
<1>12. CASE ShutdownNotify
  <2>1. \A w \in Waiting : w \in Pollers /\ [poller[w] EXCEPT !.at = "checking"] \in PollerStates
    BY Zenon, <1>0, WakeType DEF Waiting
  <2>2. poller' \in [Pollers -> PollerStates]
    BY Zenon, <1>0, <1>12, <2>1 DEF ShutdownNotify, WakeAll
  <2>3. Quiet
    BY Zenon, <1>0, <1>12, <2>2, <1>PollersInv DEF ShutdownNotify, queueVars
  <2> QED
    BY Zenon, <2>3 DEF IdsMove
<1>13. CASE UNCHANGED vars
  <2>1. Quiet
    BY Zenon, <1>0, <1>13, <1>PollersInv DEF vars
  <2> QED
    BY Zenon, <2>1 DEF IdsMove
<1> QED
  BY Zenon, <1>1, <1>2, <1>3, <1>4, <1>5, <1>6, <1>7, <1>8, <1>9, <1>10, <1>11, <1>12, <1>13
     DEF Next, Poll, IdsMove

-----------------------------------------------------------------------------
(* What a step does to the order, and to tasks without a deadline *)

\* The order of two tasks of queue q.
Ahead(q, a, b) == \E k, l \in DOMAIN deque[q] : k < l /\ deque[q][k] = a /\ deque[q][l] = b

\* What NoOvertaking says of a step.
InOrder ==
  \A q \in Queues : \A i, j \in DOMAIN deque'[q] :
    LET a == deque'[q][i]
        b == deque'[q][j]
    IN  i < j /\ b.id \in Pending(q) =>
          IF a.id \in Pending(q) THEN Ahead(q, a, b)
          ELSE b.priority > 0 => a.priority < b.priority

\* Every step keeps the queues in order.
LEMMA StepInOrder ==
  ASSUME QueueInv, [Next]_vars, DequesMove
  PROVE  InOrder
\* A step leaves a part of every deque, in its order, or inserts one task.
<1>DequeSteps.
  ASSUME TypeOK, [Next]_vars, DequesMove
  PROVE  Shrinks \/ \E e, q, t, p : Inserts(e, q, t, p)
  <2> USE <1>DequeSteps
  <2>1. CASE UNCHANGED deque
    BY Zenon, <2>1, QuietShrinks
  <2>2. ASSUME NEW e \in Enqueuers, InsertTask(e) PROVE \E q, t, p : Inserts(e, q, t, p)
    BY Zenon, <2>2 DEF DequesMove
  <2>3. ASSUME NEW q \in Queues, Pop(q) PROVE Shrinks
    BY Zenon, <2>3, PopShrinks
  <2>4. ASSUME NEW w \in Pollers, PollTask(w) PROVE poller[w].queue \in Queues /\ Pop(poller[w].queue)
    BY Zenon, <2>4, CallTypes DEF PollTask
  <2>5. ASSUME NEW now \in Clock, RemoveExpired(now) PROVE Shrinks
    BY Zenon, <2>5 DEF DequesMove, Expires
  <2> QED
    BY Zenon, <2>1, <2>2, <2>3, <2>4, <2>5
       DEF Next, Poll, TakeId, NotifyOne, StartPoll, PollNone, PollWait, WakeUnnotified, TryPoll,
           ShutdownMark, ShutdownNotify, queueVars, vars
\* Two positions of a queue of which a part is left keep their order.
<1>PartInOrder.
  ASSUME NEW q, deque[q] \in Seq(Task), deque'[q] \in Seq(Task),
         \E m : Embeds(m, deque'[q], deque[q]),
         NEW i \in DOMAIN deque'[q], NEW j \in DOMAIN deque'[q], i < j
  PROVE  deque'[q][i].id \in Pending(q) /\ Ahead(q, deque'[q][i], deque'[q][j])
  <2> USE <1>PartInOrder
  <2>1. PICK m : Embeds(m, deque'[q], deque[q])
    BY Zenon
  <2>2. DOMAIN deque'[q] = 1 .. Len(deque'[q]) /\ DOMAIN deque[q] = 1 .. Len(deque[q])
    OBVIOUS
  <2>3. /\ m[i] \in DOMAIN deque[q] /\ m[j] \in DOMAIN deque[q] /\ m[i] < m[j]
        /\ deque[q][m[i]] = deque'[q][i] /\ deque[q][m[j]] = deque'[q][j]
    BY Zenon, <2>1, <2>2 DEF Embeds
  <2> QED
    BY Zenon, <2>3 DEF Pending, Ahead
\* A position in front of a task that was there holds a task that was in front
\* of it, or a new and more urgent one.
<1>EnteredInOrder.
  ASSUME TypeOK, UrgentFirst, NEW q, NEW t, NEW p, NEW b, Enters(q, t, p, b),
         t.id \notin Pending(q), NEW i \in DOMAIN deque'[q], NEW j \in DOMAIN deque'[q], i < j,
         deque'[q][j].id \in Pending(q)
  PROVE  /\ i # p => deque'[q][i].id \in Pending(q) /\ Ahead(q, deque'[q][i], deque'[q][j])
         /\ i = p => /\ deque'[q][i] = t
                     /\ deque'[q][j].priority > 0 => t.priority < deque'[q][j].priority
  <2> USE <1>EnteredInOrder
  <2> DEFINE s == deque[q]
             u == deque'[q]
  <2>1. /\ q \in Queues /\ Len(s) \in Nat /\ DOMAIN s = 1 .. Len(s)
        /\ GoesTo(p, s, t) /\ p \in 1 .. Len(s) + 1
    BY DEF Enters, GoesTo
  <2>2. j # p /\ b[j] \in DOMAIN s /\ u[j] = s[b[j]]
    BY EnteredPositions
  <2>3. ASSUME i # p PROVE u[i].id \in Pending(q) /\ Ahead(q, u[i], u[j])
    <3>1. b[i] \in DOMAIN s /\ u[i] = s[b[i]] /\ b[i] < b[j]
      BY SMTT(30), <2>2, <2>3, EnteredPositions
    <3> QED
      BY ZenonT(40), <2>2, <3>1 DEF Pending, Ahead
  <2>4. ASSUME i = p, u[j].priority > 0 PROVE t.priority < u[j].priority
    <3>1. t.priority \in Nat /\ \A k \in DOMAIN s : s[k].priority \in Nat
      <4>1. t.priority \in Nat
        <5>1. t \in Task
          BY Zenon DEF Enters
        <5>2. \A x \in Task : x.priority \in Nat
          BY Zenon, QueueAssumption DEF Task
        <5> QED
          BY Zenon, <5>1, <5>2
      <4>2. \A k \in DOMAIN s : s[k].priority \in Nat
        BY ZenonT(40), <2>1, DequeTypes
      <4> QED
        BY Zenon, <4>1, <4>2
    <3>2. ~(b[j] < p) /\ b[j] \in Nat
      BY SMTT(30), <2>2, <2>4, EnteredPositions
    <3>3. p \in DOMAIN s /\ p <= b[j]
      BY SMTT(30), <2>1, <2>2, <3>2
    <3>4. s[p].priority > t.priority
      BY <2>1, <3>3 DEF GoesTo
    <3>5. s[p].priority <= s[b[j]].priority
      <4>1. CASE p = b[j]
        BY <3>1, <3>3, <4>1
      <4>2. CASE p # b[j]
        <5>1. p < b[j] /\ s[p].priority > 0 /\ s[b[j]].priority > 0
          BY SMTT(30), <2>1, <2>2, <2>4, <3>1, <3>3, <3>4, <4>2
        <5> QED
          BY ZenonT(40), <2>1, <2>2, <3>3, <5>1 DEF UrgentFirst
      <4> QED
        BY Zenon, <4>1, <4>2
    <3> HIDE DEF s, u
    <3> QED
      BY <2>2, <3>1, <3>3, <3>4, <3>5
  <2>5. i = p => u[i] = t
    BY EnteredPositions
  <2> QED
    BY ZenonT(40), <2>3, <2>4, <2>5
<1>0. TypeOK /\ TypeOK' /\ UrgentFirst
  BY Zenon, NextInv DEF QueueInv
<1> SUFFICES ASSUME NEW q \in Queues, NEW i \in DOMAIN deque'[q], NEW j \in DOMAIN deque'[q],
                    i < j, deque'[q][j].id \in Pending(q)
             PROVE  IF deque'[q][i].id \in Pending(q)
                    THEN Ahead(q, deque'[q][i], deque'[q][j])
                    ELSE deque'[q][j].priority > 0
                           => deque'[q][i].priority < deque'[q][j].priority
  BY Zenon DEF InOrder
<1>1. deque[q] \in Seq(Task) /\ deque'[q] \in Seq(Task)
  BY Zenon, <1>0 DEF TypeOK
<1>2. CASE \E m : Embeds(m, deque'[q], deque[q])
  BY Zenon, <1>1, <1>2, <1>PartInOrder
<1>3. ASSUME NEW e, NEW r, NEW t, NEW p, Inserts(e, r, t, p)
      PROVE  \/ \E m : Embeds(m, deque'[q], deque[q])
             \/ \E b : Enters(q, t, p, b) /\ t.id \notin Pending(q)
  <2>1. CASE q # r
    <3>1. deque'[q] = deque[q]
      BY Zenon, <1>3, <2>1 DEF Inserts
    <3> QED
      BY Zenon, <1>1, <3>1, SameEmbeds
  <2>2. CASE q = r
    <3>1. \E b : Enters(q, t, p, b)
      BY Zenon, <1>3, <2>2, InsertEnters
    <3>2. t.id \in InFlight
      BY Zenon, <1>3 DEF Inserts, InFlight, Inserting
    <3> QED
      BY Zenon, <3>1, <3>2 DEF QueueInv, IdsOnce
  <2> QED
    BY Zenon, <2>1, <2>2
<1>4. ASSUME NEW t, NEW p, NEW b, Enters(q, t, p, b), t.id \notin Pending(q)
      PROVE  IF deque'[q][i].id \in Pending(q)
             THEN Ahead(q, deque'[q][i], deque'[q][j])
             ELSE deque'[q][j].priority > 0
                    => deque'[q][i].priority < deque'[q][j].priority
  BY Zenon, <1>0, <1>4, <1>EnteredInOrder
<1>5. CASE Shrinks
  BY Zenon, <1>2, <1>5 DEF Shrinks
<1> QED
  BY Zenon, <1>0, <1>2, <1>3, <1>4, <1>5, <1>DequeSteps

\* What NeverExpires says of a step.
DeadlineFreeStay ==
  \A q \in Queues : \A i \in DOMAIN deque[q] :
    deque[q][i].deadline = 0 => deque[q][i].id \in Pending(q)' \cup taken'

\* Every step but a poll leaves the tasks without a deadline in their queues.
LEMMA StepKeepsDeadlineFree ==
  ASSUME QueueInv, [Next]_vars, DequesMove
  PROVE  DeadlineFreeStay
<1>0. TypeOK
  BY Zenon DEF QueueInv
<1>1. \A q \in Queues : DOMAIN deque[q] = 1 .. Len(deque[q]) /\ deque[q] \in Seq(Task)
  BY Zenon, <1>0, DequeTypes
<1>2. CASE UNCHANGED deque
  BY Zenon, <1>2 DEF DeadlineFreeStay, Pending
<1>3. ASSUME NEW e \in Enqueuers, InsertTask(e) PROVE DeadlineFreeStay
  <2>1. PICK q, t, p : Inserts(e, q, t, p)
    BY Zenon, <1>3 DEF DequesMove
  <2>2. PICK b : Enters(q, t, p, b)
    BY Zenon, <2>1, InsertEnters
  <2>3. /\ DOMAIN deque'[q] = 1 .. Len(deque'[q])
        /\ \A k \in 1 .. Len(deque[q]) :
             \E i \in (1 .. Len(deque'[q])) \ {p} : deque'[q][i] = deque[q][k]
        /\ \A r \in Queues : r # q => deque'[r] = deque[r]
    <3>1. DOMAIN deque'[q] = 1 .. Len(deque'[q]) /\ Displaced(b, deque'[q], p, deque[q])
      BY <2>2 DEF Enters
    <3> QED
      BY ZenonT(40), <2>2, <3>1 DEF Enters, Displaced
  <2>4. ASSUME NEW k \in DOMAIN deque[q], q \in Queues PROVE deque[q][k].id \in Pending(q)'
    <3>1. PICK i \in (1 .. Len(deque'[q])) \ {p} : deque'[q][i] = deque[q][k]
      <4>1. k \in 1 .. Len(deque[q])
        BY Zenon, <1>1, <2>4
      <4> QED
        BY Zenon, <2>3, <4>1
    <3> QED
      BY Zenon, <2>3, <3>1 DEF Pending
  <2>5. ASSUME NEW r \in Queues, r # q, NEW k \in DOMAIN deque[r]
        PROVE  deque[r][k].id \in Pending(r)'
    BY Zenon, <2>3, <2>5 DEF Pending
  <2> QED
    BY Zenon, <2>4, <2>5 DEF DeadlineFreeStay
<1>4. ASSUME NEW q \in Queues, Pop(q) PROVE DeadlineFreeStay
  <2>1. /\ deque[q] \in Seq(Task) /\ deque[q] # <<>> /\ deque'[q] = Tail(deque[q])
        /\ \A r \in Queues : r # q => deque'[r] = deque[r]
    BY Zenon, <1>0, <1>4, PopShrinks
  <2>2. taken' = taken \cup {deque[q][1].id}
    BY Zenon, <1>4, <2>1, TailKeeps DEF Pop
  <2>3. /\ Len(deque[q]) \in Nat /\ DOMAIN Tail(deque[q]) = 1 .. Len(deque[q]) - 1
        /\ \A i \in 1 .. Len(deque[q]) - 1 : Tail(deque[q])[i] = deque[q][i + 1]
    BY <2>1, TailKeeps
  <2>4. ASSUME NEW k \in DOMAIN deque[q], k # 1 PROVE deque[q][k].id \in Pending(q)'
    <3>1. k - 1 \in 1 .. Len(deque[q]) - 1 /\ (k - 1) + 1 = k
      BY <1>1, <2>3, <2>4
    <3>2. k - 1 \in DOMAIN deque'[q] /\ deque'[q][k - 1] = deque[q][k]
      BY Zenon, <2>1, <2>3, <3>1
    <3> QED
      BY Zenon, <3>2 DEF Pending
  <2>5. ASSUME NEW r \in Queues, r # q, NEW k \in DOMAIN deque[r]
        PROVE  deque[r][k].id \in Pending(r)'
    BY Zenon, <2>1, <2>5 DEF Pending
  <2> QED
    BY Zenon, <2>2, <2>4, <2>5 DEF DeadlineFreeStay
<1>5. ASSUME NEW w \in Pollers, PollTask(w) PROVE poller[w].queue \in Queues /\ Pop(poller[w].queue)
  BY Zenon, <1>0, <1>5, CallTypes DEF PollTask
<1>6. ASSUME NEW now \in Clock, RemoveExpired(now) PROVE DeadlineFreeStay
  <2>1. \A q \in Queues : /\ deque'[q] \in Seq(Task)
                          /\ \A k \in 1 .. Len(deque[q]) : LiveAt(deque[q][k], now) =>
                               \E i \in 1 .. Len(deque'[q]) : deque'[q][i] = deque[q][k]
    BY Zenon, <1>6 DEF DequesMove, Expires
  <2>2. ASSUME NEW q \in Queues, NEW k \in DOMAIN deque[q], deque[q][k].deadline = 0
        PROVE  deque[q][k].id \in Pending(q)'
    <3>1. LiveAt(deque[q][k], now)
      BY Zenon, <2>2 DEF LiveAt
    <3>2. PICK i \in 1 .. Len(deque'[q]) : deque'[q][i] = deque[q][k]
      BY Zenon, <1>1, <2>1, <3>1
    <3>3. DOMAIN deque'[q] = 1 .. Len(deque'[q])
      BY <2>1
    <3> QED
      BY Zenon, <3>2, <3>3 DEF Pending
  <2> QED
    BY Zenon, <2>2 DEF DeadlineFreeStay
<1> QED
  BY Zenon, <1>2, <1>3, <1>4, <1>5, <1>6
     DEF Next, Poll, TakeId, NotifyOne, StartPoll, PollNone, PollWait, WakeUnnotified, TryPoll,
         ShutdownMark, ShutdownNotify, queueVars, vars

-----------------------------------------------------------------------------
(* The deques change that way *)

\* remove_expired leaves the live tasks of every deque.
LEMMA ExpiryShrinks ==
  ASSUME SetFacts, TypeOK, NEW now, RemoveExpired(now)
  PROVE  Expires(now)
<1>1. \A q \in Queues : deque'[q] = Retained(deque[q], now) /\ deque[q] \in Seq(Task)
  BY Zenon DEF RemoveExpired, Kept, TypeOK
<1>2. deque' = [q \in Queues |-> Retained(deque[q], now)]
  BY ZenonT(40) DEF RemoveExpired, Kept
<1>3. ASSUME NEW q \in Queues
      PROVE  /\ deque'[q] \in Seq(Task) /\ Len(deque'[q]) <= Len(deque[q])
             /\ \E m : Embeds(m, deque'[q], deque[q])
             /\ \A k \in 1 .. Len(deque[q]) : LiveAt(deque[q][k], now) =>
                  \E i \in 1 .. Len(deque'[q]) : deque'[q][i] = deque[q][k]
  BY SMTT(30), <1>1, RetainKeeps
<1>4. deque' \in [Queues -> Seq(Task)]
  BY Zenon, <1>1, <1>2, <1>3
<1> QED
  BY Zenon, <1>3, <1>4 DEF Shrinks, Expires

\* enqueue inserts its task into its queue.
LEMMA InsertPlaces ==
  ASSUME SetFacts, TypeOK, NEW e \in Enqueuers, InsertTask(e)
  PROVE  /\ \E q, t, p : Inserts(e, q, t, p)
         /\ deque' \in [Queues -> Seq(Task)]
<1> DEFINE q == enq[e].queue
           n == counts[q].enqueued + 1
           t == [enq[e].task EXCEPT !.nth = n]
<1>1. q \in Queues /\ enq[e].task \in Task /\ e \in Inserting
  BY Zenon, CallTypes DEF InsertTask, Inserting
<1>2. n \in Nat /\ deque[q] \in Seq(Task)
  BY <1>1 DEF TypeOK
<1>3. deque' = [deque EXCEPT ![q] = Placed(deque[q], t)]
  BY Zenon DEF InsertTask
<1> HIDE DEF q, n
<1>4. t \in Task /\ t.id = enq[e].task.id /\ t.nth = n
  BY Zenon, <1>1, <1>2 DEF Task
<1> HIDE DEF t
<1>5. /\ Placed(deque[q], t) \in Seq(Task)
      /\ \E p : GoesTo(p, deque[q], t) /\ InsertedAt(Placed(deque[q], t), p, deque[q], t)
  BY Zenon, <1>2, <1>4, PlacedAt
<1>6. /\ deque' \in [Queues -> Seq(Task)] /\ deque'[q] = Placed(deque[q], t)
      /\ \A r \in Queues : r # q => deque'[r] = deque[r]
  BY Zenon, <1>1, <1>3, <1>5 DEF TypeOK
<1>7. PICK p : GoesTo(p, deque[q], t) /\ InsertedAt(deque'[q], p, deque[q], t)
  BY Zenon, <1>5, <1>6
<1>8. Inserts(e, q, t, p)
  BY Zenon, <1>1, <1>2, <1>4, <1>5, <1>6, <1>7 DEF Inserts, q, n
<1> QED
  BY Zenon, <1>6, <1>8

\* A step moves the deques as TaskQueueSteps takes it to.
LEMMA DequesMoved ==
  ASSUME SetFacts, TypeOK
  PROVE  DequesMove
BY Zenon, ExpiryShrinks, InsertPlaces DEF DequesMove

-----------------------------------------------------------------------------
(* The totals of the counters *)

\* The ids that are anywhere can be counted, and so can what is summed up.
LEMMA IdCounts ==
  ASSUME SetFacts, QueueInv
  PROVE  /\ IsFiniteSet(taken) /\ IsFiniteSet(InFlight)
         /\ Cardinality(taken) \in Nat /\ Cardinality(InFlight) \in Nat
         /\ next_task_id \in Nat
         /\ Dequeued \in [Queues -> Nat] /\ Enqueued \in [Queues -> Nat]
<1>1. next_task_id - 1 \in Nat /\ next_task_id \in Nat
  BY QueueAssumption DEF QueueInv, TypeOK
<1>2. IsFiniteSet(1 .. next_task_id - 1)
  BY <1>1, IntervalFinite
<1>3. taken \subseteq 1 .. next_task_id - 1 /\ InFlight \subseteq 1 .. next_task_id - 1
  BY Zenon DEF QueueInv, IdsIssued
<1>4. IsFiniteSet(taken) /\ IsFiniteSet(InFlight)
  BY Zenon, <1>2, <1>3, SubsetSize
<1>5. Cardinality(taken) \in Nat /\ Cardinality(InFlight) \in Nat
  BY Zenon, <1>4, SizeType
<1>6. \A q \in Queues : counts[q].dequeued \in Nat /\ counts[q].enqueued \in Nat
  BY Zenon, DequeTypes DEF QueueInv
<1> QED
  BY ZenonT(40), <1>1, <1>4, <1>5, <1>6 DEF Dequeued, Enqueued

\* A step moves at most one id, and the counters with it.
LEMMA TotalsNext ==
  ASSUME SetFacts, QueueInv, QueueInv', Totals, IdsMove
  PROVE  Totals'
<1> DEFINE SD == SumOver(Queues, Dequeued)
           SE == SumOver(Queues, Enqueued)
           T == Cardinality(taken)
           F == Cardinality(InFlight)
<1>1. /\ IsFiniteSet(taken) /\ IsFiniteSet(InFlight) /\ T \in Nat /\ F \in Nat
      /\ next_task_id \in Nat
      /\ Dequeued \in [Queues -> Nat] /\ Enqueued \in [Queues -> Nat]
  BY Zenon, IdCounts
<1>2. Dequeued' \in [Queues -> Nat] /\ Enqueued' \in [Queues -> Nat]
  <2>1. \A q \in Queues : counts'[q].dequeued \in Nat /\ counts'[q].enqueued \in Nat
    BY Zenon, QueueAssumption DEF QueueInv, TypeOK
  <2> QED
    BY Zenon, <2>1 DEF Dequeued, Enqueued
<1>3. IsFiniteSet(Queues)
  BY Zenon, QueueAssumption
<1>4. SD \in Nat /\ SE \in Nat
  BY Zenon, <1>1, <1>3, SumLaws
<1>5. T = SD /\ next_task_id - 1 = F + SE
  BY Zenon DEF Totals
<1> HIDE DEF SD, SE, T, F
<1>6. CASE IdsStay
  BY Zenon, <1>5, <1>6 DEF IdsStay, Totals, SD, SE, T, F
<1>7. CASE IdIssued
  <2>1. Cardinality(InFlight \cup {next_task_id}) = F + 1
    BY Zenon, <1>1, <1>7, AddElement DEF IdIssued, F
  <2>2. Cardinality(InFlight') = F + 1 /\ next_task_id' - 1 = (F + 1) + SE
    BY <1>1, <1>4, <1>5, <1>7, <2>1 DEF IdIssued
  <2> QED
    BY Zenon, <1>5, <1>7, <2>2 DEF IdIssued, Totals, SD, SE, T
<1>8. ASSUME NEW q \in Queues, IdQueued(q) PROVE Totals'
  <2>1. PICK x \in InFlight : InFlight' = InFlight \ {x}
    BY Zenon, <1>8 DEF IdQueued
  <2>2. Cardinality(InFlight') = F - 1
    BY ZenonT(40), <1>1, <2>1, RemoveElement DEF F
  <2>3. SumOver(Queues, Enqueued') = SE + 1
    BY <1>1, <1>2, <1>3, <1>8, SumLaws DEF IdQueued, OneMoreAt, SE
  <2>4. next_task_id' - 1 = Cardinality(InFlight') + SumOver(Queues, Enqueued')
    BY <1>1, <1>4, <1>5, <1>8, <2>2, <2>3 DEF IdQueued
  <2> QED
    BY Zenon, <1>5, <1>8, <2>4 DEF IdQueued, Totals, SD, T
<1>9. ASSUME NEW q \in Queues, IdTaken(q) PROVE Totals'
  <2>1. PICK x \in Pending(q) \ taken : taken' = taken \cup {x}
    BY Zenon, <1>9 DEF IdTaken
  <2>2. Cardinality(taken') = T + 1
    BY ZenonT(40), <1>1, <2>1, AddElement DEF T
  <2>3. SumOver(Queues, Dequeued') = SD + 1
    BY <1>1, <1>2, <1>3, <1>9, SumLaws DEF IdTaken, OneMoreAt, SD
  <2> QED
    BY Zenon, <1>5, <1>9, <2>2, <2>3 DEF IdTaken, Totals, SE, F
<1> QED
  BY Zenon, <1>6, <1>7, <1>8, <1>9 DEF IdsMove

\* The totals are right initially.
LEMMA InitTotals ==
  ASSUME SetFacts, Init
  PROVE  Totals
<1>1. taken = {} /\ InFlight = {} /\ next_task_id - 1 = 0
  BY DEF Init, InFlight, Idle
<1>2. Cardinality(taken) = 0 /\ Cardinality(InFlight) = 0
  BY Zenon, <1>1, EmptySize
<1>3. /\ Dequeued \in [Queues -> Nat] /\ \A q \in Queues : Dequeued[q] = 0
      /\ Enqueued \in [Queues -> Nat] /\ \A q \in Queues : Enqueued[q] = 0
  BY Zenon DEF Init, Dequeued, Enqueued, ZeroCounts
<1>4. SumOver(Queues, Dequeued) = 0 /\ SumOver(Queues, Enqueued) = 0
  BY Zenon, <1>3, QueueAssumption, SumLaws
<1> QED
  BY SMTT(30), <1>1, <1>2, <1>4 DEF Totals

-----------------------------------------------------------------------------
(* Wakeups *)

\* The pollers that are looking, and the calls about to notify, can be counted.
LEMMA CallCounts ==
  ASSUME SetFacts
  PROVE
  /\ IsFiniteSet(Checking) /\ Cardinality(Checking) \in Nat
  /\ IsFiniteSet(Checking') /\ Cardinality(Checking') \in Nat
  /\ IsFiniteSet(Notifying) /\ Cardinality(Notifying) \in Nat
  /\ IsFiniteSet(Notifying') /\ Cardinality(Notifying') \in Nat
<1>1. /\ Checking \subseteq Pollers /\ Checking' \subseteq Pollers
      /\ Notifying \subseteq Enqueuers /\ Notifying' \subseteq Enqueuers
  BY Zenon DEF Checking, Notifying
<1>2. IsFiniteSet(Pollers) /\ IsFiniteSet(Enqueuers)
  BY Zenon, QueueAssumption
<1> QED
  BY Zenon, <1>1, <1>2, SubsetSize, SizeType

\* A poller that changes its place.
LEMMA PollerStep ==
  ASSUME TypeOK, NEW w \in Pollers, NEW x, poller' = [poller EXCEPT ![w] = x]
  PROVE  /\ x.at = "checking" => Checking' = Checking \cup {w}
         /\ x.at # "checking" => Checking' = Checking \ {w}
         /\ x.at = "waiting" => Waiting' = Waiting \cup {w}
         /\ x.at # "waiting" => Waiting' = Waiting \ {w}
<1>1. poller'[w] = x /\ \A v \in Pollers : v # w => poller'[v] = poller[v]
  BY Zenon DEF TypeOK
<1> QED
  BY Zenon, <1>1 DEF Checking, Waiting

\* An enqueue call that changes its place.
LEMMA EnqueuerStep ==
  ASSUME TypeOK, NEW e \in Enqueuers, NEW x, enq' = [enq EXCEPT ![e] = x]
  PROVE  /\ x.at = "notify" => Notifying' = Notifying \cup {e}
         /\ x.at # "notify" => Notifying' = Notifying \ {e}
<1>1. enq'[e] = x /\ \A f \in Enqueuers : f # e => enq'[f] = enq[f]
  BY Zenon DEF TypeOK
<1> QED
  BY Zenon, <1>1 DEF Notifying

\* Every step keeps a sleeping poller's task announced.
LEMMA CoverNext ==
  ASSUME SetFacts, QueueInv, WakeupsCover, [Next]_vars
  PROVE  WakeupsCover'
<1> SUFFICES ASSUME NEW q \in Queues, Queues = {q}, Waiting' # {}
             PROVE  Len(deque'[q]) <= Cardinality(Checking') + Cardinality(Notifying')
  BY Zenon DEF WakeupsCover
<1> DEFINE Goal == Len(deque'[q]) <= Cardinality(Checking') + Cardinality(Notifying')
           C == Cardinality(Checking)
           N == Cardinality(Notifying)
           L == Len(deque[q])
<1>0. TypeOK
  BY Zenon DEF QueueInv
<1>1. Waiting # {} => L <= C + N
  BY Zenon DEF WakeupsCover
<1>2. deque[q] \in Seq(Task) /\ L \in Nat /\ C \in Nat /\ N \in Nat
  BY Zenon, <1>0, CallCounts, DequeTypes
<1> HIDE DEF C, N, L
<1>i. Idle.at = "idle"
  BY Zenon DEF Idle
<1>3. ASSUME NEW e \in Enqueuers, NEW r \in Queues, NEW p \in Priorities, NEW d \in Deadlines,
             TakeId(e, r, p, d)
      PROVE  Goal
  <2>1. Notifying' = Notifying \ {e} /\ e \notin Notifying
    <3> DEFINE x == [at |-> "insert", queue |-> r,
                     task |-> [id |-> next_task_id, priority |-> p, deadline |-> d, nth |-> 0]]
    <3>1. enq' = [enq EXCEPT ![e] = x] /\ x.at # "notify"
      BY Zenon, <1>3 DEF TakeId
    <3> HIDE DEF x
    <3>2. Notifying' = Notifying \ {e}
      BY ZenonT(40), <1>0, <3>1, EnqueuerStep
    <3>3. e \notin Notifying
      BY <1>3 DEF TakeId, Notifying, Idle
    <3> QED
      BY Zenon, <3>2, <3>3
  <2>2. Notifying' = Notifying
    BY Zenon, <2>1
  <2>3. Checking' = Checking /\ Waiting' = Waiting /\ deque' = deque
    BY Zenon, <1>3 DEF TakeId, Checking, Waiting, queueVars
  <2> QED
    BY Zenon, <1>1, <2>2, <2>3 DEF C, N, L
<1>4. ASSUME NEW e \in Enqueuers, InsertTask(e) PROVE Goal
  <2>1. PICK r, t, p : Inserts(e, r, t, p)
    BY Zenon, <1>0, <1>4, InsertPlaces
  <2>2. r = q /\ Len(deque'[q]) = L + 1
    <3>1. r = q
      BY Zenon, <2>1 DEF Inserts
    <3> QED
      BY Zenon, <2>1, <3>1 DEF Inserts, InsertedAt, L
  <2>3. Notifying' = Notifying \cup {e} /\ e \notin Notifying
    <3> DEFINE x == [at |-> "notify"]
    <3>1. enq' = [enq EXCEPT ![e] = x] /\ x.at = "notify" /\ enq[e].at = "insert"
      BY Zenon, <1>4 DEF InsertTask
    <3> HIDE DEF x
    <3>2. Notifying' = Notifying \cup {e}
      BY Zenon, <1>0, <3>1, EnqueuerStep
    <3>3. e \notin Notifying
      BY Zenon, <3>1 DEF Notifying
    <3> QED
      BY Zenon, <3>2, <3>3
  <2>4. Cardinality(Notifying') = N + 1
    BY Zenon, <2>3, CallCounts, AddElement DEF N
  <2>5. Checking' = Checking /\ Waiting' = Waiting
    BY Zenon, <1>4 DEF InsertTask, Checking, Waiting
  <2> QED
    BY <1>1, <1>2, <2>2, <2>4, <2>5 DEF C
<1>5. ASSUME NEW e \in Enqueuers, NotifyOne(e) PROVE Goal
  <2>1. Notifying' = Notifying \ {e} /\ e \in Notifying /\ deque' = deque
    <3>1. enq' = [enq EXCEPT ![e] = Idle] /\ enq[e].at = "notify" /\ deque' = deque
      BY Zenon, <1>5 DEF NotifyOne, queueVars
    <3>2. Notifying' = Notifying \ {e}
      BY Zenon, <1>0, <1>i, <3>1, EnqueuerStep
    <3> QED
      BY Zenon, <3>1, <3>2 DEF Notifying
  <2>2. Cardinality(Notifying') = N - 1
    BY Zenon, <2>1, CallCounts, RemoveElement DEF N
  <2>3. CASE Waiting = {}
    <3>1. Waiting' = Waiting
      BY Zenon, <1>5, <2>3 DEF NotifyOne, WakeOne, Waiting
    <3> QED
      BY Zenon, <2>3, <3>1
  <2>4. CASE Waiting # {}
    <3>1. PICK w \in Waiting : poller' = Wake(w)
      BY Zenon, <1>5, <2>4 DEF NotifyOne, WakeOne
    <3>2. w \in Pollers /\ poller[w].at = "waiting"
      BY Zenon, <3>1 DEF Waiting
    <3> DEFINE x == [poller[w] EXCEPT !.at = "checking"]
    <3>3. poller' = [poller EXCEPT ![w] = x] /\ x.at = "checking"
      <4>1. poller[w] \in [at : {"checking", "waiting"}, queue : Queues, timed : BOOLEAN]
        BY Zenon, <1>0, <3>2, CallTypes
      <4> QED
        BY Zenon, <3>1, <4>1 DEF Wake
    <3> HIDE DEF x
    <3>4. Checking' = Checking \cup {w} /\ w \notin Checking
      BY Zenon, <1>0, <3>2, <3>3, PollerStep DEF Checking
    <3>5. Cardinality(Checking') = C + 1
      BY Zenon, <3>4, CallCounts, AddElement DEF C
    <3> QED
      BY <1>1, <1>2, <2>1, <2>2, <2>4, <3>5 DEF L
  <2> QED
    BY Zenon, <2>3, <2>4
<1>n. ASSUME enq' = enq PROVE Notifying' = Notifying
  BY Zenon, <1>n DEF Notifying
<1>6. ASSUME NEW w \in Pollers, NEW r \in Queues, NEW timed \in BOOLEAN, StartPoll(w, r, timed)
      PROVE  Goal
  <2> DEFINE x == [at |-> "checking", queue |-> r, timed |-> timed]
  <2>1. poller' = [poller EXCEPT ![w] = x] /\ x.at = "checking" /\ poller[w].at = "idle"
        /\ enq' = enq /\ deque' = deque
    BY <1>6 DEF StartPoll, Idle, queueVars
  <2> HIDE DEF x
  <2>2. Checking' = Checking \cup {w} /\ w \notin Checking /\ Waiting' = Waiting
    <3>1. Checking' = Checking \cup {w} /\ Waiting' = Waiting \ {w}
      BY Zenon, <1>0, <2>1, PollerStep
    <3>2. w \notin Checking /\ w \notin Waiting
      BY Zenon, <2>1 DEF Checking, Waiting
    <3> QED
      BY Zenon, <3>1, <3>2
  <2>3. Cardinality(Checking') = C + 1
    BY Zenon, <2>2, CallCounts, AddElement DEF C
  <2> QED
    BY SMTT(30), <1>1, <1>2, <1>n, <2>1, <2>2, <2>3 DEF L, N
<1>7. ASSUME NEW w \in Pollers, PollTask(w) PROVE Goal
  <2>1. poller' = [poller EXCEPT ![w] = Idle] /\ poller[w].at = "checking" /\ enq' = enq
        /\ poller[w].queue \in Queues /\ Pop(poller[w].queue)
    BY Zenon, <1>0, <1>7, CallTypes DEF PollTask
  <2>2. deque'[q] = Tail(deque[q]) /\ deque[q] # <<>>
    BY Zenon, <1>0, <2>1, PopShrinks
  <2>3. Len(deque'[q]) = L - 1
    BY Zenon, <1>2, <2>2, TailKeeps DEF L
  <2>4. Checking' = Checking \ {w} /\ w \in Checking /\ Waiting' = Waiting
    <3>1. Checking' = Checking \ {w} /\ Waiting' = Waiting \ {w}
      BY Zenon, <1>0, <1>i, <2>1, PollerStep
    <3>2. w \in Checking /\ w \notin Waiting
      BY Zenon, <2>1 DEF Checking, Waiting
    <3> QED
      BY Zenon, <3>1, <3>2
  <2>5. Cardinality(Checking') = C - 1
    BY Zenon, <2>4, CallCounts, RemoveElement DEF C
  <2> QED
    BY <1>1, <1>2, <1>n, <2>1, <2>3, <2>4, <2>5 DEF N
<1>8. ASSUME NEW w \in Pollers, deque[poller[w].queue] = <<>>, deque' = deque,
             poller[w].at = "checking"
      PROVE  Goal
  <2>1. deque[poller[w].queue] = <<>> /\ deque' = deque /\ poller[w].queue \in Queues
    BY Zenon, <1>0, <1>8, CallTypes
  <2>2. Len(deque'[q]) = 0
    BY <2>1
  <2> QED
    BY <2>2, CallCounts
<1>9. ASSUME NEW w \in Pollers, WakeUnnotified(w) PROVE Goal
  <2> DEFINE x == [poller[w] EXCEPT !.at = "checking"]
  <2>1. w \in Waiting /\ poller[w].at = "waiting" /\ enq' = enq /\ deque' = deque
    BY Zenon, <1>9 DEF WakeUnnotified, Waiting, queueVars
  <2>2. poller' = [poller EXCEPT ![w] = x] /\ x.at = "checking"
    <3>1. poller[w] \in [at : {"checking", "waiting"}, queue : Queues, timed : BOOLEAN]
      BY Zenon, <1>0, <2>1, CallTypes
    <3> QED
      BY Zenon, <1>9, <3>1 DEF WakeUnnotified, Wake
  <2> HIDE DEF x
  <2>3. Checking' = Checking \cup {w} /\ w \notin Checking
    BY Zenon, <1>0, <2>1, <2>2, PollerStep DEF Checking
  <2>4. Cardinality(Checking') = C + 1
    BY Zenon, <2>3, CallCounts, AddElement DEF C
  <2>5. Waiting # {}
    BY Zenon, <2>1
  <2> QED
    BY <1>1, <1>2, <1>n, <2>1, <2>4, <2>5 DEF L, N
<1>10. ASSUME enq' = enq, poller' = poller, Len(deque'[q]) \in Nat, Len(deque'[q]) <= L PROVE Goal
  <2>1. Checking' = Checking /\ Waiting' = Waiting /\ Notifying' = Notifying
    BY Zenon, <1>10 DEF Checking, Waiting, Notifying
  <2> QED
    BY <1>1, <1>2, <1>10, <2>1 DEF C, N
<1>11. ASSUME NEW r \in Queues, TryPoll(r) PROVE Goal
  <2>1. Pop(q) /\ enq' = enq /\ poller' = poller
    BY Zenon, <1>11 DEF TryPoll
  <2>2. deque'[q] = Tail(deque[q]) /\ deque[q] # <<>>
    BY Zenon, <1>0, <2>1, PopShrinks
  <2>3. Len(deque'[q]) = L - 1 /\ Len(deque'[q]) \in Nat
    BY <1>2, <2>2, TailKeeps DEF L
  <2> QED
    BY <1>2, <1>10, <2>1, <2>3
<1>12. ASSUME NEW now \in Clock, RemoveExpired(now) PROVE Goal
  <2>1. deque'[q] \in Seq(Task) /\ Len(deque'[q]) <= L
    BY Zenon, <1>0, <1>12, ExpiryShrinks DEF Expires, L
  <2>2. enq' = enq /\ poller' = poller
    BY Zenon, <1>12 DEF RemoveExpired
  <2> QED
    BY <1>10, <2>1, <2>2
<1>13. ASSUME enq' = enq, poller' = poller, deque' = deque PROVE Goal
  BY <1>2, <1>10, <1>13 DEF L
<1>14. CASE ShutdownMark
  BY Zenon, <1>13, <1>14 DEF ShutdownMark
<1>15. CASE ShutdownNotify
  <2>1. poller' = WakeAll
    BY Zenon, <1>15 DEF ShutdownNotify
  <2>2. ASSUME NEW w \in Pollers PROVE poller'[w].at # "waiting"
    <3>1. CASE w \in Waiting
      <4>1. poller[w] \in [at : {"checking", "waiting"}, queue : Queues, timed : BOOLEAN]
        BY Zenon, <1>0, <3>1, CallTypes DEF Waiting
      <4> QED
        BY Zenon, <2>1, <3>1, <4>1 DEF WakeAll
    <3>2. CASE w \notin Waiting
      BY Zenon, <2>1, <3>2 DEF WakeAll, Waiting
    <3> QED
      BY Zenon, <3>1, <3>2
  <2> QED
    BY Zenon, <2>2 DEF Waiting
<1>16. CASE UNCHANGED vars
  BY Zenon, <1>13, <1>16 DEF vars
<1>17. ASSUME NEW w \in Pollers, PollNone(w) PROVE Goal
  BY Zenon, <1>8, <1>17 DEF PollNone, queueVars
<1>18. ASSUME NEW w \in Pollers, PollWait(w) PROVE Goal
  BY Zenon, <1>8, <1>18 DEF PollWait, MustWait, queueVars
<1>19. CASE Next
  <2>1. CASE \E e \in Enqueuers, r \in Queues, p \in Priorities, d \in Deadlines :
               TakeId(e, r, p, d)
    BY Zenon, <1>3, <2>1
  <2>2. CASE \E e \in Enqueuers : InsertTask(e) \/ NotifyOne(e)
    BY Zenon, <1>4, <1>5, <2>2
  <2>3. CASE \E w \in Pollers, r \in Queues, timed \in BOOLEAN : StartPoll(w, r, timed)
    BY Zenon, <1>6, <2>3
  <2>4. CASE \E w \in Pollers : Poll(w) \/ WakeUnnotified(w)
    BY Zenon, <1>7, <1>9, <1>17, <1>18, <2>4 DEF Poll
  <2>5. CASE \E r \in Queues : TryPoll(r)
    BY Zenon, <1>11, <2>5
  <2>6. CASE \E now \in Clock : RemoveExpired(now)
    BY Zenon, <1>12, <2>6
  <2> QED
    BY Zenon, <1>14, <1>15, <1>19, <2>1, <2>2, <2>3, <2>4, <2>5, <2>6 DEF Next
<1> QED
  BY Zenon, <1>16, <1>19

-----------------------------------------------------------------------------
(* The theorems *)

INSTANCE FiniteSetTheorems

\* The facts about sets that were taken for granted so far.
LEMMA SetFactsHold == SetFacts
<1>1. ASSUME NEW S \in SUBSET Nat, S # {} PROVE \E m \in S : \A k \in S : m <= k
  <2> DEFINE R == {p \in Nat \X Nat : p[1] < p[2]}
  <2>1. IsWellFoundedOn(R, Nat)
    BY Zenon, NatLessThanWellFounded DEF OpToRel
  <2> HIDE DEF R
  <2>2. PICK m \in S : \A k \in S : ~(<<k, m>> \in R)
    BY Zenon, <1>1, <2>1, WFMin
  <2>3. \A k \in S : ~(k < m)
    BY Zenon, <2>2 DEF R
  <2>4. \A k \in S : m <= k
    BY <2>3
  <2> QED
    BY Zenon, <2>4
<1>2. IsFiniteSet({}) /\ Cardinality({}) = 0
  BY Zenon, FS_EmptySet
<1>3. ASSUME NEW S, IsFiniteSet(S)
      PROVE  Cardinality(S) \in Nat /\ (Cardinality(S) = 0 <=> S = {})
  BY Zenon, <1>3, FS_CardinalityType, FS_EmptySet
<1>4. ASSUME NEW S, IsFiniteSet(S), NEW T \in SUBSET S
      PROVE  IsFiniteSet(T) /\ Cardinality(T) <= Cardinality(S)
  BY Zenon, <1>4, FS_Subset
<1>5. ASSUME NEW S, NEW x, IsFiniteSet(S)
      PROVE  /\ IsFiniteSet(S \cup {x}) /\ IsFiniteSet(S \ {x})
             /\ Cardinality(S \cup {x}) = IF x \in S THEN Cardinality(S) ELSE Cardinality(S) + 1
             /\ Cardinality(S \ {x}) = IF x \in S THEN Cardinality(S) - 1 ELSE Cardinality(S)
  BY Zenon, <1>5, FS_AddElement, FS_RemoveElement
<1>6. ASSUME NEW a \in Int, NEW b \in Int PROVE IsFiniteSet(a .. b)
  BY Zenon, FS_Interval
<1> QED
  BY Zenon, <1>1, <1>2, <1>3, <1>4, <1>5, <1>6 DEF SetFacts

\* QueueInv is inductive, and so an invariant.
THEOREM QueueInvariant == Spec => []QueueInv
<1>1. Init => QueueInv
  BY Zenon, InitInv
<1>2. QueueInv /\ [Next]_vars => QueueInv'
  <2> SUFFICES ASSUME QueueInv, [Next]_vars PROVE QueueInv'
    BY Zenon
  <2>1. DequesMove
    BY Zenon, SetFactsHold, DequesMoved DEF QueueInv
  <2> QED
    BY Zenon, <2>1, NextInv
<1> QED
  BY <1>1, <1>2, PTL DEF Spec

\* TypeOK is an invariant.
THEOREM TypeCorrect == Spec => []TypeOK
<1>1. QueueInv => TypeOK
  BY Zenon DEF QueueInv
<1> QED
  BY <1>1, QueueInvariant, PTL

\* Among tasks with a priority the more urgent ones are in front (UrgentFirst).
THEOREM UrgentTasksFirst == Spec => []UrgentFirst
<1>1. QueueInv => UrgentFirst
  BY Zenon DEF QueueInv
<1> QED
  BY <1>1, QueueInvariant, PTL

\* The backlog age is never understated (BacklogNotUnderstated).
THEOREM BacklogAge == Spec => []BacklogNotUnderstated
<1>1. QueueInv => BacklogNotUnderstated
  BY Zenon DEF QueueInv
<1> QED
  BY <1>1, QueueInvariant, PTL

\* No step reorders queued tasks, and a new one only goes ahead of less urgent
\* ones (NoOvertaking).
THEOREM OrderKept == Spec => NoOvertaking
<1>1. QueueInv /\ [Next]_vars => [InOrder]_vars
  <2> SUFFICES ASSUME QueueInv, [Next]_vars PROVE InOrder
    BY Zenon
  <2>1. DequesMove
    BY Zenon, SetFactsHold, DequesMoved DEF QueueInv
  <2> QED
    BY Zenon, <2>1, StepInOrder
<1>2. NoOvertaking <=> [][InOrder]_vars
  BY Zenon DEF NoOvertaking, InOrder, Ahead
<1> QED
  BY <1>1, <1>2, QueueInvariant, PTL DEF Spec

\* A task without a deadline only leaves its queue through a poll (NeverExpires).
THEOREM DeadlineFreeKept == Spec => NeverExpires
<1>1. QueueInv /\ [Next]_vars => [DeadlineFreeStay]_vars
  <2> SUFFICES ASSUME QueueInv, [Next]_vars PROVE DeadlineFreeStay
    BY Zenon
  <2>1. DequesMove
    BY Zenon, SetFactsHold, DequesMoved DEF QueueInv
  <2> QED
    BY Zenon, <2>1, StepKeepsDeadlineFree
<1>2. NeverExpires <=> [][DeadlineFreeStay]_vars
  BY Zenon DEF NeverExpires, DeadlineFreeStay
<1> QED
  BY <1>1, <1>2, QueueInvariant, PTL DEF Spec

\* The counters of all queues together account for every id handed out.
THEOREM TotalsKept == Spec => []Totals
<1>1. Init => Totals
  BY Zenon, SetFactsHold, InitTotals
<1>2. QueueInv /\ QueueInv' /\ Totals /\ [Next]_vars => Totals'
  <2> SUFFICES ASSUME QueueInv, QueueInv', Totals, [Next]_vars PROVE Totals'
    BY Zenon
  <2>1. DequesMove
    BY Zenon, SetFactsHold, DequesMoved DEF QueueInv
  <2>2. IdsMove
    BY Zenon, <2>1, NextInv
  <2> QED
    BY Zenon, <2>2, SetFactsHold, TotalsNext
<1> QED
  BY <1>1, <1>2, QueueInvariant, PTL DEF Spec

\* A set that numbers a sequence's elements one to one has its length.
LEMMA PendingCount ==
  ASSUME QueueInv, NEW q \in Queues
  PROVE  Cardinality(Pending(q)) = Len(deque[q])
<1> DEFINE L == Len(deque[q])
           f == [i \in 1 .. L |-> deque[q][i].id]
<1>1. L \in Nat /\ DOMAIN deque[q] = 1 .. L
  BY Zenon, DequeTypes DEF QueueInv
<1>2. f \in Bijection(1 .. L, Pending(q))
  <2>1. f \in [1 .. L -> Pending(q)] /\ \A x \in Pending(q) : \E i \in 1 .. L : f[i] = x
    BY ZenonT(40), <1>1 DEF Pending
  <2>2. \A i, j \in 1 .. L : f[i] = f[j] => i = j
    BY <1>1 DEF QueueInv, IdsOnce
  <2> HIDE DEF f
  <2> QED
    BY Zenon, <2>1, <2>2 DEF Bijection, Injection, Surjection, IsInjective
<1>3. ExistsBijection(1 .. L, Pending(q))
  BY Zenon, <1>2 DEF ExistsBijection
<1>4. IsFiniteSet(1 .. L) /\ Cardinality(1 .. L) = L
  <2>1. 1 \in Int /\ L \in Int
    BY <1>1
  <2>2. IsFiniteSet(1 .. L) /\ Cardinality(1 .. L) = IF 1 > L THEN 0 ELSE L - 1 + 1
    BY Zenon, <2>1, FS_Interval
  <2> QED
    BY <1>1, <2>2
<1> QED
  BY Zenon, <1>3, <1>4, FS_Bijection

\* No task is delivered twice or lost, and the counters add up (TaskConservation).
THEOREM TasksConserved == Spec => []TaskConservation
<1>1. QueueInv /\ Totals => TaskConservation
  <2> SUFFICES ASSUME QueueInv, Totals PROVE TaskConservation
    BY Zenon
  <2>1. \A q \in Queues : Cardinality(Pending(q)) = Len(deque[q])
    BY ZenonT(40), PendingCount
  <2>2. \A q \in Queues : \A r \in Queues \ {q} : Pending(q) \cap Pending(r) = {}
    BY DEF QueueInv, IdsOnce, Pending
  <2> QED
    BY Zenon, <2>1, <2>2 DEF QueueInv, IdsOnce, Counted, Totals, TaskConservation, Dequeued, Enqueued
<1> QED
  BY <1>1, QueueInvariant, TotalsKept, PTL

\* With one queue, a sleeping poller's task is announced (WakeupsCover).
THEOREM SleepersCovered == Spec => []WakeupsCover
<1>1. Init => WakeupsCover
  BY DEF Init, WakeupsCover, Waiting, Idle
<1>2. QueueInv /\ WakeupsCover /\ [Next]_vars => WakeupsCover'
  BY Zenon, SetFactsHold, CoverNext
<1> QED
  BY <1>1, <1>2, QueueInvariant, PTL DEF Spec
=============================================================================
