--------------------- MODULE WorkflowContextPoolProofs ---------------------
(***************************************************************************)
(* The pool never loses or double-books a slot and its index never         *)
(* dangles, for every capacity and every set of keys; and as long as no    *)
(* two keys share a bucket, every stored workflow is found by its key and  *)
(* the pool implements a plain map.                                        *)
(***************************************************************************)
EXTENDS WorkflowContextPool, SequenceTheorems, WellFoundedInduction, TLAPS

\* A set of slots that is not empty has a least element, so the linear scan
\* stops at some slot.
LEMMA LeastSlot ==
  ASSUME NEW T \in SUBSET Slot, T # {}
  PROVE  \E x \in T : \A y \in T : x <= y
<1>1. T \subseteq Nat
  BY PoolAssumption DEF Slot
<1> DEFINE R == {p \in Nat \X Nat : p[1] < p[2]}
<1>2. IsWellFoundedOn(R, Nat)
  BY NatLessThanWellFounded DEF OpToRel
<1> HIDE DEF R
<1>3. PICK x \in T : \A y \in T : ~(<<y, x>> \in R)
  BY Zenon, <1>1, <1>2, WFMin
<1>4. \A y \in T : ~(y < x)
  BY Zenon, <1>1, <1>3 DEF R
<1> QED
  BY <1>1, <1>4

\* There are as many buckets as slots.
LEMMA BucketIsSlot == \A k \in Keys : k \in Nat /\ Bucket(k) \in Slot
  BY PoolAssumption DEF Bucket, Slot

\* A slot that find_key_slot returns holds the key it was asked for.
LEMMA FoundSlot ==
  ASSUME TypeOK, IndexSound, NEW k \in Keys
  PROVE  /\ FindKeySlot(k) \in Slot \cup {EMPTY}
         /\ Present(k) => FindKeySlot(k) \in Slot /\ Holds(FindKeySlot(k), k)
<1>1. EMPTY \notin Slot
  BY PoolAssumption DEF EMPTY, Slot
<1>2. Bucket(k) \in Slot
  BY BucketIsSlot
<1>3. LinearSlot(k) # EMPTY => LinearSlot(k) \in Slot /\ Holds(LinearSlot(k), k)
  <2>1. SUFFICES ASSUME \E s \in Slot : Holds(s, k)
                 PROVE  LinearSlot(k) \in Slot /\ Holds(LinearSlot(k), k)
    BY <1>1 DEF LinearSlot
  <2>2. \E s \in {t \in Slot : Holds(t, k)} : \A u \in {t \in Slot : Holds(t, k)} : s <= u
    BY Zenon, <2>1, LeastSlot
  <2>3. \E s \in Slot : Holds(s, k) /\ \A t \in Slot : Holds(t, k) => s <= t
    BY <2>2
  <2> QED
    BY <2>1, <2>3 DEF LinearSlot
<1> QED
  BY <1>1, <1>2, <1>3 DEF FindKeySlot, Present, TypeOK

\* The slot on top of the free list is a slot that holds no workflow.
LEMMA TopIsFree ==
  ASSUME PoolInv, free_list # <<>>
  PROVE  /\ Len(free_list) \in Nat \ {0}
         /\ Top \in Slot
         /\ ~slots[Top].active
<1>1. Len(free_list) \in Nat \ {0} /\ DOMAIN free_list = 1 .. Len(free_list)
  BY EmptySeq, LenProperties DEF PoolInv, TypeOK
<1>2. Top \in FreeSlots
  BY <1>1 DEF Top, FreeSlots
<1> QED
  BY <1>1, <1>2 DEF PoolInv, SlotConservation, Active

\* Popping the free list takes its top off and leaves the rest as it was.
LEMMA PoppedList ==
  ASSUME PoolInv, free_list # <<>>
  PROVE  /\ Popped \in Seq(Slot)
         /\ Len(Popped) = Len(free_list) - 1
         /\ \A i \in DOMAIN Popped : i \in DOMAIN free_list /\ Popped[i] = free_list[i]
         /\ {Popped[i] : i \in DOMAIN Popped} = FreeSlots \ {Top}
<1>1. Len(free_list) \in Nat \ {0} /\ DOMAIN free_list = 1 .. Len(free_list)
  BY EmptySeq, LenProperties DEF PoolInv, TypeOK
<1>2. /\ Popped \in Seq(Slot)
      /\ Len(Popped) = Len(free_list) - 1
      /\ \A i \in 1 .. Len(free_list) - 1 : Popped[i] = free_list[i]
  <2>1. free_list \in Seq(Slot)
    BY DEF PoolInv, TypeOK
  <2> QED
    BY <1>1, <2>1 DEF Popped
<1>3. DOMAIN Popped = 1 .. Len(free_list) - 1
  BY <1>2, LenProperties
<1>4. \A i \in 1 .. Len(free_list) - 1 : free_list[i] # Top
  BY <1>1 DEF PoolInv, SlotConservation, Top
<1> QED
  BY <1>1, <1>2, <1>3, <1>4 DEF FreeSlots, Top

\* Taking a slot for an absent key preserves the invariant.
LEMMA AllocatePreserves ==
  ASSUME PoolInv, NEW k \in Keys, NEW c \in Contexts, ~Present(k), Allocate(k, c)
  PROVE  PoolInv'
<1> USE PoolAssumption
<1>1. /\ free_list # <<>>
      /\ slots' = [slots EXCEPT ![Top] = [key |-> k, active |-> TRUE]]
      /\ key_index' = [key_index EXCEPT ![Bucket(k)] = Top]
      /\ contexts' = [contexts EXCEPT ![Top] = c]
      /\ free_list' = Popped
      /\ active_count' = active_count + 1
  BY DEF Allocate, IndexSlot
<1>2. Len(free_list) \in Nat \ {0} /\ Top \in Slot /\ ~slots[Top].active
  BY <1>1, TopIsFree
<1>3. k \in Nat /\ Bucket(k) \in Slot /\ EMPTY \notin Slot
  BY BucketIsSlot DEF Slot, EMPTY
<1>p. /\ Len(free_list') = Len(free_list) - 1
      /\ \A i \in DOMAIN free_list' : i \in DOMAIN free_list /\ free_list'[i] = free_list[i]
      /\ FreeSlots' = FreeSlots \ {Top}
  BY Zenon, <1>1, PoppedList DEF FreeSlots
<1>4. TypeOK'
  BY SMTT(30), <1>1, <1>2, <1>3, PoppedList DEF PoolInv, TypeOK
<1>5. Active' = Active \cup {Top}
  BY <1>1, <1>2 DEF Active, PoolInv, TypeOK
<1>6. SlotConservation'
  <2>1. FreeSlots' = Slot \ Active'
    BY <1>p, <1>2, <1>5 DEF PoolInv, SlotConservation
  <2>2. \A i, j \in DOMAIN free_list' : free_list'[i] = free_list'[j] => i = j
    BY <1>p DEF PoolInv, SlotConservation
  <2>3. \A s \in Slot : slots'[s].active <=> contexts'[s] # NoContext
    BY <1>1, <1>2 DEF PoolInv, TypeOK, SlotConservation
  <2>4. active_count' = Capacity - Len(free_list')
    BY <1>1, <1>2, <1>p DEF PoolInv, TypeOK, SlotConservation
  <2> QED
    BY <2>1, <2>2, <2>3, <2>4 DEF SlotConservation
<1>7. IndexSound'
  <2> SUFFICES ASSUME NEW b \in Slot, key_index'[b] # EMPTY
               PROVE  /\ slots'[key_index'[b]].active
                      /\ slots'[key_index'[b]].key \in Keys
                      /\ Bucket(slots'[key_index'[b]].key) = b
    BY DEF IndexSound, Bucket
  <2>1. CASE b = Bucket(k)
    BY <1>1, <1>2, <1>3, <2>1 DEF PoolInv, TypeOK
  <2>2. CASE b # Bucket(k)
    <3>1. key_index'[b] = key_index[b] /\ key_index[b] \in Slot /\ slots[key_index[b]].active
      BY <1>1, <2>2 DEF PoolInv, TypeOK, IndexSound
    <3>2. key_index[b] # Top /\ slots'[key_index[b]] = slots[key_index[b]]
      BY <1>1, <1>2, <3>1 DEF PoolInv, TypeOK
    <3> QED
      BY <3>1, <3>2 DEF PoolInv, IndexSound
  <2> QED
    BY <2>1, <2>2
<1>8. Linked'
  <2> SUFFICES ASSUME NEW s \in Active'
               PROVE  /\ slots'[s].key \in Keys
                      /\ NoCollisions => key_index'[Bucket(slots'[s].key)] = s
    BY Zenon DEF Linked, Bucket, NoCollisions
  <2>1. CASE s = Top
    BY <1>1, <1>2, <1>3, <2>1 DEF PoolInv, TypeOK
  <2>2. CASE s # Top
    <3>1. s \in Active /\ slots'[s] = slots[s]
      BY <1>1, <1>5, <2>2 DEF Active, PoolInv, TypeOK
    <3>2. slots[s].key \in Keys /\ (NoCollisions => key_index[Bucket(slots[s].key)] = s)
      BY <3>1 DEF PoolInv, Linked
    <3>3. ASSUME NoCollisions PROVE Bucket(slots[s].key) # Bucket(k)
      <4>1. SUFFICES ASSUME Bucket(slots[s].key) = Bucket(k) PROVE FALSE
        OBVIOUS
      <4>2. slots[s].key = k
        BY Zenon, <3>2, <3>3, <4>1 DEF NoCollisions
      <4>3. FindKeySlot(k) = s
        BY Zenon, <3>1, <3>2, <3>3, <4>1, <4>2, <1>3 DEF FindKeySlot, Holds, Active
      <4> QED
        BY <1>3, <3>1, <4>3 DEF Present, Active
    <3>4. Bucket(slots[s].key) \in Slot
      BY Zenon, <3>2, BucketIsSlot
    <3>5. ASSUME NoCollisions PROVE key_index'[Bucket(slots[s].key)] = s
      BY Zenon, <1>1, <3>2, <3>3, <3>4, <3>5 DEF PoolInv, TypeOK
    <3> QED
      BY Zenon, <3>1, <3>2, <3>5
  <2> QED
    BY <2>1, <2>2
<1> QED
  BY <1>4, <1>6, <1>7, <1>8 DEF PoolInv

\* So does replacing the context of a present key in place.
LEMMA ReplacePreserves ==
  ASSUME PoolInv, NEW k \in Keys, NEW c \in Contexts, Present(k), Replace(k, c)
  PROVE  PoolInv'
<1> USE PoolAssumption
<1>1. FindKeySlot(k) \in Slot /\ slots[FindKeySlot(k)].active
  BY FoundSlot DEF PoolInv, Holds
<1>2. /\ contexts' = [contexts EXCEPT ![FindKeySlot(k)] = c]
      /\ key_index' = key_index /\ slots' = slots
      /\ free_list' = free_list /\ active_count' = active_count
  BY DEF Replace
<1>3. TypeOK'
  BY Zenon, <1>1, <1>2 DEF PoolInv, TypeOK
<1>4. SlotConservation'
  BY SMTT(30), <1>1, <1>2 DEF PoolInv, TypeOK, SlotConservation, FreeSlots, Active
<1> QED
  BY <1>2, <1>3, <1>4 DEF PoolInv, IndexSound, Linked, Active, NoCollisions, Bucket

\* So does remove, although it empties the whole bucket.
LEMMA RemovePreserves ==
  ASSUME PoolInv, NEW k \in Keys, Remove(k)
  PROVE  PoolInv'
<1> USE PoolAssumption
<1> DEFINE r == FindKeySlot(k)
<1>1. r \in Slot /\ slots[r].active /\ slots[r].key = k
  BY FoundSlot DEF PoolInv, Holds, Remove
<1>2. /\ contexts' = [contexts EXCEPT ![r] = NoContext]
      /\ slots' = [slots EXCEPT ![r] = FreeSlot]
      /\ key_index' = [key_index EXCEPT ![Bucket(k)] = EMPTY]
      /\ free_list' = Append(free_list, r)
      /\ active_count' = active_count - 1
  BY DEF Remove, Release, Unindex
<1>3. k \in Nat /\ Bucket(k) \in Slot /\ EMPTY \notin Slot
  BY BucketIsSlot DEF Slot, EMPTY
<1> HIDE DEF r
<1>4. free_list \in Seq(Slot) /\ Len(free_list) \in Nat /\ DOMAIN free_list = 1 .. Len(free_list)
  BY LenProperties DEF PoolInv, TypeOK
<1>5. /\ free_list' \in Seq(Slot)
      /\ Len(free_list') = Len(free_list) + 1
      /\ DOMAIN free_list' = 1 .. Len(free_list) + 1
      /\ \A i \in 1 .. Len(free_list) : free_list'[i] = free_list[i]
      /\ free_list'[Len(free_list) + 1] = r
  BY SMTT(30), <1>1, <1>2, <1>4
<1>6. TypeOK'
  BY SMTT(30), <1>1, <1>2, <1>3, <1>5 DEF PoolInv, TypeOK, FreeSlot
<1>7. Active' = Active \ {r} /\ r \in Active
  BY <1>1, <1>2 DEF Active, PoolInv, TypeOK, FreeSlot
<1>8. r \notin FreeSlots
  BY <1>7 DEF PoolInv, SlotConservation
<1>9. SlotConservation'
  <2>1. FreeSlots' = FreeSlots \cup {r}
    BY <1>4, <1>5 DEF FreeSlots
  <2>2. FreeSlots' = Slot \ Active'
    BY <1>1, <1>7, <2>1 DEF PoolInv, SlotConservation
  <2>3. \A i, j \in DOMAIN free_list' : free_list'[i] = free_list'[j] => i = j
    <3>1. \A i, j \in 1 .. Len(free_list) : free_list[i] = free_list[j] => i = j
      BY <1>4 DEF PoolInv, SlotConservation
    <3>2. \A i \in 1 .. Len(free_list) : free_list[i] # r
      BY <1>4, <1>8 DEF FreeSlots
    <3> QED
      BY <1>4, <1>5, <3>1, <3>2
  <2>4. \A s \in Slot : slots'[s].active <=> contexts'[s] # NoContext
    BY Zenon, <1>1, <1>2 DEF PoolInv, TypeOK, SlotConservation, FreeSlot
  <2>5. active_count' = Capacity - Len(free_list')
    BY SMTT(30), <1>2, <1>4, <1>5 DEF PoolInv, TypeOK, SlotConservation
  <2> QED
    BY <2>2, <2>3, <2>4, <2>5 DEF SlotConservation
<1>10. IndexSound'
  <2> SUFFICES ASSUME NEW b \in Slot, key_index'[b] # EMPTY
               PROVE  /\ slots'[key_index'[b]].active
                      /\ slots'[key_index'[b]].key \in Keys
                      /\ Bucket(slots'[key_index'[b]].key) = b
    BY DEF IndexSound, Bucket
  <2>1. b # Bucket(k) /\ key_index'[b] = key_index[b]
    BY <1>2, <1>3 DEF PoolInv, TypeOK
  <2>2. key_index[b] \in Slot /\ Bucket(slots[key_index[b]].key) = b
    BY <2>1 DEF PoolInv, TypeOK, IndexSound
  <2>3. key_index[b] # r
    BY Zenon, <1>1, <2>1, <2>2
  <2>4. slots'[key_index[b]] = slots[key_index[b]]
    BY Zenon, <1>2, <2>2, <2>3 DEF PoolInv, TypeOK
  <2> QED
    BY Zenon, <2>1, <2>4 DEF PoolInv, IndexSound
<1>11. Linked'
  <2> SUFFICES ASSUME NEW s \in Active'
               PROVE  /\ slots'[s].key \in Keys
                      /\ NoCollisions => key_index'[Bucket(slots'[s].key)] = s
    BY DEF Linked, Bucket, NoCollisions
  <2>1. s \in Active /\ s # r /\ r \in Active /\ slots'[s] = slots[s]
    BY <1>2, <1>7 DEF Active, PoolInv, TypeOK
  <2>2. slots[s].key \in Keys /\ (NoCollisions => key_index[Bucket(slots[s].key)] = s)
    BY Zenon, <2>1 DEF PoolInv, Linked
  <2>3. ASSUME NoCollisions PROVE key_index'[Bucket(slots[s].key)] = s
    <3>1. key_index[Bucket(k)] = r
      BY <1>1, <2>1, <2>3 DEF PoolInv, Linked
    <3>2. Bucket(slots[s].key) # Bucket(k)
      BY Zenon, <2>1, <2>2, <2>3, <3>1
    <3>3. Bucket(slots[s].key) \in Slot
      BY Zenon, <2>2, BucketIsSlot
    <3> QED
      BY Zenon, <1>2, <2>2, <2>3, <3>2, <3>3 DEF PoolInv, TypeOK
  <2> QED
    BY Zenon, <2>1, <2>2, <2>3
<1> QED
  BY <1>6, <1>9, <1>10, <1>11 DEF PoolInv

\* The initial pool satisfies the invariant.
LEMMA InitPool == Init => PoolInv
<1> SUFFICES ASSUME Init PROVE PoolInv
  OBVIOUS
<1> USE PoolAssumption
<1>1. free_list \in Seq(Slot) /\ Len(free_list) = Capacity /\ DOMAIN free_list = 1 .. Capacity
  <2>1. free_list \in [1 .. Capacity -> Slot]
    BY DEF Init, Slot
  <2> QED
    BY <2>1
<1>2. TypeOK
  BY <1>1 DEF Init, TypeOK, FreeSlot
<1>3. Active = {}
  BY DEF Init, Active, FreeSlot
<1>4. FreeSlots = Slot
  <2>1. \A s \in Slot : Capacity - s \in 1 .. Capacity /\ free_list[Capacity - s] = s
    BY DEF Init, Slot
  <2>2. \A i \in 1 .. Capacity : free_list[i] \in Slot
    BY <1>1
  <2> HIDE DEF Slot
  <2> QED
    BY <1>1, <2>1, <2>2 DEF FreeSlots
<1>5. SlotConservation
  BY <1>1, <1>3, <1>4 DEF SlotConservation, Init, FreeSlot
<1> QED
  BY Zenon, <1>2, <1>3, <1>5 DEF Init, PoolInv, IndexSound, Linked

\* The inductive invariant holds in every reachable state of the pool.
THEOREM PoolInvariant == Spec => []PoolInv
<1>1. Init => PoolInv
  BY InitPool
<1>2. PoolInv /\ [Next]_vars => PoolInv'
  <2> SUFFICES ASSUME PoolInv, [Next]_vars PROVE PoolInv'
    OBVIOUS
  <2>1. ASSUME NEW k \in Keys, Remove(k) PROVE PoolInv'
    BY <2>1, RemovePreserves
  <2>2. ASSUME NEW k \in Keys, NEW c \in Contexts, Insert(k, c) PROVE PoolInv'
    BY <2>2, AllocatePreserves, ReplacePreserves DEF Insert
  <2>3. ASSUME NEW k \in Keys, NEW c \in Contexts, InsertIfAbsent(k, c) PROVE PoolInv'
    BY <2>3, AllocatePreserves DEF InsertIfAbsent
  <2>4. ASSUME NEW k \in Keys, NEW c \in Contexts, WithMut(k, c) PROVE PoolInv'
    BY Zenon, <2>4, ReplacePreserves DEF WithMut
  <2>5. CASE UNCHANGED vars
    BY <2>5 DEF vars, PoolInv, TypeOK, SlotConservation, FreeSlots, Active, IndexSound,
                Linked, NoCollisions, Bucket
  <2> QED
    BY Zenon, <2>1, <2>2, <2>3, <2>4, <2>5 DEF Next
<1> QED
  BY <1>1, <1>2, PTL DEF Spec

\* Type correctness of the pool.
THEOREM TypeCorrect == Spec => []TypeOK
<1>1. PoolInv => TypeOK
  BY DEF PoolInv
<1> QED
  BY <1>1, PoolInvariant, PTL

\* No slot is lost and none is handed out twice, whatever the keys.
THEOREM SlotsConserved == Spec => []SlotConservation
<1>1. PoolInv => SlotConservation
  BY DEF PoolInv
<1> QED
  BY <1>1, PoolInvariant, PTL

\* The index never dangles, whatever the keys.
THEOREM IndexNeverDangles == Spec => []IndexSound
<1>1. PoolInv => IndexSound
  BY DEF PoolInv
<1> QED
  BY <1>1, PoolInvariant, PTL

\* As long as no two keys share a bucket, every stored workflow is found.
THEOREM AllReachableWithoutCollisions == Spec => []ReachableUnlessColliding
<1>1. PoolInv => ReachableUnlessColliding
  <2> SUFFICES ASSUME PoolInv, NoCollisions, NEW s \in Active
               PROVE  FindKeySlot(slots[s].key) = s
    BY DEF ReachableUnlessColliding, Reachable
  <2>1. s \in Slot /\ slots[s].active /\ key_index[Bucket(slots[s].key)] = s
    BY DEF Active, PoolInv, Linked
  <2>2. s # EMPTY
    BY <2>1, PoolAssumption DEF Slot, EMPTY
  <2> QED
    BY <2>1, <2>2 DEF FindKeySlot, Holds
<1> QED
  BY <1>1, PoolInvariant, PTL

-----------------------------------------------------------------------------
(* The pool as a map *)

\* The keys that occupy a slot, found or not.
Stored == {k \in Keys : \E s \in Slot : Holds(s, k)}

\* The visible map has exactly the stored keys, each with the context of the
\* slot that holds it.
ShowsWhatIsStored ==
  /\ Visible \in [Stored -> Contexts]
  /\ \A k \in Keys, s \in Slot : Holds(s, k) => Visible[k] = contexts[s]

\* Without collisions, what find_key_slot shows is what the slots hold.
LEMMA VisibleIsStored == NoCollisions /\ PoolInv => ShowsWhatIsStored
<1> SUFFICES ASSUME NoCollisions, PoolInv PROVE ShowsWhatIsStored
  OBVIOUS
<1>1. ASSUME NEW k \in Keys, NEW s \in Slot, Holds(s, k)
      PROVE  Present(k) /\ FindKeySlot(k) = s
  <2>1. key_index[Bucket(k)] = s
    BY <1>1 DEF PoolInv, Linked, Active, Holds
  <2>2. s # EMPTY
    BY PoolAssumption DEF Slot, EMPTY
  <2> QED
    BY <1>1, <2>1, <2>2 DEF FindKeySlot, Present
<1>2. ASSUME NEW k \in Keys, Present(k)
      PROVE  FindKeySlot(k) \in Slot /\ Holds(FindKeySlot(k), k)
  BY <1>2, FoundSlot DEF PoolInv
<1>3. {k \in Keys : Present(k)} = Stored
  BY <1>1, <1>2 DEF Stored
<1>4. ASSUME NEW k \in Keys, NEW s \in Slot, Holds(s, k) PROVE contexts[s] \in Contexts
  BY <1>4 DEF PoolInv, TypeOK, SlotConservation, Holds
<1>5. Visible \in [Stored -> Contexts]
  BY Zenon, <1>2, <1>3, <1>4 DEF Visible
<1> QED
  BY <1>1, <1>5 DEF Visible, ShowsWhatIsStored

\* A new slot for an absent key adds that key to the map.
LEMMA AllocateInserts ==
  ASSUME PoolInv, ShowsWhatIsStored, ShowsWhatIsStored',
         NEW k \in Keys, NEW c \in Contexts, ~Present(k), Allocate(k, c)
  PROVE  Map!Insert(k, c)
<1>1. /\ Top \in Slot /\ ~slots[Top].active
      /\ slots' = [slots EXCEPT ![Top] = [key |-> k, active |-> TRUE]]
      /\ contexts' = [contexts EXCEPT ![Top] = c]
  BY TopIsFree DEF Allocate
<1>2. \A s \in Slot, x \in Keys :
        Holds(s, x)' <=> (IF s = Top THEN x = k ELSE Holds(s, x))
  BY <1>1 DEF Holds, PoolInv, TypeOK
<1>3. Stored' = Stored \cup {k}
  BY <1>1, <1>2 DEF Stored, Holds
<1>4. ASSUME NEW x \in Stored \cup {k}
      PROVE  Visible'[x] = IF x = k THEN c ELSE Visible[x]
  <2>1. CASE x = k
    BY <1>1, <1>2, <2>1 DEF ShowsWhatIsStored, PoolInv, TypeOK
  <2>2. CASE x # k
    <3>1. PICK s \in Slot : Holds(s, x)
      BY <2>2 DEF Stored
    <3>2. s # Top /\ Holds(s, x)' /\ contexts'[s] = contexts[s]
      BY <1>1, <1>2, <3>1 DEF Holds, PoolInv, TypeOK
    <3> QED
      BY <2>2, <3>1, <3>2 DEF ShowsWhatIsStored, Stored
  <2> QED
    BY <2>1, <2>2
<1>5. /\ Visible \in [Stored -> Contexts]
      /\ Visible' \in [Stored \cup {k} -> Contexts]
  BY <1>3 DEF ShowsWhatIsStored
<1> QED
  BY <1>4, <1>5 DEF Map!Insert, Map!Update

\* A context written in place updates the key in the map.
LEMMA ReplaceUpdates ==
  ASSUME PoolInv, ShowsWhatIsStored, ShowsWhatIsStored',
         NEW k \in Keys, NEW c \in Contexts, Present(k), Replace(k, c)
  PROVE  Map!WithMut(k, c)
<1> DEFINE f == FindKeySlot(k)
<1>1. f \in Slot /\ Holds(f, k)
  BY FoundSlot DEF PoolInv
<1>2. slots' = slots /\ contexts' = [contexts EXCEPT ![f] = c]
  BY DEF Replace
<1> HIDE DEF f
<1>3. \A s, x : Holds(s, x)' <=> Holds(s, x)
  BY <1>2 DEF Holds
<1>4. Stored' = Stored /\ k \in Stored
  BY <1>1, <1>3 DEF Stored
<1>5. ASSUME NEW x \in Stored
      PROVE  Visible'[x] = IF x = k THEN c ELSE Visible[x]
  <2>1. CASE x = k
    BY <1>1, <1>2, <1>3, <2>1 DEF ShowsWhatIsStored, PoolInv, TypeOK
  <2>2. CASE x # k
    <3>1. PICK s \in Slot : Holds(s, x)
      BY DEF Stored
    <3>2. s # f /\ Holds(s, x)' /\ contexts'[s] = contexts[s]
      BY <1>1, <1>2, <1>3, <2>2, <3>1 DEF Holds, PoolInv, TypeOK
    <3> QED
      BY <2>2, <3>1, <3>2 DEF ShowsWhatIsStored, Stored
  <2> QED
    BY <2>1, <2>2
<1>6. /\ Visible \in [Stored -> Contexts] /\ Visible' \in [Stored -> Contexts]
      /\ Stored \cup {k} = Stored
  BY <1>4 DEF ShowsWhatIsStored
<1> QED
  BY <1>4, <1>5, <1>6 DEF Map!WithMut, Map!Update

\* Freeing the slot of a key takes that key, and no other, out of the map.
LEMMA RemoveRemoves ==
  ASSUME NoCollisions, PoolInv, ShowsWhatIsStored, ShowsWhatIsStored',
         NEW k \in Keys, Remove(k)
  PROVE  Map!Remove(k)
<1> DEFINE f == FindKeySlot(k)
<1>1. f \in Slot /\ Holds(f, k)
  BY FoundSlot DEF PoolInv, Remove
<1>2. /\ slots' = [slots EXCEPT ![f] = FreeSlot]
      /\ contexts' = [contexts EXCEPT ![f] = NoContext]
  BY DEF Remove
<1>3. ASSUME NEW s \in Slot, Holds(s, k) PROVE s = f
  <2>1. key_index[Bucket(k)] = s /\ key_index[Bucket(k)] = f
    BY <1>1, <1>3 DEF PoolInv, Linked, Active, Holds
  <2> QED
    BY <2>1
<1> HIDE DEF f
<1>4. \A s \in Slot, x \in Keys : Holds(s, x)' <=> s # f /\ Holds(s, x)
  BY <1>1, <1>2 DEF Holds, FreeSlot, PoolInv, TypeOK
<1>5. Stored' = Stored \ {k} /\ k \in Stored
  <2>1. \A x \in Keys, s \in Slot : x # k /\ Holds(s, x) => s # f
    BY <1>1 DEF Holds
  <2> QED
    BY <1>1, <1>3, <1>4, <2>1 DEF Stored
<1>6. ASSUME NEW x \in Stored \ {k} PROVE Visible'[x] = Visible[x]
  <2>1. PICK s \in Slot : Holds(s, x)
    BY DEF Stored
  <2>2. s # f /\ Holds(s, x)' /\ contexts'[s] = contexts[s]
    BY <1>1, <1>2, <1>4, <2>1 DEF Holds, Stored, PoolInv, TypeOK
  <2> QED
    BY <2>1, <2>2 DEF ShowsWhatIsStored, Stored
<1>7. /\ Visible \in [Stored -> Contexts] /\ Visible' \in [Stored \ {k} -> Contexts]
  BY <1>5 DEF ShowsWhatIsStored
<1> QED
  BY <1>5, <1>6, <1>7 DEF Map!Remove

\* As long as no two keys share a bucket, the pool is a drop-in replacement for
\* the map: every method changes what callers see as the map's method would.
THEOREM PoolIsAMap == NoCollisions => (Spec => ImplementsMap)
<1> SUFFICES ASSUME NoCollisions PROVE Spec => ImplementsMap
  OBVIOUS
<1>1. Init => Map!Init
  <2> SUFFICES ASSUME Init PROVE Visible = [x \in {} |-> x]
    BY DEF Map!Init
  <2>1. \A k \in Keys : ~Present(k)
    BY BucketIsSlot DEF Init, Present, FindKeySlot
  <2> QED
    BY <2>1 DEF Visible
<1>2. PoolInv /\ ShowsWhatIsStored /\ ShowsWhatIsStored' /\ [Next]_vars => [Map!Next]_Visible
  <2> SUFFICES ASSUME PoolInv, ShowsWhatIsStored, ShowsWhatIsStored',
                      [Next]_vars
               PROVE  Map!Next \/ UNCHANGED Visible
    OBVIOUS
  <2>1. ASSUME NEW k \in Keys, Remove(k) PROVE Map!Next
    BY <2>1, RemoveRemoves DEF Map!Next
  <2>2. ASSUME NEW k \in Keys, NEW c \in Contexts, Present(k), Replace(k, c)
        PROVE  Map!Next
    BY <2>2, ReplaceUpdates DEF Map!Next
  <2>3. ASSUME NEW k \in Keys, NEW c \in Contexts, ~Present(k), Allocate(k, c)
        PROVE  Map!Next
    BY <2>3, AllocateInserts DEF Map!Next
  <2>4. CASE UNCHANGED vars
    BY <2>4 DEF vars, Visible, Present, FindKeySlot, LinearSlot, Holds, Bucket
  <2> QED
    BY Zenon, <2>1, <2>2, <2>3, <2>4 DEF Next, Insert, InsertIfAbsent, WithMut
<1>3. PoolInv => ShowsWhatIsStored
  BY VisibleIsStored
<1> QED
  BY <1>1, <1>2, <1>3, PoolInvariant, PTL DEF Spec, ImplementsMap, Map!Spec
=============================================================================
