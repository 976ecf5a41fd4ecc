------------------------ MODULE WorkflowContextPool ------------------------
(***************************************************************************)
(* The fixed-capacity map from workflow keys to workflow contexts          *)
(* (WorkflowContextPool in workflow_slab_pool.rs).  Every method holds the *)
(* pool's single mutex from beginning to end, so every method is one       *)
(* action.  The number of hash buckets and the number of slots are the     *)
(* same constant in the code, and here.                                    *)
(***************************************************************************)
EXTENDS Integers, Sequences, FiniteSets

CONSTANTS
  Keys,       \* workflow keys: namespace id * 2^32 + workflow id
  Contexts,   \* abstract WorkflowContext values
  Capacity,   \* WORKFLOW_POOL_CAPACITY
  NoContext   \* the None of Option<WorkflowContext>

ASSUME PoolAssumption ==
  /\ Capacity \in Nat \ {0}
  /\ Keys \subseteq Nat
  /\ NoContext \notin Contexts

VARIABLES
  key_index,    \* bucket -> slot, or EMPTY
  slots,        \* slot -> [key, active]
  contexts,     \* slot -> context or NoContext
  free_list,    \* stack of free slots, top last
  active_count

vars == <<key_index, slots, contexts, free_list, active_count>>

Slot == 0 .. Capacity - 1
EMPTY == Capacity               \* KEY_SLOT_EMPTY: no slot has this number
FreeSlot == [key |-> 0, active |-> FALSE]

Bucket(k) == k % Capacity

Holds(s, k) == slots[s].active /\ slots[s].key = k

\* Lowest slot holding k: what the linear scan returns.
LinearSlot(k) ==
  IF \E s \in Slot : Holds(s, k)
  THEN CHOOSE s \in Slot : Holds(s, k) /\ \A t \in Slot : Holds(t, k) => s <= t
  ELSE EMPTY

\* find_key_slot: an empty bucket answers "absent" without any scan.
FindKeySlot(k) ==
  LET s == key_index[Bucket(k)]
  IN  IF s = EMPTY THEN EMPTY
      ELSE IF Holds(s, k) THEN s
      ELSE LinearSlot(k)

Present(k) == FindKeySlot(k) # EMPTY

Top == free_list[Len(free_list)]
Popped == SubSeq(free_list, 1, Len(free_list) - 1)

Init ==
  /\ key_index = [b \in Slot |-> EMPTY]
  /\ slots = [s \in Slot |-> FreeSlot]
  /\ contexts = [s \in Slot |-> NoContext]
  /\ free_list = [i \in 1 .. Capacity |-> Capacity - i]
  /\ active_count = 0

\* Mutant: insert forgets the index.
IndexNothing(k, s) == key_index

IndexSlot(k, s) == [key_index EXCEPT ![Bucket(k)] = s]

\* Common tail of insert and insert_if_absent: take a slot for an absent key.
Allocate(k, c) ==
  /\ free_list # <<>>
  /\ slots' = [slots EXCEPT ![Top] = [key |-> k, active |-> TRUE]]
  /\ key_index' = IndexSlot(k, Top)
  /\ contexts' = [contexts EXCEPT ![Top] = c]
  /\ free_list' = Popped
  /\ active_count' = active_count + 1

Replace(k, c) ==
  /\ contexts' = [contexts EXCEPT ![FindKeySlot(k)] = c]
  /\ UNCHANGED <<key_index, slots, free_list, active_count>>

\* insert: replace in place when the key is found, else allocate.
Insert(k, c) ==
  \/ Present(k) /\ Replace(k, c)
  \/ ~Present(k) /\ Allocate(k, c)

\* insert_if_absent, used by write-ahead-log replay.
InsertIfAbsent(k, c) == ~Present(k) /\ Allocate(k, c)

\* with_mut: the closure may rewrite the context in place.
WithMut(k, c) == Present(k) /\ Replace(k, c)

\* Mutants of remove: the slot is never given back, or twice, or its successor
\* is; the index keeps it.
ReleaseTwice(s) == free_list \o <<s, s>>
ReleaseForgets(s) == free_list
ReleaseOffByOne(s) == Append(free_list, s + 1)
UnindexNothing(k) == key_index

Release(s) == Append(free_list, s)
Unindex(k) == [key_index EXCEPT ![Bucket(k)] = EMPTY]

\* remove: clears the whole bucket, whichever slot the bucket points to.
Remove(k) ==
  /\ Present(k)
  /\ contexts' = [contexts EXCEPT ![FindKeySlot(k)] = NoContext]
  /\ slots' = [slots EXCEPT ![FindKeySlot(k)] = FreeSlot]
  /\ key_index' = Unindex(k)
  /\ free_list' = Release(FindKeySlot(k))
  /\ active_count' = active_count - 1

Next ==
  \E k \in Keys :
    \/ Remove(k)
    \/ \E c \in Contexts : Insert(k, c) \/ InsertIfAbsent(k, c) \/ WithMut(k, c)

Spec == Init /\ [][Next]_vars

-----------------------------------------------------------------------------
Active == {s \in Slot : slots[s].active}
FreeSlots == {free_list[i] : i \in DOMAIN free_list}
NoCollisions == \A k1, k2 \in Keys : Bucket(k1) = Bucket(k2) => k1 = k2

\* Type correctness.
TypeOK ==
  /\ key_index \in [Slot -> Slot \cup {EMPTY}]
  /\ slots \in [Slot -> [key : Nat, active : BOOLEAN]]
  /\ contexts \in [Slot -> Contexts \cup {NoContext}]
  /\ free_list \in Seq(Slot)
  /\ active_count \in Int

\* No slot is lost or handed out twice: the free list names every inactive
\* slot exactly once, an active slot has a context, and active_count (what
\* len() returns) is the number of slots that are off the free list.
SlotConservation ==
  /\ FreeSlots = Slot \ Active
  /\ \A i, j \in DOMAIN free_list : free_list[i] = free_list[j] => i = j
  /\ \A s \in Slot : slots[s].active <=> contexts[s] # NoContext
  /\ active_count = Capacity - Len(free_list)

\* The index never dangles: a bucket that is not EMPTY leads to a live slot
\* whose key hashes to that very bucket, also after collisions, removals and
\* slot reuse.
IndexSound ==
  \A b \in Slot : key_index[b] # EMPTY =>
    /\ slots[key_index[b]].active
    /\ slots[key_index[b]].key \in Keys
    /\ Bucket(slots[key_index[b]].key) = b

\* Every workflow that occupies a slot can be found by its key
\* (find_key_slot "Handles hash collisions by verifying the slot's actual
\* key").
Reachable == \A s \in Active : FindKeySlot(slots[s].key) = s

\* The inductive invariant behind the theorems: without collisions every live
\* slot is the one its bucket points to.
Linked ==
  \A s \in Active :
    /\ slots[s].key \in Keys
    /\ NoCollisions => key_index[Bucket(slots[s].key)] = s
PoolInv == TypeOK /\ SlotConservation /\ IndexSound /\ Linked

\* The same, for key sets in which no two keys share a bucket.
ReachableUnlessColliding == NoCollisions => Reachable

-----------------------------------------------------------------------------
\* What callers see through find_key_slot, as the map the pool stands for.
Visible == [k \in {x \in Keys : Present(x)} |-> contexts[FindKeySlot(k)]]

Map == INSTANCE WorkflowMap WITH map <- Visible

\* The pool is a "drop-in replacement for DashMap<u64, WorkflowContext>":
\* each method changes the visible map as the map's own method would.
ImplementsMap == Map!Spec
=============================================================================
