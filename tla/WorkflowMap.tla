---------------------------- MODULE WorkflowMap ----------------------------
(***************************************************************************)
(* What the engine expects of its table of workflows: a plain map from     *)
(* keys to contexts, DashMap<u64, WorkflowContext>, the type that          *)
(* WorkflowContextPool replaces.                                           *)
(***************************************************************************)
EXTENDS Integers, FiniteSets

CONSTANTS Keys, Contexts

VARIABLE map

Update(k, c) == [x \in DOMAIN map \cup {k} |-> IF x = k THEN c ELSE map[x]]

Init == map = [x \in {} |-> x]

Insert(k, c) == map' = Update(k, c)

InsertIfAbsent(k, c) == k \notin DOMAIN map /\ map' = Update(k, c)

WithMut(k, c) == k \in DOMAIN map /\ map' = Update(k, c)

Remove(k) ==
  /\ k \in DOMAIN map
  /\ map' = [x \in DOMAIN map \ {k} |-> map[x]]

Next ==
  \E k \in Keys :
    \/ Remove(k)
    \/ \E c \in Contexts : Insert(k, c) \/ InsertIfAbsent(k, c) \/ WithMut(k, c)

Spec == Init /\ [][Next]_map
=============================================================================
