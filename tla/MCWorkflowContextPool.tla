----------------------- MODULE MCWorkflowContextPool -----------------------
(***************************************************************************)
(* Instances of WorkflowContextPool: one in which no two keys share a      *)
(* bucket (workflow ids below the capacity, one namespace), and one in     *)
(* which the same workflow id is used in two namespaces.                   *)
(***************************************************************************)
EXTENDS WorkflowContextPool

DistinctBuckets == {4, 9, 14, 19}  \* one key for each bucket of 4: the pool fills up
SameBucket == {1, 5, 9, 2}         \* 1, 5 and 9 share bucket 1 of 4
=============================================================================
