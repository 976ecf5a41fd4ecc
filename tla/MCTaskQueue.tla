---------------------------- MODULE MCTaskQueue ----------------------------
(***************************************************************************)
(* Instances of TaskQueue.  Threads and queues are interchangeable; the    *)
(* symmetry is used for the safety properties only.                        *)
(***************************************************************************)
EXTENDS TaskQueue, TLC

Threads == Permutations(Queues) \cup Permutations(Enqueuers)
=============================================================================
