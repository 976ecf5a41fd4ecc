-------------------------- MODULE MCWorkflowEngine --------------------------
(* Instances of WorkflowEngine for TLC. *)
EXTENDS WorkflowEngine, TLC

Callers == Permutations(Clients)
=============================================================================
