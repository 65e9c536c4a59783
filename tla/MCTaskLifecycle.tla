-------------------------- MODULE MCTaskLifecycle --------------------------
(***************************************************************************)
(* Instances of TaskLifecycle for TLC: the implementation pass and the     *)
(* audit that depends on it, which the autonomy loop may run.              *)
(***************************************************************************)
EXTENDS TaskLifecycle

CONSTANTS executor, auditor

MCAssigned == [t \in Tasks |-> IF t \in Autonomous THEN auditor ELSE executor]
=============================================================================
