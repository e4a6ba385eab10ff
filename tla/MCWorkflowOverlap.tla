-------------------------- MODULE MCWorkflowOverlap --------------------------
(* The instance of WorkflowOverlap for TLC. *)
EXTENDS WorkflowOverlap
=============================================================================
