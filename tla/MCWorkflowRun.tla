---------------------------- MODULE MCWorkflowRun ----------------------------
(* Instances of WorkflowRun for TLC. *)
EXTENDS WorkflowRun, TLC

CONSTANTS w1, w2

Workers == Permutations({w1, w2})

MixedSteps == <<"tool", "agent", "transform", "agent", "tool">>
EnvironmentTransformAgent == <<"environment", "transform", "agent">>
=============================================================================
