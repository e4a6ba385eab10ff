---------------------------- MODULE MCToolCalls ----------------------------
(* Instances of ToolCalls for TLC. *)
EXTENDS ToolCalls

CONSTANTS c1, c2    \* the calls of a batch

\* A batch of two calls, or two batches of one.
MCScenarios == {
    [calls |-> {c1, c2}, asks |-> 1,
     faults |-> {"silent", "drain", "write fails", "throws", "suspends"}],
    [calls |-> {c1}, asks |-> 2, faults |-> {"silent", "timeout", "write fails"}]}
=============================================================================
