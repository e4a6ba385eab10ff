------------------------------ MODULE MCBudget ------------------------------
EXTENDS Budget, TLC

CONSTANTS r1, r2, r3, r4    \* the runs

MCCeiling == (r1 :> 2) @@ (r2 :> 1) @@ (r3 :> 1) @@ (r4 :> 1)
=============================================================================
