---------------------------- MODULE MCBudgetTotals ----------------------------
(***************************************************************************)
(* Budget with a memory of the totals that held during each admission, to  *)
(* check what budget.ts says of them.                                      *)
(***************************************************************************)
EXTENDS MCBudget

VARIABLE fitted    \* the admissions under way that met a total below the cap

\* What is recorded, and what the admitted runs that recorded nothing could spend.
Total == recorded + Ceilings({r \in Open : unrecorded[r] = spent[r]})

TotalsInit == Init /\ fitted = {}

TotalsNext ==
    /\ Next
    /\ fitted' = {r \in Run : at'[r] \in Deciding /\ (r \in fitted \/ Total' < Cap)}

TotalsSpec == TotalsInit /\ [][TotalsNext]_<<vars, fitted>>

\* A run that can be refused is not admitted when the total was at the cap or above
\* it from the moment its admission took the lock (budget.ts, ADMISSION GUARANTEE:
\* once that total reaches the cap, every later admission is refused).
RefusedAtCap == [][\A r \in Run \ Exempt : Admit(r) => r \in fitted]_<<vars, fitted>>
=============================================================================
