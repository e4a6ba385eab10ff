------------------------------- MODULE Budget -------------------------------
(***************************************************************************)
(* Admission of runs to one spend budget that can refuse them (`enforce`). *)
(*                                                                         *)
(* A run is admitted in a transaction that holds the scope's advisory      *)
(* lock, but reads recorded spend and open reservations one after the      *)
(* other, while the ledger is written, reservations are released and runs  *)
(* end with no lock at all.  Workers die at any of these steps, and their  *)
(* jobs are delivered again.                                               *)
(*                                                                         *)
(* Sources: packages/runtime/src/budget.ts, budget-reservations.ts and     *)
(* ledger.ts, the gate in worker/src/run/execute/budget-gate.ts and in     *)
(* worker/src/task-sets/budget.ts.                                         *)
(***************************************************************************)
EXTENDS Naturals, FiniteSets

CONSTANTS
    Run,         \* the runs this budget governs
    Exempt,      \* those it never refuses: a person's live turn
    TaskSets,    \* those that are admitted again before every model call
    Ceiling,     \* what each may spend, its reservation
    Cap,         \* the limit of a period
    MaxPeriods,  \* bound: budget periods
    MaxExtras    \* bound: deaths of workers

ASSUME RunsAssumption == IsFiniteSet(Run) /\ Exempt \subseteq Run /\ TaskSets \subseteq Run
ASSUME AmountsAssumption == Ceiling \in [Run -> Nat \ {0}] /\ Cap \in Nat \ {0}
ASSUME BoundsAssumption == MaxPeriods \in Nat \ {0} /\ MaxExtras \in Nat

VARIABLES
    at,          \* where each run is
    seen,        \* what its admission has read so far
    reserved,    \* the period of its reservation, or NoPeriod
    spent,       \* what it spent, recorded or not
    unrecorded,  \* the part of it the ledger does not have yet
    recorded,    \* the ledger's total of the current period
    period,      \* the current period
    extras       \* deaths so far

vars == <<at, seen, reserved, spent, unrecorded, recorded, period, extras>>
spending == <<spent, unrecorded, recorded>>

NoPeriod == 0
Period == 1..MaxPeriods

\* An admission holds the lock from "locked" until it is decided.
Deciding == {"locked", "half read", "read"}
Live == {"queued", "working", "recorded", "refused"} \cup Deciding

TypeOK ==
    /\ at \in [Run -> Live \cup {"over"}]
    /\ seen \in [Run -> Nat]
    /\ reserved \in [Run -> Period \cup {NoPeriod}]
    /\ \A r \in Run : spent[r] \in 0..Ceiling[r] /\ unrecorded[r] \in 0..spent[r]
    /\ recorded \in Nat
    /\ period \in Period
    /\ extras \in 0..MaxExtras

Init ==
    /\ at = [r \in Run |-> "queued"]
    /\ seen = [r \in Run |-> 0]
    /\ reserved = [r \in Run |-> NoPeriod]
    /\ spent = [r \in Run |-> 0]
    /\ unrecorded = [r \in Run |-> 0]
    /\ recorded = 0
    /\ period = 1
    /\ extras = 0

Go(r, place) == at' = [at EXCEPT ![r] = place]
Forget(r) == seen' = [seen EXCEPT ![r] = 0]

-----------------------------------------------------------------------------
(* What an admission reads.                                                *)

\* As if reservations of ended runs counted until the sweep deletes them.
Open_UntilSwept == {r \in Run : reserved[r] = period}

\* The reservations of this period whose run may still spend.
Open == {r \in Run : reserved[r] = period /\ at[r] # "over"}

\* The sum of some runs' ceilings, as the number of units they are made of.
Units(runs) == UNION {{r} \X (1..Ceiling[r]) : r \in runs}
Ceilings(runs) == Cardinality(Units(runs))

-----------------------------------------------------------------------------
(* The admission transaction.                                              *)

\* As if nothing serialised the admissions.
LockFree_Never == TRUE

LockFree == \A r \in Run : at[r] \notin Deciding

Lock(r) ==
    /\ at[r] = "queued" /\ LockFree
    /\ Go(r, "locked")
    /\ UNCHANGED <<seen, reserved, spending, period, extras>>

ReadLedger(r) ==
    /\ at[r] = "locked"
    /\ Go(r, "half read")
    /\ seen' = [seen EXCEPT ![r] = recorded]
    /\ UNCHANGED <<reserved, spending, period, extras>>

\* The run's own reservation, if it was admitted before, is among them.
ReadReservations(r) ==
    /\ at[r] = "half read"
    /\ Go(r, "read")
    /\ seen' = [seen EXCEPT ![r] = @ + Ceilings(Open)]
    /\ UNCHANGED <<reserved, spending, period, extras>>

OverCap(r) == seen[r] >= Cap

Admit(r) ==
    /\ at[r] = "read"
    /\ ~OverCap(r) \/ r \in Exempt
    /\ Go(r, "working")
    /\ reserved' = [reserved EXCEPT ![r] = period]
    /\ Forget(r)
    /\ UNCHANGED <<spending, period, extras>>

Refuse(r) ==
    /\ at[r] = "read"
    /\ OverCap(r) /\ r \notin Exempt
    /\ Go(r, "refused")
    /\ Forget(r)
    /\ UNCHANGED <<reserved, spending, period, extras>>

\* The notice is posted first; the status that ends the run comes after.
EndRefused(r) ==
    /\ at[r] = "refused"
    /\ Go(r, "over")
    /\ UNCHANGED <<seen, reserved, spending, period, extras>>

-----------------------------------------------------------------------------
(* The admitted run.                                                       *)

MaySpend(r) == at[r] = "working" /\ spent[r] < Ceiling[r]

Spend(r) ==
    /\ MaySpend(r)
    /\ spent' = [spent EXCEPT ![r] = @ + 1]
    /\ unrecorded' = [unrecorded EXCEPT ![r] = @ + 1]
    /\ UNCHANGED <<at, seen, reserved, recorded, period, extras>>

\* The ledger rows first, then the reservation goes: two statements.
Record(r) ==
    /\ at[r] = "working" /\ unrecorded[r] > 0
    /\ Go(r, "recorded")
    /\ recorded' = recorded + unrecorded[r]
    /\ unrecorded' = [unrecorded EXCEPT ![r] = 0]
    /\ UNCHANGED <<seen, reserved, spent, period, extras>>

Release(r) ==
    /\ at[r] = "recorded"
    /\ Go(r, "working")
    /\ reserved' = [reserved EXCEPT ![r] = NoPeriod]
    /\ UNCHANGED <<seen, spending, period, extras>>

\* A task set asks again before its next call; it has recorded the last one.
AskAgain(r) ==
    /\ r \in TaskSets
    /\ at[r] = "working" /\ reserved[r] = NoPeriod /\ unrecorded[r] = 0
    /\ Go(r, "queued")
    /\ UNCHANGED <<seen, reserved, spending, period, extras>>

Finish(r) ==
    /\ at[r] = "working" /\ unrecorded[r] = 0
    /\ Go(r, "over")
    /\ UNCHANGED <<seen, reserved, spending, period, extras>>

\* The worker dies: an open transaction rolls back, which frees the lock, the
\* reservation stays, and of the unrecorded spend the run's checkpoint keeps a
\* part.  The job is delivered again.
Crash(r) ==
    /\ at[r] \in Live \ {"queued"}
    /\ extras < MaxExtras /\ extras' = extras + 1
    /\ Go(r, "queued")
    /\ \E lost \in 0..unrecorded[r] :
        /\ spent' = [spent EXCEPT ![r] = @ - lost]
        /\ unrecorded' = [unrecorded EXCEPT ![r] = @ - lost]
    /\ Forget(r)
    /\ UNCHANGED <<reserved, recorded, period>>

-----------------------------------------------------------------------------
(* The sweep, and time.                                                    *)

\* As if the sweep took every reservation it found.
Settled_Any(r) == TRUE

Settled(r) == at[r] = "over"

Sweep(r) ==
    /\ reserved[r] # NoPeriod /\ Settled(r)
    /\ reserved' = [reserved EXCEPT ![r] = NoPeriod]
    /\ UNCHANGED <<at, seen, spending, period, extras>>

NextPeriod ==
    /\ period < MaxPeriods
    /\ period' = period + 1
    /\ recorded' = 0
    /\ UNCHANGED <<at, seen, reserved, spent, unrecorded, extras>>

-----------------------------------------------------------------------------
Admission(r) ==
    \/ Lock(r) \/ ReadLedger(r) \/ ReadReservations(r)
    \/ Admit(r) \/ Refuse(r) \/ EndRefused(r)

Work(r) ==
    \/ Spend(r) \/ Record(r) \/ Release(r) \/ AskAgain(r) \/ Finish(r) \/ Crash(r)

Next == NextPeriod \/ \E r \in Run : Admission(r) \/ Work(r) \/ Sweep(r)

Spec == Init /\ [][Next]_vars

-----------------------------------------------------------------------------
(* Properties.                                                             *)

AllButOneFit(runs) ==
    runs # {} => \E last \in runs : Ceilings(runs \ {last}) < Cap

\* The runs that had to fit all fit but for one of them, so that together their
\* reservations pass the cap by less than its ceiling, however many workers admit
\* at once: each admission read all the reservations that stand (budget.ts,
\* ADMISSION GUARANTEE).
ReservationsBounded == AllButOneFit(Open \ Exempt)

\* A run that works and has nothing on the ledger counts with its ceiling in the
\* period that admitted it: it has a reservation, which no sweep and no crash
\* takes from it.
CountedWhileSilent ==
    \A r \in Run :
        at[r] = "working" /\ unrecorded[r] = spent[r] => reserved[r] # NoPeriod

\* An ended run holds no budget although its reservation is still there: an
\* admission that comes out over the cap found spend on the ledger, or a run
\* that may still spend ("a crashed run cannot hold budget hostage").
RefusedForLiveWork ==
    [][\A r \in Run :
         ReadReservations(r) /\ seen'[r] >= Cap =>
             \/ seen[r] >= Cap
             \/ \E q \in Run : at[q] # "over" /\ reserved[q] = period]_vars

=============================================================================
