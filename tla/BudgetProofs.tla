---------------------------- MODULE BudgetProofs ----------------------------
(***************************************************************************)
(* Proofs about Budget, for any runs, ceilings, cap, periods and deaths.   *)
(***************************************************************************)
EXTENDS Budget, FiniteSetTheorems, TLAPS

-----------------------------------------------------------------------------
(* Where runs are and what they spent and hold; sums do not matter yet.    *)

Amounts ==
    /\ at \in [Run -> Live \cup {"over"}]
    /\ reserved \in [Run -> Period \cup {NoPeriod}]
    /\ spent \in [Run -> Nat] /\ unrecorded \in [Run -> Nat]
    /\ \A r \in Run : spent[r] <= Ceiling[r] /\ unrecorded[r] <= spent[r]
    /\ period \in Period

\* A run that gave its reservation up has something on the ledger.
ReleasedIsRecorded ==
    \A r \in Run :
        /\ at[r] = "recorded" => unrecorded[r] < spent[r]
        /\ at[r] = "working" /\ reserved[r] = NoPeriod => unrecorded[r] < spent[r]

SilentInv == Amounts /\ ReleasedIsRecorded

\* No two admissions overlap.
OneAdmission == \A p, q \in Run : at[p] \in Deciding /\ at[q] \in Deciding => p = q

\* The initial state.
LEMMA InitSilent == Init => SilentInv /\ OneAdmission
BY AmountsAssumption, BoundsAssumption
   DEF Init, SilentInv, Amounts, ReleasedIsRecorded, OneAdmission, Live, Deciding, Period, NoPeriod

\* A period is none of the marks of no period.
LEMMA PeriodsAreSome == NoPeriod \notin Period
BY DEF NoPeriod, Period

\* The next period is one of the periods.
LEMMA PeriodsGoOn == NextPeriod /\ period \in Period => period + 1 \in Period
BY BoundsAssumption DEF NextPeriod, Period

\* Spending below the ceiling stays within it.
LEMMA SpendingFits ==
    ASSUME NEW c \in Nat, NEW s \in Nat, NEW u \in Nat, s < c, u <= s
    PROVE  /\ s + 1 \in Nat /\ u + 1 \in Nat /\ s + 1 <= c /\ u + 1 <= s + 1
           /\ u < s => u + 1 < s + 1
OBVIOUS

\* What is recorded leaves nothing unrecorded of a spend that is some.
LEMMA RecordingFits ==
    ASSUME NEW s \in Nat, NEW u \in Nat, u > 0, u <= s
    PROVE  0 \in Nat /\ 0 <= s /\ 0 < s
OBVIOUS

\* Losing a part of the unrecorded spend keeps the amounts in order.
LEMMA LosingFits ==
    ASSUME NEW c \in Nat, NEW s \in Nat, NEW u \in Nat, NEW l \in 0..u, u <= s, s <= c
    PROVE  s - l \in Nat /\ u - l \in Nat /\ s - l <= c /\ u - l <= s - l
OBVIOUS

\* Every step keeps the amounts, and what was released recorded.
LEMMA StepSilent == SilentInv /\ [Next]_vars => SilentInv'
<1> SUFFICES ASSUME SilentInv, [Next]_vars PROVE SilentInv'
  OBVIOUS
<1> USE DEF SilentInv, Amounts, ReleasedIsRecorded, Live, Deciding, Go, Forget, spending
<1>0. \A r \in Run : Ceiling[r] \in Nat
  BY AmountsAssumption
<1>b. \A r \in Run : spent[r] \in Nat /\ unrecorded[r] \in Nat
  OBVIOUS
<1>1. ASSUME NEW r \in Run, Lock(r) PROVE SilentInv'
  BY <1>1 DEF Lock
<1>2. ASSUME NEW r \in Run, ReadLedger(r) PROVE SilentInv'
  BY <1>2 DEF ReadLedger
<1>3. ASSUME NEW r \in Run, ReadReservations(r) PROVE SilentInv'
  BY <1>3 DEF ReadReservations
<1>4. ASSUME NEW r \in Run, Admit(r) PROVE SilentInv'
  BY <1>4, PeriodsAreSome DEF Admit
<1>5. ASSUME NEW r \in Run, Refuse(r) PROVE SilentInv'
  BY <1>5 DEF Refuse
<1>6. ASSUME NEW r \in Run, EndRefused(r) PROVE SilentInv'
  BY <1>6 DEF EndRefused
<1>7. ASSUME NEW r \in Run, Spend(r) PROVE SilentInv'
  <2>1. /\ spent[r] \in Nat /\ unrecorded[r] \in Nat /\ Ceiling[r] \in Nat
        /\ at[r] = "working" /\ spent[r] < Ceiling[r]
        /\ unrecorded[r] <= spent[r]
    BY <1>0, <1>b, <1>7 DEF Spend, MaySpend
  <2>2. /\ spent[r] + 1 \in Nat /\ unrecorded[r] + 1 \in Nat
        /\ spent[r] + 1 <= Ceiling[r] /\ unrecorded[r] + 1 <= spent[r] + 1
        /\ unrecorded[r] < spent[r] => unrecorded[r] + 1 < spent[r] + 1
    BY <2>1, SpendingFits
  <2>3. /\ spent' = [spent EXCEPT ![r] = spent[r] + 1]
        /\ unrecorded' = [unrecorded EXCEPT ![r] = unrecorded[r] + 1]
        /\ UNCHANGED <<at, reserved, period>>
    BY <1>7 DEF Spend
  <2>4. Amounts'
    BY <2>2, <2>3
  <2>5. ReleasedIsRecorded'
    BY <2>1, <2>2, <2>3
  <2> QED
    BY <2>4, <2>5
<1>8. ASSUME NEW r \in Run, Record(r) PROVE SilentInv'
  <2>1. spent[r] \in Nat /\ unrecorded[r] \in Nat /\ unrecorded[r] > 0 /\ unrecorded[r] <= spent[r]
    BY <1>b, <1>8 DEF Record
  <2>2. 0 \in Nat /\ 0 <= spent[r] /\ 0 < spent[r]
    BY <2>1, RecordingFits
  <2>3. /\ unrecorded' = [unrecorded EXCEPT ![r] = 0]
        /\ at' = [at EXCEPT ![r] = "recorded"]
        /\ UNCHANGED <<spent, reserved, period>>
    BY <1>8 DEF Record
  <2>4. Amounts'
    BY <2>2, <2>3
  <2>5. ReleasedIsRecorded'
    BY <2>2, <2>3
  <2> QED
    BY <2>4, <2>5
<1>9. ASSUME NEW r \in Run, Release(r) PROVE SilentInv'
  BY <1>9 DEF Release
<1>10. ASSUME NEW r \in Run, AskAgain(r) PROVE SilentInv'
  BY <1>10 DEF AskAgain
<1>11. ASSUME NEW r \in Run, Finish(r) PROVE SilentInv'
  BY <1>11 DEF Finish
<1>12. ASSUME NEW r \in Run, Crash(r) PROVE SilentInv'
  <2>1. PICK lost \in 0..unrecorded[r] :
            /\ spent' = [spent EXCEPT ![r] = @ - lost]
            /\ unrecorded' = [unrecorded EXCEPT ![r] = @ - lost]
    BY <1>12 DEF Crash
  <2>2. /\ spent[r] \in Nat /\ unrecorded[r] \in Nat /\ Ceiling[r] \in Nat
        /\ unrecorded[r] <= spent[r] /\ spent[r] <= Ceiling[r]
    BY <1>0, <1>b
  <2>3. /\ spent[r] - lost \in Nat /\ unrecorded[r] - lost \in Nat
        /\ spent[r] - lost <= Ceiling[r] /\ unrecorded[r] - lost <= spent[r] - lost
    BY <2>2, LosingFits
  <2>4. /\ spent' = [spent EXCEPT ![r] = spent[r] - lost]
        /\ unrecorded' = [unrecorded EXCEPT ![r] = unrecorded[r] - lost]
        /\ at' = [at EXCEPT ![r] = "queued"]
        /\ UNCHANGED <<reserved, period>>
    BY <1>12, <2>1 DEF Crash
  <2>5. Amounts'
    BY <2>3, <2>4
  <2>6. ReleasedIsRecorded'
    BY <2>4
  <2> QED
    BY <2>5, <2>6
<1>13. ASSUME NEW r \in Run, Sweep(r) PROVE SilentInv'
  BY <1>13 DEF Sweep, Settled
<1>14. CASE NextPeriod
  <2>1. period + 1 \in Period
    BY <1>14, PeriodsGoOn
  <2> QED
    BY <1>14, <2>1 DEF NextPeriod
<1>15. CASE UNCHANGED vars
  BY <1>15 DEF vars
<1> QED
  BY <1>1, <1>2, <1>3, <1>4, <1>5, <1>6, <1>7, <1>8, <1>9, <1>10, <1>11, <1>12, <1>13, <1>14,
     <1>15 DEF Next, Admission, Work

\* A run that works and has nothing on the ledger has a reservation, which no
\* sweep and no crash takes from it (CountedWhileSilent; ledger.ts releases it
\* behind the first rows, budget-reservations.ts deletes those of ended runs).
THEOREM SilentRunsAreCounted == Spec => []CountedWhileSilent
<1>1. SilentInv => CountedWhileSilent
  BY DEF SilentInv, Amounts, ReleasedIsRecorded, CountedWhileSilent
<1> QED
  BY <1>1, InitSilent, StepSilent, PTL DEF Spec

-----------------------------------------------------------------------------
\* Every step keeps admissions apart.
LEMMA StepOneAdmission == SilentInv /\ OneAdmission /\ [Next]_vars => OneAdmission'
<1> SUFFICES ASSUME SilentInv, OneAdmission, [Next]_vars PROVE OneAdmission'
  OBVIOUS
<1> USE DEF SilentInv, Amounts, OneAdmission, Live, Deciding, Go
<1>1. ASSUME NEW r \in Run, Lock(r) PROVE OneAdmission'
  BY <1>1 DEF Lock, LockFree
<1>2. ASSUME NEW r \in Run, NEW place \in Live \cup {"over"}, Go(r, place),
             place \in Deciding => at[r] \in Deciding
      PROVE  OneAdmission'
  BY <1>2
<1>3. ASSUME NEW r \in Run, ReadLedger(r) \/ ReadReservations(r) PROVE OneAdmission'
  BY <1>2, <1>3 DEF ReadLedger, ReadReservations
<1>4. ASSUME NEW r \in Run, Admit(r) \/ Refuse(r) \/ EndRefused(r) PROVE OneAdmission'
  BY <1>2, <1>4 DEF Admit, Refuse, EndRefused
<1>5. ASSUME NEW r \in Run, Record(r) \/ Release(r) \/ AskAgain(r) \/ Finish(r) \/ Crash(r)
      PROVE  OneAdmission'
  BY <1>2, <1>5 DEF Record, Release, AskAgain, Finish, Crash
<1>6. ASSUME UNCHANGED at PROVE OneAdmission'
  BY <1>6
<1> QED
  BY <1>1, <1>3, <1>4, <1>5, <1>6
     DEF Next, Admission, Work, Spend, Sweep, NextPeriod, spending, vars

\* Admissions to one scope are serialised: no two transactions are between
\* their lock and their decision, whatever workers die (admission-lock.ts).
THEOREM AdmissionsAreSerialised == Spec => []OneAdmission
<1>1. SilentInv /\ OneAdmission /\ [Next]_vars => SilentInv' /\ OneAdmission'
  BY StepSilent, StepOneAdmission
<1>2. Init => SilentInv /\ OneAdmission
  BY InitSilent
<1> QED
  BY <1>1, <1>2, PTL DEF Spec

-----------------------------------------------------------------------------
(* Sums of ceilings.                                                       *)

\* Some runs have finitely many units.
LEMMA UnitsFinite ==
    ASSUME NEW runs \in SUBSET Run
    PROVE  IsFiniteSet(Units(runs))
<1> DEFINE own == [r \in runs |-> {r} \X (1..Ceiling[r])]
           all == {{r} \X (1..Ceiling[r]) : r \in runs}
<1>1. IsFiniteSet(runs)
  BY RunsAssumption, FS_Subset
<1>2. own \in Surjection(runs, all)
  BY DEF Surjection
<1>3. IsFiniteSet(all)
  BY <1>1, <1>2, FS_Surjection
<1>4. ASSUME NEW r \in runs PROVE IsFiniteSet({r} \X (1..Ceiling[r]))
  <2>1. Ceiling[r] \in Int /\ 1 \in Int
    BY AmountsAssumption
  <2>2. IsFiniteSet(1..Ceiling[r]) /\ IsFiniteSet({r})
    BY <2>1, FS_Interval, FS_Singleton
  <2> QED
    BY <2>2, FS_Product
<1>5. \A part \in all : IsFiniteSet(part)
  BY <1>4
<1> QED
  BY <1>3, <1>5, FS_UNION DEF Units

\* A sum of ceilings is a number, and none of no runs.
LEMMA CeilingsAreNat ==
    /\ \A runs \in SUBSET Run : Ceilings(runs) \in Nat
    /\ Ceilings({}) = 0
<1>1. ASSUME NEW runs \in SUBSET Run PROVE Ceilings(runs) \in Nat
  BY UnitsFinite, FS_CardinalityType DEF Ceilings
<1>2. Units({}) = {}
  BY DEF Units
<1> QED
  BY <1>1, <1>2, FS_EmptySet DEF Ceilings

\* More runs do not have less to spend.
LEMMA CeilingsGrow ==
    ASSUME NEW more \in SUBSET Run, NEW less \in SUBSET more
    PROVE  Ceilings(less) <= Ceilings(more)
<1>1. Units(less) \in SUBSET Units(more)
  BY DEF Units
<1> QED
  BY <1>1, UnitsFinite, FS_Subset DEF Ceilings

\* What one run adds to the sum is its ceiling.
LEMMA CeilingsAdd ==
    ASSUME NEW runs \in SUBSET Run, NEW r \in runs
    PROVE  Ceilings(runs) = Ceilings(runs \ {r}) + Ceiling[r]
<1> DEFINE own == {r} \X (1..Ceiling[r])
           others == Units(runs \ {r})
<1>1. Ceiling[r] \in Nat /\ Ceiling[r] \in Int /\ 1 \in Int /\ ~(1 > Ceiling[r])
  BY AmountsAssumption
<1>2. /\ IsFiniteSet(1..Ceiling[r]) /\ Cardinality(1..Ceiling[r]) = Ceiling[r] - 1 + 1
      /\ IsFiniteSet({r}) /\ Cardinality({r}) = 1
  BY <1>1, FS_Interval, FS_Singleton
<1>3. IsFiniteSet(own) /\ Cardinality(own) = 1 * Ceiling[r]
  BY <1>1, <1>2, FS_Product
<1>4. IsFiniteSet(others) /\ Cardinality(others) \in Nat
  BY UnitsFinite, FS_CardinalityType
<1>5. Units(runs) = others \cup own /\ others \cap own = {}
  BY DEF Units
<1>6. Ceilings(runs) = Cardinality(others \cup own) /\ Ceilings(runs \ {r}) = Cardinality(others)
  BY <1>5 DEF Ceilings
<1> HIDE DEF own, others
<1>7. Cardinality(others \cup own) = Cardinality(others) + Cardinality(own) - Cardinality(others \cap own)
  BY <1>3, <1>4, FS_Union
<1>8. Cardinality(others \cap own) = 0
  BY <1>5, FS_EmptySet
<1> QED
  BY <1>1, <1>3, <1>4, <1>6, <1>7, <1>8

-----------------------------------------------------------------------------
(* Types.                                                                  *)

Totals == seen \in [Run -> Nat] /\ recorded \in Nat /\ extras \in 0..MaxExtras

\* The runs with an open reservation are runs.
LEMMA OpenAreRuns == Open \in SUBSET Run
BY DEF Open

\* Every step keeps what was read and recorded a number.
LEMMA StepTotals == SilentInv /\ Totals /\ [Next]_vars => Totals'
<1> SUFFICES ASSUME SilentInv, Totals, [Next]_vars PROVE Totals'
  OBVIOUS
<1> USE DEF Totals, SilentInv, Amounts
<1>1. ASSUME NEW r \in Run, ReadLedger(r) PROVE Totals'
  BY <1>1 DEF ReadLedger, spending
<1>2. ASSUME NEW r \in Run, ReadReservations(r) PROVE Totals'
  <2>1. Ceilings(Open) \in Nat
    BY OpenAreRuns, CeilingsAreNat
  <2>2. /\ seen' = [seen EXCEPT ![r] = @ + Ceilings(Open)]
        /\ UNCHANGED <<recorded, extras>>
    BY <1>2 DEF ReadReservations, spending
  <2> QED
    BY <2>1, <2>2
<1>3. ASSUME NEW r \in Run, Admit(r) \/ Refuse(r) PROVE Totals'
  BY <1>3 DEF Admit, Refuse, Forget, spending
<1>4. ASSUME NEW r \in Run, Record(r) PROVE Totals'
  BY <1>4 DEF Record
<1>5. ASSUME NEW r \in Run, Crash(r) PROVE Totals'
  BY <1>5, BoundsAssumption DEF Crash, Forget
<1>6. CASE NextPeriod
  BY <1>6 DEF NextPeriod
<1>7. ASSUME UNCHANGED <<seen, recorded, extras>> PROVE Totals'
  BY <1>7
<1> QED
  BY <1>1, <1>2, <1>3, <1>4, <1>5, <1>6, <1>7
     DEF Next, Admission, Work, Lock, EndRefused, Spend, Release, AskAgain, Finish, Sweep, spending, vars

\* The initial state.
LEMMA InitTotals == Init => Totals
BY BoundsAssumption DEF Init, Totals

\* Every variable keeps its type; above all no run spends past its ceiling, and
\* what the ledger lacks of it is a part of it (TypeOK).
THEOREM TypeCorrect == Spec => []TypeOK
<1>1. SilentInv /\ Totals => TypeOK
  <2> SUFFICES ASSUME SilentInv, Totals PROVE TypeOK
    OBVIOUS
  <2>1. ASSUME NEW r \in Run PROVE spent[r] \in 0..Ceiling[r] /\ unrecorded[r] \in 0..spent[r]
    BY AmountsAssumption DEF SilentInv, Amounts
  <2> QED
    BY <2>1 DEF SilentInv, Amounts, Totals, TypeOK
<1> QED
  BY <1>1, InitSilent, InitTotals, StepSilent, StepTotals, PTL DEF Spec

-----------------------------------------------------------------------------
(* The bound on reservations.                                              *)

\* Nothing is reserved in a period that has not come.
NoneFromTomorrow == \A r \in Run : reserved[r] <= period

\* An admission about to decide read at least what is open now: only its own
\* decision could have added to it.
ReadCoversOpen == \A r \in Run : at[r] = "read" => Ceilings(Open) <= seen[r]

BoundInv ==
    SilentInv /\ Totals /\ OneAdmission /\ NoneFromTomorrow /\ ReadCoversOpen /\ ReservationsBounded

\* Fewer runs fit where more did.
LEMMA FewerFit ==
    ASSUME NEW more \in SUBSET Run, NEW less \in SUBSET more, AllButOneFit(more)
    PROVE  AllButOneFit(less)
<1> SUFFICES ASSUME less # {} PROVE \E last \in less : Ceilings(less \ {last}) < Cap
  BY DEF AllButOneFit
<1>1. PICK last \in more : Ceilings(more \ {last}) < Cap
  BY DEF AllButOneFit
<1>2. PICK out \in less : last \in less => out = last
  OBVIOUS
<1>3. /\ less \ {out} \in SUBSET (more \ {last})
      /\ more \ {last} \in SUBSET Run /\ less \ {out} \in SUBSET Run
  BY <1>2
<1>4. Ceilings(less \ {out}) <= Ceilings(more \ {last})
  BY <1>3, CeilingsGrow
<1>5. Ceilings(less \ {out}) \in Nat /\ Ceilings(more \ {last}) \in Nat /\ Cap \in Nat
  BY <1>3, CeilingsAreNat, AmountsAssumption
<1>6. Ceilings(less \ {out}) < Cap
  BY <1>1, <1>4, <1>5
<1> QED
  BY <1>6

\* One run more fits where the others are below the cap.
LEMMA OneMoreFits ==
    ASSUME NEW runs \in SUBSET Run, NEW r \in Run, Ceilings(runs) < Cap
    PROVE  AllButOneFit(runs \cup {r})
<1>1. (runs \cup {r}) \ {r} \in SUBSET runs
  OBVIOUS
<1>2. Ceilings((runs \cup {r}) \ {r}) <= Ceilings(runs)
  BY <1>1, CeilingsGrow
<1>3. Ceilings((runs \cup {r}) \ {r}) \in Nat /\ Ceilings(runs) \in Nat /\ Cap \in Nat
  BY CeilingsAreNat, AmountsAssumption
<1>4. Ceilings((runs \cup {r}) \ {r}) < Cap
  BY <1>2, <1>3
<1> QED
  BY <1>4 DEF AllButOneFit

\* A mark up to some period is not the next one.
LEMMA TomorrowIsNot ==
    ASSUME NEW mark \in Period \cup {NoPeriod}, NEW p \in Period, mark <= p
    PROVE  mark # p + 1
BY DEF Period, NoPeriod

\* Only an admission adds to what is open; a new period starts with nothing.
LEMMA OpenGrowsByAdmission ==
    ASSUME SilentInv, NoneFromTomorrow, [Next]_vars
    PROVE  /\ \A r \in Run : Admit(r) => Open' \in SUBSET (Open \cup {r})
           /\ (\A r \in Run : ~Admit(r)) => Open' \in SUBSET Open
<1> USE DEF SilentInv, Amounts, Open, Go, Live, Deciding
<1>1. ASSUME NEW r \in Run, Admit(r) PROVE Open' \in SUBSET (Open \cup {r})
  BY <1>1 DEF Admit
<1>2. ASSUME NEW r \in Run, UNCHANGED <<reserved, period>>, NEW place \in Live \cup {"over"},
             Go(r, place), at[r] # "over"
      PROVE  Open' \in SUBSET Open
  BY <1>2
<1>3. ASSUME NEW r \in Run,
             Lock(r) \/ ReadLedger(r) \/ ReadReservations(r) \/ Refuse(r) \/ EndRefused(r)
      PROVE  Open' \in SUBSET Open
  BY <1>2, <1>3 DEF Lock, ReadLedger, ReadReservations, Refuse, EndRefused
<1>4. ASSUME NEW r \in Run, Record(r) \/ AskAgain(r) \/ Finish(r) \/ Crash(r)
      PROVE  Open' \in SUBSET Open
  BY <1>2, <1>4 DEF Record, AskAgain, Finish, Crash
<1>5. ASSUME NEW r \in Run, Release(r) \/ Sweep(r) PROVE Open' \in SUBSET Open
  BY <1>5, PeriodsAreSome DEF Release, Sweep, Settled
<1>6. CASE NextPeriod
  <2>1. ASSUME NEW r \in Run PROVE reserved[r] # period + 1
    BY TomorrowIsNot DEF NoneFromTomorrow
  <2> QED
    BY <1>6, <2>1 DEF NextPeriod
<1>7. ASSUME UNCHANGED <<at, reserved, period>> PROVE Open' \in SUBSET Open
  BY <1>7
<1> QED
  BY <1>1, <1>3, <1>4, <1>5, <1>6, <1>7
     DEF Next, Admission, Work, Spend, spending, vars

\* Every step keeps the bound, and what it rests on.
LEMMA StepBound == BoundInv /\ [Next]_vars => BoundInv'
<1> SUFFICES ASSUME BoundInv, [Next]_vars PROVE BoundInv'
  OBVIOUS
<1> USE DEF BoundInv
<1>1. SilentInv' /\ Totals' /\ OneAdmission'
  BY StepSilent, StepTotals, StepOneAdmission
<1>2. NoneFromTomorrow'
  <2> USE DEF NoneFromTomorrow, SilentInv, Amounts
  <2>0. /\ NoPeriod \in Int /\ \A p \in Period : p \in Int /\ NoPeriod <= p /\ p <= p + 1
        /\ \A r \in Run : reserved[r] \in Int
    BY DEF Period, NoPeriod
  <2>1. ASSUME NEW r \in Run, Admit(r) PROVE NoneFromTomorrow'
    BY <2>0, <2>1 DEF Admit
  <2>2. ASSUME NEW r \in Run, Release(r) \/ Sweep(r) PROVE NoneFromTomorrow'
    BY <2>0, <2>2 DEF Release, Sweep
  <2>3. CASE NextPeriod
    BY <2>0, <2>3 DEF NextPeriod
  <2>4. ASSUME UNCHANGED <<reserved, period>> PROVE NoneFromTomorrow'
    BY <2>4
  <2> QED
    BY <2>1, <2>2, <2>3, <2>4
       DEF Next, Admission, Work, Lock, ReadLedger, ReadReservations, Refuse, EndRefused, Spend,
           Record, AskAgain, Finish, Crash, vars
<1>3. Open \in SUBSET Run /\ Open' \in SUBSET Run
  BY DEF Open
<1>4. Ceilings(Open) \in Nat /\ Ceilings(Open') \in Nat
  BY <1>3, CeilingsAreNat
<1>5. ASSUME NEW r \in Run, Admit(r) PROVE ReadCoversOpen' /\ ReservationsBounded'
  <2>1. at[r] = "read" /\ at' = [at EXCEPT ![r] = "working"]
    BY <1>5 DEF Admit, Go
  <2>2. \A q \in Run : at'[q] # "read"
    BY <2>1 DEF OneAdmission, Deciding, SilentInv, Amounts
  <2>3. Open' \in SUBSET (Open \cup {r})
    BY <1>5, OpenGrowsByAdmission
  <2>4. CASE r \in Exempt
    <3>1. (Open \ Exempt)' \in SUBSET (Open \ Exempt)
      BY <2>3, <2>4
    <3> QED
      BY <1>3, <2>2, <3>1, FewerFit DEF ReadCoversOpen, ReservationsBounded
  <2>5. CASE r \notin Exempt
    <3>1. seen[r] \in Nat /\ Cap \in Nat /\ seen[r] < Cap /\ Ceilings(Open) <= seen[r]
      BY <1>5, <2>1, <2>5, AmountsAssumption DEF Totals, ReadCoversOpen, Admit, OverCap
    <3>2. Ceilings(Open) < Cap
      BY <1>4, <3>1
    <3>3. AllButOneFit(Open \cup {r})
      BY <1>3, <3>2, OneMoreFits
    <3>4. (Open \ Exempt)' \in SUBSET (Open \cup {r}) /\ Open \cup {r} \in SUBSET Run
      BY <1>3, <2>3
    <3> QED
      BY <2>2, <3>3, <3>4, FewerFit DEF ReadCoversOpen, ReservationsBounded
  <2> QED
    BY <2>4, <2>5
<1>6. ASSUME \A r \in Run : ~Admit(r) PROVE ReadCoversOpen' /\ ReservationsBounded'
  <2>1. Open' \in SUBSET Open
    BY <1>6, OpenGrowsByAdmission
  <2>2. Ceilings(Open') <= Ceilings(Open)
    BY <1>3, <2>1, CeilingsGrow
  <2>3. ReservationsBounded'
    <3>1. (Open \ Exempt)' \in SUBSET (Open \ Exempt) /\ Open \ Exempt \in SUBSET Run
      BY <1>3, <2>1
    <3> QED
      BY <3>1, FewerFit DEF ReservationsBounded
  <2>4. ASSUME NEW q \in Run, at'[q] = "read" PROVE Ceilings(Open') <= seen'[q]
    <3>1. CASE at[q] = "read" /\ seen'[q] = seen[q]
      <4>1. Ceilings(Open) <= seen[q] /\ seen[q] \in Nat
        BY <3>1 DEF ReadCoversOpen, Totals
      <4> QED
        BY <1>4, <2>2, <3>1, <4>1
    <3>2. CASE ReadReservations(q)
      <4>1. seen[q] \in Nat /\ seen'[q] = seen[q] + Ceilings(Open)
        BY <3>2 DEF ReadReservations, Totals
      <4> QED
        BY <1>4, <2>2, <4>1
    <3>3. \/ at[q] = "read" /\ seen'[q] = seen[q]
          \/ ReadReservations(q)
      BY <1>6, <2>4
         DEF Next, Admission, Work, Lock, ReadLedger, ReadReservations, Refuse, EndRefused, Spend,
             Record, Release, AskAgain, Finish, Crash, Sweep, NextPeriod, vars, Go, Forget, Totals,
             SilentInv, Amounts
    <3> QED
      BY <3>1, <3>2, <3>3
  <2> QED
    BY <2>3, <2>4 DEF ReadCoversOpen
<1> QED
  BY <1>1, <1>2, <1>5, <1>6

\* The initial state.
LEMMA InitBound == Init => BoundInv
<1> SUFFICES ASSUME Init PROVE BoundInv
  OBVIOUS
<1>1. SilentInv /\ OneAdmission /\ Totals
  BY InitSilent, InitTotals
<1>2. NoneFromTomorrow /\ ReadCoversOpen
  BY DEF Init, NoneFromTomorrow, ReadCoversOpen, NoPeriod
<1>3. Open = {}
  BY DEF Init, Open, NoPeriod
<1> QED
  BY <1>1, <1>2, <1>3 DEF BoundInv, ReservationsBounded, AllButOneFit

\* The runs that had to fit all fit but for one of them, however many workers
\* admit at once and whenever they die (ReservationsBounded; budget.ts, ADMISSION
\* GUARANTEE).
THEOREM ReservationsStayBounded == Spec => []ReservationsBounded
<1>1. BoundInv => ReservationsBounded
  BY DEF BoundInv
<1> QED
  BY <1>1, InitBound, StepBound, PTL DEF Spec

\* Stated in amounts, as the comment of budget.ts has it: what the runs that had to
\* fit have reserved passes the cap by less than the ceiling of one of them.
THEOREM CapPassedByLessThanOne ==
    Spec => [](\/ Open \ Exempt = {}
               \/ \E last \in Open \ Exempt : Ceilings(Open \ Exempt) < Cap + Ceiling[last])
<1>1. ASSUME ReservationsBounded, Open \ Exempt # {}
      PROVE  \E last \in Open \ Exempt : Ceilings(Open \ Exempt) < Cap + Ceiling[last]
  <2>1. Open \ Exempt \in SUBSET Run
    BY DEF Open
  <2>2. PICK last \in Open \ Exempt : Ceilings((Open \ Exempt) \ {last}) < Cap
    BY <1>1 DEF ReservationsBounded, AllButOneFit
  <2>3. Ceilings(Open \ Exempt) = Ceilings((Open \ Exempt) \ {last}) + Ceiling[last]
    BY <2>1, CeilingsAdd
  <2>4. /\ Ceilings((Open \ Exempt) \ {last}) \in Nat /\ Cap \in Nat /\ Ceiling[last] \in Nat
    BY <2>1, CeilingsAreNat, AmountsAssumption
  <2> QED
    BY <2>2, <2>3, <2>4
<1>2. ReservationsBounded =>
        \/ Open \ Exempt = {}
        \/ \E last \in Open \ Exempt : Ceilings(Open \ Exempt) < Cap + Ceiling[last]
  BY <1>1
<1> QED
  BY <1>2, ReservationsStayBounded, PTL

\* No run that can be refused is admitted while the open reservations alone reach
\* the cap, whatever is recorded and released during its admission (budget.ts,
\* getAdmissionUsage).
THEOREM ReservedCapAdmitsNobody ==
    Spec => [][\A r \in Run \ Exempt : Admit(r) => Ceilings(Open) < Cap]_vars
<1> DEFINE Act == \A r \in Run \ Exempt : Admit(r) => Ceilings(Open) < Cap
<1>1. ASSUME BoundInv, NEW r \in Run \ Exempt, Admit(r) PROVE Ceilings(Open) < Cap
  <2>1. Ceilings(Open) <= seen[r] /\ seen[r] < Cap /\ seen[r] \in Nat
    BY <1>1, AmountsAssumption DEF BoundInv, ReadCoversOpen, Totals, Admit, OverCap
  <2>2. Ceilings(Open) \in Nat /\ Cap \in Nat
    BY OpenAreRuns, CeilingsAreNat, AmountsAssumption
  <2> QED
    BY <2>1, <2>2
<1>2. BoundInv /\ [Next]_vars => [Act]_vars
  BY <1>1
<1> QED
  BY <1>2, InitBound, StepBound, PTL DEF Spec

-----------------------------------------------------------------------------
\* An admission that comes out over the cap found spend on the ledger, or a run of
\* the period that may still spend (RefusedForLiveWork; sumOpenReservations skips
\* the reservations of ended runs).
THEOREM NoRefusalForTheEnded == Spec => RefusedForLiveWork
<1> DEFINE Act == \A r \in Run :
                     ReadReservations(r) /\ seen'[r] >= Cap =>
                         \/ seen[r] >= Cap
                         \/ \E q \in Run : at[q] # "over" /\ reserved[q] = period
<1>1. ASSUME Totals, NEW r \in Run, ReadReservations(r), seen'[r] >= Cap,
             ~ \E q \in Run : at[q] # "over" /\ reserved[q] = period
      PROVE  seen[r] >= Cap
  <2>1. Open = {}
    BY <1>1 DEF Open
  <2>2. seen'[r] = seen[r] + 0 /\ seen[r] \in Nat
    BY <1>1, <2>1, CeilingsAreNat DEF ReadReservations, Totals
  <2> QED
    BY <1>1, <2>2
<1>2. Totals /\ [Next]_vars => [Act]_vars
  BY <1>1
<1>3. SilentInv /\ Totals /\ [Next]_vars => SilentInv' /\ Totals'
  BY StepSilent, StepTotals
<1>4. Init => SilentInv /\ Totals
  BY InitSilent, InitTotals
<1> QED
  BY <1>2, <1>3, <1>4, PTL DEF Spec, RefusedForLiveWork

=============================================================================
