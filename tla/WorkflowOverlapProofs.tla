------------------------ MODULE WorkflowOverlapProofs ------------------------
(***************************************************************************)
(* Proofs about WorkflowOverlap, for any number of fires, any policy and   *)
(* whatever ends runs or loses releases.                                   *)
(***************************************************************************)
EXTENDS WorkflowOverlap, FiniteSetTheorems, TLAPS

\* A fire that made no run has no job.
JobsAreOfRuns == \A r \in Run : status[r] \in {"none", "skipped"} => job[r] = "none"

\* Runs are withheld under one policy only.
OnlyQueued == withheld # {} => OnOverlap = "queue"

WaitInv == TypeOK /\ WithheldWaits /\ JobsAreOfRuns /\ OnlyQueued

-----------------------------------------------------------------------------
(* Counting.                                                               *)

\* Finitely many runs are withheld or active.
LEMMA RunsAreFinite ==
    ASSUME NEW S \in SUBSET Run PROVE IsFiniteSet(S) /\ Cardinality(S) \in Nat
<1>1. IsFiniteSet(Run)
  BY FS_Interval, CountsAssumption DEF Run
<1> QED
  BY <1>1, FS_Subset, FS_CardinalityType

\* At the limit some run is running.
LEMMA FullHasARunner ==
    ASSUME NEW st, Active(st) >= Limit PROVE \E r \in Run : st[r] = "running"
<1> SUFFICES ASSUME \A r \in Run : st[r] # "running" PROVE FALSE
  OBVIOUS
<1>1. {r \in Run : st[r] = "running"} = {}
  OBVIOUS
<1>2. Cardinality({}) = 0
  BY FS_EmptySet
<1>3. Active(st) = 0
  BY <1>1, <1>2 DEF Active
<1> QED
  BY <1>3, CountsAssumption

\* A release takes runs that wait, and gives one at most a job.
LEMMA ReleaseTakes ==
    ASSUME NEW st, NEW waiting \in SUBSET Run, Release(st, waiting)
    PROVE  \/ \E r \in Oldest(waiting) :
                withheld' = waiting \ {r} /\ job' = [job EXCEPT ![r] = "nobody's"]
           \/ withheld' = waiting /\ job' = job
BY DEF Release

-----------------------------------------------------------------------------
(* The states.                                                             *)

LEMMA InitWait == Init => WaitInv
BY DEF Init, WaitInv, TypeOK, WithheldWaits, JobsAreOfRuns, OnlyQueued

\* Every step keeps types, waiting runs without a job, and jobs of runs alone.
LEMMA StepWait == WaitInv /\ [Next]_vars => WaitInv'
<1> SUFFICES ASSUME WaitInv, [Next]_vars PROVE WaitInv'
  OBVIOUS
<1> USE DEF WaitInv, TypeOK, WithheldWaits, JobsAreOfRuns, OnlyQueued
<1>1. ASSUME NEW r \in Run, Admit(r) \/ AdmitUnasked(r) PROVE WaitInv'
  BY <1>1 DEF Admit, AdmitUnasked, Started, NextFire
<1>2. ASSUME NEW r \in Run, Withhold(r) PROVE WaitInv'
  BY <1>2 DEF Withhold, NextFire, MayWait
<1>3. ASSUME NEW r \in Run, Skip(r) PROVE WaitInv'
  BY <1>3 DEF Skip, NextFire
<1>4. ASSUME NEW r \in Run, Start(r) PROVE WaitInv'
  BY <1>4 DEF Start
<1>5. ASSUME NEW r \in Run, DeadLetter(r) PROVE WaitInv'
  BY <1>5 DEF DeadLetter
<1>6. ASSUME NEW r \in Run, End(r) PROVE WaitInv'
  BY <1>6 DEF End
<1>7. ASSUME NEW r \in Run, Free(r) PROVE WaitInv'
  <2>1. Release(status, withheld) /\ withheld \in SUBSET Run
    BY <1>7 DEF Free
  <2>2. CASE \E q \in Oldest(withheld) :
               withheld' = withheld \ {q} /\ job' = [job EXCEPT ![q] = "nobody's"]
    BY <1>7, <2>2 DEF Free, Oldest
  <2>3. CASE withheld' = withheld /\ job' = job
    BY <1>7, <2>3 DEF Free
  <2> QED
    BY <2>1, <2>2, <2>3, ReleaseTakes
<1>8. ASSUME NEW r \in Run, LoseRelease(r) PROVE WaitInv'
  BY <1>8 DEF LoseRelease
<1>9. ASSUME NEW r \in Run, EndElsewhere(r) PROVE WaitInv'
  BY <1>9 DEF EndElsewhere
<1>10. ASSUME NEW r \in Run, Cancel(r) PROVE WaitInv'
  <2>1. Release(status', withheld \ {r}) /\ withheld \ {r} \in SUBSET Run
    BY <1>10 DEF Cancel
  <2>2. CASE \E q \in Oldest(withheld \ {r}) :
               withheld' = (withheld \ {r}) \ {q} /\ job' = [job EXCEPT ![q] = "nobody's"]
    BY <1>10, <2>2 DEF Cancel, Oldest
  <2>3. CASE withheld' = withheld \ {r} /\ job' = job
    BY <1>10, <2>3 DEF Cancel
  <2> QED
    BY <2>1, <2>2, <2>3, ReleaseTakes
<1>11. CASE UNCHANGED vars
  BY <1>11 DEF vars
<1> QED
  BY <1>1, <1>2, <1>3, <1>4, <1>5, <1>6, <1>7, <1>8, <1>9, <1>10, <1>11
     DEF Next, Fire, Execute

LEMMA WaitHolds == Spec => []WaitInv
<1> QED
  BY InitWait, StepWait, PTL DEF Spec

\* Runs of an installation, their jobs and their releases are well typed, for
\* any number of fires and any policy (workflow-concurrency.ts).
THEOREM TypeCorrect == Spec => []TypeOK
<1>1. WaitInv => TypeOK
  BY DEF WaitInv
<1> QED
  BY <1>1, WaitHolds, PTL

\* A withheld run does not execute before it is released: it is pending and no
\* job starts it (queueWorkflowTriggerRun).
THEOREM WithheldRunsWait == Spec => []WithheldWaits
<1>1. WaitInv => WithheldWaits
  BY DEF WaitInv
<1> QED
  BY <1>1, WaitHolds, PTL

-----------------------------------------------------------------------------
(* The depth.                                                              *)

\* A step withholds no run, or one for which there is room.
LEMMA StepWithholds ==
    ASSUME WaitInv, [Next]_vars
    PROVE  \/ withheld' \subseteq withheld
           \/ MayWait /\ \E r \in Run \ withheld : withheld' = withheld \cup {r}
<1> USE DEF WaitInv, TypeOK, WithheldWaits
<1>1. ASSUME NEW r \in Run, Withhold(r)
      PROVE  MayWait /\ r \notin withheld /\ withheld' = withheld \cup {r}
  BY <1>1 DEF Withhold, NextFire
<1>2. ASSUME NEW r \in Run, Free(r) PROVE withheld' \subseteq withheld
  BY <1>2, ReleaseTakes DEF Free
<1>3. ASSUME NEW r \in Run, Cancel(r) PROVE withheld' \subseteq withheld
  <2>1. Release(status', withheld \ {r}) /\ withheld \ {r} \in SUBSET Run
    BY <1>3 DEF Cancel
  <2> QED
    BY <2>1, ReleaseTakes
<1>4. CASE UNCHANGED withheld
  BY <1>4
<1>5. ASSUME NEW r \in Run,
             \/ Admit(r) \/ AdmitUnasked(r) \/ Skip(r) \/ Start(r) \/ DeadLetter(r) \/ End(r)
             \/ LoseRelease(r) \/ EndElsewhere(r)
      PROVE  UNCHANGED withheld
  BY <1>5 DEF Admit, AdmitUnasked, Started, Skip, Start, DeadLetter, End, LoseRelease,
     EndElsewhere
<1>6. CASE UNCHANGED vars
  BY <1>6 DEF vars
<1> QED
  BY <1>1, <1>2, <1>3, <1>4, <1>5, <1>6 DEF Next, Fire, Execute

LEMMA StepDepth == WaitInv /\ DepthKept /\ [Next]_vars => DepthKept'
<1> SUFFICES ASSUME WaitInv, DepthKept, [Next]_vars PROVE DepthKept'
  OBVIOUS
<1>1. withheld \in SUBSET Run /\ IsFiniteSet(withheld) /\ Cardinality(withheld) \in Nat
  BY RunsAreFinite DEF WaitInv, TypeOK
<1>2. CASE withheld' \subseteq withheld
  <2>1. Cardinality(withheld') <= Cardinality(withheld) /\ Cardinality(withheld') \in Nat
    BY <1>1, <1>2, FS_Subset, RunsAreFinite
  <2> QED
    BY <1>1, <2>1, CountsAssumption DEF DepthKept
<1>3. CASE MayWait /\ \E r \in Run \ withheld : withheld' = withheld \cup {r}
  <2>1. Cardinality(withheld') = Cardinality(withheld) + 1
    BY <1>1, <1>3, FS_AddElement
  <2>2. Cardinality(withheld) < Depth
    BY <1>3 DEF MayWait
  <2> QED
    BY <1>1, <2>1, <2>2, CountsAssumption DEF DepthKept
<1> QED
  BY <1>2, <1>3, StepWithholds

\* No more runs wait than the depth allows, whatever cancels, releases and fires
\* come in between (admitWorkflowRunUnderOverlap).
THEOREM DepthIsKept == Spec => []DepthKept
<1>1. Init => DepthKept
  BY FS_EmptySet, CountsAssumption DEF Init, DepthKept
<1> QED
  BY <1>1, StepDepth, WaitHolds, PTL DEF Spec

-----------------------------------------------------------------------------
(* The order of releases.                                                  *)

LEMMA StepReleases ==
    ASSUME WaitInv, [Next]_vars
    PROVE  \A r \in withheld \ withheld' :
             status'[r] = "pending" => \A q \in withheld' : r < q
<1> USE DEF WaitInv, TypeOK
<1>1. ASSUME NEW waiting \in SUBSET Run, NEW st, Release(st, waiting)
      PROVE  \A r \in waiting \ withheld' : \A q \in withheld' : r < q
  <2>1. CASE withheld' = waiting
    BY <2>1
  <2>2. ASSUME NEW r \in Oldest(waiting), withheld' = waiting \ {r}
        PROVE  \A q \in withheld' : r < q
    <3>1. \A q \in waiting : r <= q /\ q \in Nat
      BY <2>2, CountsAssumption DEF Oldest, Run
    <3>2. r \in Nat
      BY <3>1 DEF Oldest
    <3> QED
      BY <2>2, <3>1, <3>2
  <2> QED
    BY <1>1, <2>1, <2>2, ReleaseTakes
<1>2. ASSUME NEW c \in Run, Free(c)
      PROVE  \A r \in withheld \ withheld' : \A q \in withheld' : r < q
  BY <1>1, <1>2 DEF Free
<1>3. ASSUME NEW c \in Run, Cancel(c)
      PROVE  \A r \in withheld \ withheld' :
               status'[r] = "pending" => \A q \in withheld' : r < q
  <2>1. status'[c] = "ended"
    BY <1>3 DEF Cancel
  <2>2. \A r \in (withheld \ {c}) \ withheld' : \A q \in withheld' : r < q
    BY <1>1, <1>3 DEF Cancel
  <2> QED
    BY <2>1, <2>2
<1>4. CASE withheld \subseteq withheld'
  BY <1>4
<1>5. ASSUME NEW r \in Run,
             \/ Admit(r) \/ AdmitUnasked(r) \/ Withhold(r) \/ Skip(r) \/ Start(r) \/ DeadLetter(r)
             \/ End(r) \/ LoseRelease(r) \/ EndElsewhere(r)
      PROVE  withheld \subseteq withheld'
  BY <1>5 DEF Admit, AdmitUnasked, Started, Withhold, Skip, Start, DeadLetter, End,
     LoseRelease, EndElsewhere
<1>6. CASE UNCHANGED vars
  BY <1>6 DEF vars
<1> QED
  BY <1>2, <1>3, <1>4, <1>5, <1>6 DEF Next, Fire, Execute

\* Runs are released in the order of their fires, also by cancellations of runs
\* that wait themselves (releaseNextQueuedWorkflowRun).
THEOREM ReleasesAreInOrder == Spec => FirstInFirstReleased
<1>1. WaitInv /\ [Next]_vars =>
        [\A r \in withheld \ withheld' :
           status'[r] = "pending" => \A q \in withheld' : r < q]_vars
  BY StepReleases
<1> QED
  BY <1>1, WaitHolds, PTL DEF Spec, FirstInFirstReleased

-----------------------------------------------------------------------------
(* Somebody releases.                                                      *)

LEMMA StepSomebody == WaitInv /\ SomebodyReleases /\ [Next]_vars => SomebodyReleases'
<1> SUFFICES ASSUME WaitInv, SomebodyReleases, [Next]_vars PROVE SomebodyReleases'
  OBVIOUS
<1> USE DEF WaitInv, TypeOK, WithheldWaits, SomebodyReleases
<1>1. ASSUME NEW r \in Run, Admit(r) \/ AdmitUnasked(r) PROVE SomebodyReleases'
  BY <1>1 DEF Admit, AdmitUnasked, Started, NextFire
<1>2. ASSUME NEW r \in Run, Withhold(r) PROVE SomebodyReleases'
  <2>1. Active(status) \in Nat /\ Limit \in Nat
    BY RunsAreFinite, CountsAssumption DEF Active
  <2>2. PICK q \in Run : status[q] = "running"
    BY <1>2, <2>1, FullHasARunner DEF Withhold, Room
  <2>3. q \in Run \ withheld' /\ status'[q] = "running"
    BY <1>2, <2>2 DEF Withhold, NextFire
  <2> QED
    BY <2>3
<1>3. ASSUME NEW r \in Run, Skip(r) PROVE SomebodyReleases'
  BY <1>3 DEF Skip, NextFire
<1>4. ASSUME NEW r \in Run, Start(r) PROVE SomebodyReleases'
  BY <1>4 DEF Start
<1>5. ASSUME NEW r \in Run, DeadLetter(r) PROVE SomebodyReleases'
  BY <1>5 DEF DeadLetter
<1>6. ASSUME NEW r \in Run, End(r) PROVE SomebodyReleases'
  BY <1>6 DEF End
<1>7. ASSUME NEW r \in Run, NEW st, NEW waiting \in SUBSET withheld,
             Release(st, waiting), st = status', missed' = missed,
             \A q \in waiting : st[q] = "pending"
      PROVE  SomebodyReleases'
  <2>1. ASSUME NEW q \in Oldest(waiting), withheld' = waiting \ {q} PROVE SomebodyReleases'
    BY <1>7, <2>1 DEF Oldest
  <2>2. CASE waiting = {} /\ withheld' = waiting
    BY <2>2
  <2>3. CASE Active(st) >= Limit /\ withheld' = waiting
    BY <1>7, <2>3, FullHasARunner
  <2>4. CASE OnOverlap # "queue" /\ withheld' = waiting
    BY <2>4 DEF OnlyQueued
  <2> QED
    BY <1>7, <2>1, <2>2, <2>3, <2>4 DEF Release
<1>8. ASSUME NEW r \in Run, Free(r) PROVE SomebodyReleases'
  BY <1>7, <1>8 DEF Free
<1>9. ASSUME NEW r \in Run, Cancel(r) PROVE SomebodyReleases'
  <2> DEFINE waiting == withheld \ {r}
  <2>1. waiting \in SUBSET withheld /\ missed' = missed
    BY <1>9 DEF Cancel
  <2>2. \A q \in waiting : status'[q] = "pending"
    BY <1>9 DEF Cancel
  <2>3. Release(status', waiting)
    BY <1>9 DEF Cancel
  <2> HIDE DEF waiting
  <2> QED
    BY <1>7, <2>1, <2>2, <2>3
<1>10. ASSUME NEW r \in Run, LoseRelease(r) \/ EndElsewhere(r) PROVE SomebodyReleases'
  BY <1>10 DEF LoseRelease, EndElsewhere
<1>11. CASE UNCHANGED vars
  BY <1>11 DEF vars
<1> QED
  BY <1>1, <1>2, <1>3, <1>4, <1>5, <1>6, <1>8, <1>9, <1>10, <1>11 DEF Next, Fire, Execute

\* As long as every end was followed by a release, a withheld run has somebody
\* to wait for (workflow-concurrency.ts:15-17).
THEOREM WithheldRunsHaveSomebody == Spec => []SomebodyReleases
<1>1. Init => SomebodyReleases
  BY DEF Init, SomebodyReleases
<1> QED
  BY <1>1, StepSomebody, WaitHolds, PTL DEF Spec
=============================================================================
