-------------------------- MODULE WorkflowRunProofs --------------------------
(***************************************************************************)
(* Proofs about WorkflowRun, for any chain of steps and any number of      *)
(* jobs, deaths and interventions, unless a theorem names what it assumes. *)
(***************************************************************************)
EXTENDS WorkflowRun, TLAPS

OneWorker == \A v, w \in Worker : v = w

\* The executions of a run follow each other, nobody intervenes but to cancel,
\* every job is the run's own, no posted mail names a step, and a guard is not
\* asked again behind a mail.
Plain ==
    /\ OneWorker /\ Happens \subseteq {"crash", "cancel"} /\ Foreign = {} /\ Posted = {}
    /\ \A s \in Guarded : Sync(s)

RowsExist == \A s \in Step : step[s] # "none"
NoRows == \A s \in Step : step[s] = "none"
Settled == \A s \in Step : step[s] \notin Open

-----------------------------------------------------------------------------
(* What every instance keeps.                                              *)

\* A job in work is worked by one execution, and the rows are created together,
\* before anything is done by them.
JobsFit == \A w \in Worker : at[w] # "idle" =>
    job[on[w]] = "taken" /\ \A v \in Worker : at[v] # "idle" /\ on[v] = on[w] => v = w
RowsFit ==
    /\ RowsExist \/ NoRows
    /\ \A w \in Worker : at[w] \notin {"idle", "loaded"} => RowsExist
    /\ \A c \in Letter : child[c] # "none" => RowsExist
    /\ reaping # {} => RowsExist
KindsFit ==
    /\ \A s \in Step : child[s] # "none" => ~Sync(s)
    /\ \A w \in Worker : at[w] \in {"working", "worked"} => Sync(pick[w])

BaseInv == TypeOK /\ JobsFit /\ RowsFit /\ KindsFit

\* A run that has no rows yet does not fail by its own steps.
FailedHasRows ==
    run = "failed" /\ (\A k \in Foreign : job[k] # "done") => RowsExist

FailInv == BaseInv /\ FailedRunHasNothingToCome /\ FailedHasRows

-----------------------------------------------------------------------------
(* Types, and what every instance keeps.                                   *)

\* The transition of a finished step keeps the types of the rows.
LEMMA FinishType ==
    ASSUME TypeOK, NEW s \in Step, NEW ok \in BOOLEAN, FinishStep(s, ok)
    PROVE  /\ run' \in Active \cup Ended
           /\ step' \in [Step -> {"none"} \cup Open \cup Over]
           /\ lease' \in [Step -> {"none", "held", "lapsed"}]
           /\ deadline' \in [Step -> {"none", "set", "passed"}]
<1>0. /\ run \in Active \cup Ended
      /\ step \in [Step -> {"none"} \cup Open \cup Over]
      /\ lease \in [Step -> {"none", "held", "lapsed"}]
      /\ deadline \in [Step -> {"none", "set", "passed"}]
  BY DEF TypeOK
<1> USE <1>0 DEF Active, Ended, Open, Over
<1>1. CASE ~Applies /\ UNCHANGED rowVars
  BY <1>1 DEF rowVars
<1>2. CASE Applies /\ step' = StepsAfter(s, ok)
  <2>1. step' \in [Step -> {"none"} \cup Open \cup Over]
    BY <1>2 DEF StepsAfter
  <2> QED
    BY <1>2, <2>1 DEF FinishStep
<1> QED
  BY <1>1, <1>2 DEF FinishStep

\* ... and makes no rows and takes none away.
LEMMA FinishRows ==
    ASSUME TypeOK, NEW s \in Step, NEW ok \in BOOLEAN, FinishStep(s, ok), RowsExist
    PROVE  RowsExist'
BY DEF FinishStep, StepsAfter, RowsExist, TypeOK, rowVars

\* There is a step, and a worker's job is a job.
LEMMA StepType == 1 \in Step /\ 0 \in Key /\ Step \subseteq Key
BY NAssumption, BoundsAssumption DEF Step, Key

\* Every child is for a step, and the engine's own is its step's.
LEMMA LetterType ==
    Step \subseteq Letter /\ \A c \in Letter : Of(c) \in Step /\ (c \in Step => Of(c) = c)
BY NAssumption, PostedAssumption DEF Letter, Of, Step

\* Where nobody posts mail, the children are the engine's.
LEMMA PlainLetter == Plain => Letter = Step /\ \A s \in Step : Of(s) = s
BY DEF Plain, Letter, Of

LEMMA PlainTell ==
    ASSUME Plain, NEW s \in Step, Tell(s), child[s] = "good"
    PROVE  /\ FinishStep(s, TRUE)
           /\ child' = [child EXCEPT ![s] = IF Continues(s, TRUE) THEN "owing" ELSE "told"]
<1>1. Of(s) = s
  BY PlainLetter
<1>2. (child[s] = "good") = TRUE
  OBVIOUS
<1> QED
  BY <1>1, <1>2 DEF Tell

LEMMA InitBase == Init => BaseInv
<1> SUFFICES ASSUME Init PROVE BaseInv
  OBVIOUS
<1>1. TypeOK
  BY StepType, BoundsAssumption DEF Init, TypeOK, Active, Ended, Open, Over
<1> QED
  BY <1>1, LetterType DEF Init, BaseInv, JobsFit, RowsFit, KindsFit, RowsExist, NoRows

\* Extras stay within their bound.
LEMMA ExtraType ==
    ASSUME TypeOK, NEW what, Extra(what) PROVE extras' \in 0..MaxExtras
BY BoundsAssumption DEF Extra, TypeOK

\* Every step keeps the types.
LEMMA StepTypes == TypeOK /\ [Next]_vars => TypeOK'
<1> SUFFICES ASSUME TypeOK, [Next]_vars PROVE TypeOK'
  OBVIOUS
<1> USE StepType, LetterType DEF TypeOK
<1>1. ASSUME NEW w \in Worker, NEW k \in Key, Take(w, k) PROVE TypeOK'
  <2>1. CASE run \in Ended
    BY <1>1, <2>1 DEF Take, execVars, rowVars, othersVars
  <2>2. CASE run \notin Ended
    <3>1. new' \in [Worker -> BOOLEAN]
      BY <1>1, <2>2, Zenon DEF Take
    <3>2. /\ job' = [job EXCEPT ![k] = "taken"] /\ UNCHANGED pick
          /\ at' = [at EXCEPT ![w] = "loaded"] /\ on' = [on EXCEPT ![w] = k]
          /\ UNCHANGED <<rowVars, child, othersVars, effects>>
      BY <1>1, <2>2 DEF Take
    <3> QED
      BY <3>1, <3>2 DEF rowVars, othersVars
  <2> QED
    BY <2>1, <2>2
<1>2. ASSUME NEW w \in Worker, Mismatch(w) PROVE TypeOK'
  BY <1>2 DEF Mismatch, EndJob, othersVars, Active, Ended
<1>3. ASSUME NEW w \in Worker, Prepare(w) PROVE TypeOK'
  BY <1>3 DEF Prepare, GoTo, othersVars, Open
<1>4. ASSUME NEW w \in Worker, StartRun(w) PROVE TypeOK'
  BY <1>4 DEF StartRun, GoTo, othersVars, Active
<1>5. ASSUME NEW w \in Worker, Look(w) PROVE TypeOK'
  BY <1>5 DEF Look, EndJob, GoTo, rowVars, othersVars
<1>6. ASSUME NEW w \in Worker, Close(w) PROVE TypeOK'
  BY <1>6 DEF Close, EndJob, othersVars, Ended
<1>7. ASSUME NEW w \in Worker, SkipGuarded(w) PROVE TypeOK'
  BY <1>7 DEF SkipGuarded, GoTo, othersVars, Over
<1>8. ASSUME NEW w \in Worker, Reject(w) PROVE TypeOK'
  BY <1>8, FinishType DEF Reject, EndJob, othersVars
<1>9. ASSUME NEW w \in Worker, Begin(w) PROVE TypeOK'
  BY <1>9 DEF Begin, GoTo, othersVars, Open
<1>10. ASSUME NEW w \in Worker, Work(w) PROVE TypeOK'
  BY <1>10 DEF Work, GoTo, rowVars, othersVars
<1>11. ASSUME NEW w \in Worker, NEW ok \in BOOLEAN, End(w, ok) PROVE TypeOK'
  BY <1>11, FinishType DEF End, EndJob, GoTo, othersVars
<1>12. ASSUME NEW w \in Worker, Mail(w) PROVE TypeOK'
  <2>1. CASE child[pick[w]] = "none"
    BY <1>12, <2>1 DEF Mail, GoTo, rowVars, othersVars
  <2>2. CASE FinishStep(pick[w], FALSE) /\ EndJob(w) /\ UNCHANGED child
    BY <1>12, <2>2, FinishType DEF Mail, EndJob, othersVars
  <2> QED
    BY <1>12, <2>1, <2>2 DEF Mail
<1>13. ASSUME NEW w \in Worker, Queue(w) PROVE TypeOK'
  BY <1>13 DEF Queue, Suspend, EndJob, othersVars, Active, Open
<1>14. ASSUME NEW w \in Worker, Launch(w) PROVE TypeOK'
  <2>1. CASE child[pick[w]] = "none"
    BY <1>14, <2>1 DEF Launch, Suspend, EndJob, Active, Open
  <2>2. CASE child[pick[w]] # "none"
    BY <1>14, <2>2 DEF Launch, GiveUp, rowVars
  <2> QED
    BY <2>1, <2>2
<1>15. ASSUME NEW w \in Worker, Crash(w) PROVE TypeOK'
  BY <1>15, ExtraType DEF Crash, GiveUp, rowVars
<1>16. ASSUME NEW c \in Letter, Deliver(c) PROVE TypeOK'
  BY <1>16 DEF Deliver, elseVars, execVars, rowVars, Active, Open
<1>17. ASSUME NEW c \in Letter, ChildEnds(c) PROVE TypeOK'
  BY <1>17 DEF ChildEnds, elseVars, execVars, rowVars
<1>18. ASSUME NEW c \in Letter, Tell(c) PROVE TypeOK'
  BY <1>18, FinishType DEF Tell, elseVars, execVars
<1>19. ASSUME NEW c \in Letter, Continue(c) PROVE TypeOK'
  BY <1>19 DEF Continue, Enqueued, elseVars, execVars, rowVars
<1>20. ASSUME NEW c \in Letter, TellingDies(c) PROVE TypeOK'
  BY <1>20, ExtraType DEF TellingDies, elseVars, execVars, rowVars
<1>21. ASSUME NEW s \in Step, Terminate(s) PROVE TypeOK'
  BY <1>21, ExtraType DEF Terminate, execVars, rowVars
<1>22. ASSUME NEW s \in Step, Lapse(s) PROVE TypeOK'
  BY <1>22 DEF Lapse, actorVars, execVars, othersVars
<1>23. ASSUME NEW s \in Step, PassDeadline(s) PROVE TypeOK'
  BY <1>23 DEF PassDeadline, actorVars, execVars, othersVars
<1>24. ASSUME NEW s \in Step, SelectStuck(s) PROVE TypeOK'
  BY <1>24 DEF SelectStuck, actorVars, execVars, rowVars
<1>25. ASSUME NEW s \in Step, Reap(s) PROVE TypeOK'
  BY <1>25, FinishType DEF Reap, actorVars, execVars
<1>26. ASSUME NEW s \in Step, NEW what \in {"skip", "block", "unblock"}, Intend(what, s)
      PROVE  TypeOK'
  BY <1>26, ExtraType DEF Intend, actorVars, execVars, rowVars
<1>27. ASSUME NEW s \in Step, NEW what \in {"skip", "block", "unblock"}, Intervene(what, s)
      PROVE  TypeOK'
  <2>1. step' \in [Step -> {"none"} \cup Open \cup Over]
    <3>1. ASSUME NEW from, NEW to \in Open \cup Over, Changed(s, from, to)
          PROVE  step' \in [Step -> {"none"} \cup Open \cup Over]
      BY <3>1 DEF Changed
    <3>2. \/ Changed(s, {"pending", "blocked"}, "skipped") \/ Changed(s, {"pending"}, "blocked")
          \/ Changed(s, {"blocked"}, "pending")
      BY <1>27 DEF Intervene
    <3>3. {"skipped", "blocked", "pending"} \subseteq Open \cup Over
      BY DEF Open, Over
    <3> QED
      BY <3>1, <3>2, <3>3
  <2>2. job' \in [Key -> {"none", "queued", "taken", "done", "dead"}]
    <3>1. job' = job \/ \E k \in OpKey : job' = Enqueued(k)
      BY <1>27 DEF Intervene
    <3> QED
      BY <3>1 DEF Enqueued
  <2>3. intent' = intent \ {<<what, s>>}
        /\ UNCHANGED <<run, lease, deadline, child, tries, execVars, effects, reaping, stopping, extras>>
    BY <1>27 DEF Intervene
  <2> QED
    BY <2>1, <2>2, <2>3 DEF execVars
<1>28. CASE Cancel
  BY <1>28, ExtraType DEF Cancel, Cancelled, actorVars, execVars, Ended, Over
<1>30. ASSUME NEW c \in Letter, Post(c) PROVE TypeOK'
  BY <1>30, ExtraType DEF Post, elseVars, execVars, rowVars
<1>29. CASE UNCHANGED vars
  BY <1>29 DEF vars, rowVars, execVars
<1> QED
  BY <1>1, <1>2, <1>3, <1>4, <1>5, <1>6, <1>7, <1>8, <1>9, <1>10, <1>11,
     <1>12, <1>13, <1>14, <1>15, <1>16, <1>17, <1>18, <1>19, <1>20, <1>21, <1>22,
     <1>23, <1>24, <1>25, <1>26, <1>27, <1>28, <1>29, <1>30
     DEF Next, Execution, Child, Time, Reaper, People

\* Jobs, rows and children fit whatever step is taken.
LEMMA StepBase == BaseInv /\ [Next]_vars => BaseInv'
<1> SUFFICES ASSUME BaseInv, [Next]_vars PROVE JobsFit' /\ RowsFit' /\ KindsFit'
  BY StepTypes DEF BaseInv
<1> USE StepType, LetterType DEF BaseInv, TypeOK, JobsFit, RowsFit, KindsFit, RowsExist, NoRows
<1>1. ASSUME NEW w \in Worker, NEW k \in Key, Take(w, k)
      PROVE  JobsFit' /\ RowsFit' /\ KindsFit'
  BY <1>1 DEF Take, execVars, rowVars, othersVars
<1>2. ASSUME NEW w \in Worker, Mismatch(w)
      PROVE  JobsFit' /\ RowsFit' /\ KindsFit'
  BY <1>2 DEF Mismatch, EndJob, othersVars
<1>3. ASSUME NEW w \in Worker, Prepare(w)
      PROVE  JobsFit' /\ RowsFit' /\ KindsFit'
  BY <1>3 DEF Prepare, GoTo, othersVars
<1>4. ASSUME NEW w \in Worker, StartRun(w)
      PROVE  JobsFit' /\ RowsFit' /\ KindsFit'
  BY <1>4 DEF StartRun, GoTo, othersVars
<1>5. ASSUME NEW w \in Worker, Look(w)
      PROVE  JobsFit' /\ RowsFit' /\ KindsFit'
  BY <1>5 DEF Look, Chosen, EndJob, GoTo, rowVars, othersVars
<1>6. ASSUME NEW w \in Worker, Close(w)
      PROVE  JobsFit' /\ RowsFit' /\ KindsFit'
  BY <1>6 DEF Close, EndJob, othersVars
<1>7. ASSUME NEW w \in Worker, SkipGuarded(w)
      PROVE  JobsFit' /\ RowsFit' /\ KindsFit'
  BY <1>7 DEF SkipGuarded, GoTo, othersVars
<1>8. ASSUME NEW w \in Worker, Reject(w)
      PROVE  JobsFit' /\ RowsFit' /\ KindsFit'
  <2>1. RowsExist'
    <3>1. pick[w] \in Step /\ FinishStep(pick[w], FALSE) /\ RowsExist
      BY <1>8 DEF Reject
    <3> HIDE DEF RowsExist
    <3> QED
      BY <3>1, FinishRows
  <2> QED
    BY <1>8, <2>1 DEF Reject, EndJob, othersVars
<1>9. ASSUME NEW w \in Worker, Begin(w)
      PROVE  JobsFit' /\ RowsFit' /\ KindsFit'
  BY <1>9 DEF Begin, GoTo, othersVars
<1>10. ASSUME NEW w \in Worker, Work(w)
      PROVE  JobsFit' /\ RowsFit' /\ KindsFit'
  BY <1>10 DEF Work, GoTo, rowVars, othersVars
<1>11. ASSUME NEW w \in Worker, NEW ok \in BOOLEAN, End(w, ok)
      PROVE  JobsFit' /\ RowsFit' /\ KindsFit'
  BY <1>11, FinishRows DEF End, EndJob, GoTo, othersVars
<1>12. ASSUME NEW w \in Worker, Mail(w)
      PROVE  JobsFit' /\ RowsFit' /\ KindsFit'
  <2>1. CASE child[pick[w]] = "none" /\ GoTo(w, "mailed") /\ UNCHANGED <<rowVars, job>>
    BY <1>12, <2>1 DEF Mail, GoTo, rowVars, othersVars, Sync
  <2>2. CASE FinishStep(pick[w], FALSE) /\ EndJob(w) /\ UNCHANGED child
    <3>1. pick[w] \in Step /\ RowsExist
      BY <1>12 DEF Mail
    <3>2. RowsExist'
      BY <2>2, <3>1, FinishRows
    <3> QED
      BY <1>12, <2>2, <3>2 DEF Mail, EndJob, othersVars
  <2> QED
    BY <1>12, <2>1, <2>2 DEF Mail
<1>13. ASSUME NEW w \in Worker, Queue(w)
      PROVE  JobsFit' /\ RowsFit' /\ KindsFit'
  BY <1>13 DEF Queue, Suspend, EndJob, othersVars
<1>14. ASSUME NEW w \in Worker, Launch(w)
      PROVE  JobsFit' /\ RowsFit' /\ KindsFit'
  BY <1>14 DEF Launch, GiveUp, Suspend, EndJob, rowVars, othersVars, Sync
<1>15. ASSUME NEW w \in Worker, Crash(w)
      PROVE  JobsFit' /\ RowsFit' /\ KindsFit'
  BY <1>15 DEF Crash, GiveUp, rowVars
<1>16. ASSUME NEW c \in Letter, Deliver(c)
      PROVE  JobsFit' /\ RowsFit' /\ KindsFit'
  BY <1>16 DEF Deliver, elseVars, execVars, rowVars
<1>17. ASSUME NEW c \in Letter, ChildEnds(c)
      PROVE  JobsFit' /\ RowsFit' /\ KindsFit'
  BY <1>17 DEF ChildEnds, elseVars, execVars, rowVars
<1>18. ASSUME NEW c \in Letter, Tell(c)
      PROVE  JobsFit' /\ RowsFit' /\ KindsFit'
  BY <1>18, FinishRows DEF Tell, elseVars, execVars
<1>19. ASSUME NEW c \in Letter, Continue(c)
      PROVE  JobsFit' /\ RowsFit' /\ KindsFit'
  BY <1>19 DEF Continue, Enqueued, elseVars, execVars, rowVars
<1>20. ASSUME NEW c \in Letter, TellingDies(c)
      PROVE  JobsFit' /\ RowsFit' /\ KindsFit'
  BY <1>20 DEF TellingDies, elseVars, execVars, rowVars
<1>21. ASSUME NEW s \in Step, Terminate(s)
      PROVE  JobsFit' /\ RowsFit' /\ KindsFit'
  BY <1>21 DEF Terminate, execVars, rowVars
<1>22. ASSUME NEW s \in Step, Lapse(s)
      PROVE  JobsFit' /\ RowsFit' /\ KindsFit'
  BY <1>22 DEF Lapse, actorVars, execVars, othersVars
<1>23. ASSUME NEW s \in Step, PassDeadline(s)
      PROVE  JobsFit' /\ RowsFit' /\ KindsFit'
  BY <1>23 DEF PassDeadline, actorVars, execVars, othersVars
<1>24. ASSUME NEW s \in Step, SelectStuck(s)
      PROVE  JobsFit' /\ RowsFit' /\ KindsFit'
  BY <1>24 DEF SelectStuck, Reapable, actorVars, execVars, rowVars
<1>25. ASSUME NEW s \in Step, Reap(s)
      PROVE  JobsFit' /\ RowsFit' /\ KindsFit'
  BY <1>25, FinishRows DEF Reap, Reapable, actorVars, execVars
<1>26. ASSUME NEW s \in Step, NEW what \in {"skip", "block", "unblock"}, Intend(what, s)
      PROVE  JobsFit' /\ RowsFit' /\ KindsFit'
  BY <1>26 DEF Intend, actorVars, execVars, rowVars
<1>27. ASSUME NEW s \in Step, NEW what \in {"skip", "block", "unblock"}, Intervene(what, s)
      PROVE  JobsFit' /\ RowsFit' /\ KindsFit'
  <2>1. \A t \in Step : step'[t] = "none" <=> step[t] = "none"
    BY <1>27 DEF Intervene, Changed
  <2>2. job' = job \/ \E j \in OpKey : job' = Enqueued(j)
    BY <1>27 DEF Intervene
  <2>3. \A k \in Key : job[k] = "taken" => job'[k] = "taken"
    BY <2>2 DEF Enqueued
  <2> QED
    BY <1>27, <2>1, <2>3 DEF Intervene, execVars
<1>28. CASE Cancel
  BY <1>28 DEF Cancel, Cancelled, actorVars, execVars
<1>30. ASSUME NEW c \in Letter, Post(c) PROVE JobsFit' /\ RowsFit' /\ KindsFit'
  BY <1>30 DEF Post, elseVars, execVars, rowVars
<1>29. CASE UNCHANGED vars
  BY <1>29 DEF vars, rowVars, execVars
<1> QED
  BY <1>1, <1>2, <1>3, <1>4, <1>5, <1>6, <1>7, <1>8, <1>9, <1>10, <1>11,
     <1>12, <1>13, <1>14, <1>15, <1>16, <1>17, <1>18, <1>19, <1>20, <1>21, <1>22,
     <1>23, <1>24, <1>25, <1>26, <1>27, <1>28, <1>29, <1>30
     DEF Next, Execution, Child, Time, Reaper, People

LEMMA BaseHolds == Spec => []BaseInv
<1> QED
  BY InitBase, StepBase, PTL DEF Spec

\* Rows, jobs, executions and children are well typed, for any chain of steps
\* and whatever happens (executeWorkflowRun, finishWorkflowStepRun, reapStuckWorkflowSteps).
THEOREM TypeCorrect == Spec => []TypeOK
<1>1. BaseInv => TypeOK
  BY DEF BaseInv
<1> QED
  BY <1>1, BaseHolds, PTL

-----------------------------------------------------------------------------
(* Failed runs.                                                            *)

\* A job that is done stays done: only taken ones are delivered again.
LEMMA DoneStaysDone ==
    ASSUME BaseInv, [Next]_vars, NEW d \in Key, job[d] = "done"
    PROVE  job'[d] = "done"
<1> USE DEF BaseInv, TypeOK, JobsFit
<1>1. ASSUME NEW w \in Worker, NEW k \in Key, Take(w, k) PROVE job'[d] = "done"
  BY <1>1 DEF Take
<1>2. ASSUME NEW w \in Worker, Mismatch(w) PROVE job'[d] = "done"
  BY <1>2 DEF Mismatch, EndJob
<1>3. ASSUME NEW w \in Worker, Prepare(w) PROVE job'[d] = "done"
  BY <1>3 DEF Prepare
<1>4. ASSUME NEW w \in Worker, StartRun(w) PROVE job'[d] = "done"
  BY <1>4 DEF StartRun
<1>5. ASSUME NEW w \in Worker, Look(w) PROVE job'[d] = "done"
  BY <1>5 DEF Look, EndJob, GoTo
<1>6. ASSUME NEW w \in Worker, Close(w) PROVE job'[d] = "done"
  BY <1>6 DEF Close, EndJob
<1>7. ASSUME NEW w \in Worker, SkipGuarded(w) PROVE job'[d] = "done"
  BY <1>7 DEF SkipGuarded
<1>8. ASSUME NEW w \in Worker, Reject(w) PROVE job'[d] = "done"
  BY <1>8 DEF Reject, EndJob
<1>9. ASSUME NEW w \in Worker, Begin(w) PROVE job'[d] = "done"
  BY <1>9 DEF Begin
<1>10. ASSUME NEW w \in Worker, Work(w) PROVE job'[d] = "done"
  BY <1>10 DEF Work
<1>11. ASSUME NEW w \in Worker, NEW ok \in BOOLEAN, End(w, ok) PROVE job'[d] = "done"
  BY <1>11 DEF End, EndJob
<1>12. ASSUME NEW w \in Worker, Mail(w) PROVE job'[d] = "done"
  BY <1>12 DEF Mail, EndJob
<1>13. ASSUME NEW w \in Worker, Queue(w) PROVE job'[d] = "done"
  BY <1>13 DEF Queue, EndJob
<1>14. ASSUME NEW w \in Worker, Launch(w) PROVE job'[d] = "done"
  BY <1>14 DEF Launch, GiveUp, EndJob
<1>15. ASSUME NEW w \in Worker, Crash(w) PROVE job'[d] = "done"
  BY <1>15 DEF Crash, GiveUp
<1>16. ASSUME NEW c \in Letter, Deliver(c) PROVE job'[d] = "done"
  BY <1>16 DEF Deliver
<1>17. ASSUME NEW c \in Letter, ChildEnds(c) PROVE job'[d] = "done"
  BY <1>17 DEF ChildEnds
<1>18. ASSUME NEW c \in Letter, Tell(c) PROVE job'[d] = "done"
  BY <1>18 DEF Tell
<1>19. ASSUME NEW c \in Letter, Continue(c) PROVE job'[d] = "done"
  BY <1>19 DEF Continue, Enqueued
<1>20. ASSUME NEW c \in Letter, TellingDies(c) PROVE job'[d] = "done"
  BY <1>20 DEF TellingDies
<1>21. ASSUME NEW s \in Step, Terminate(s) PROVE job'[d] = "done"
  BY <1>21 DEF Terminate
<1>22. ASSUME NEW s \in Step, Lapse(s) PROVE job'[d] = "done"
  BY <1>22 DEF Lapse, actorVars
<1>23. ASSUME NEW s \in Step, PassDeadline(s) PROVE job'[d] = "done"
  BY <1>23 DEF PassDeadline, actorVars
<1>24. ASSUME NEW s \in Step, SelectStuck(s) PROVE job'[d] = "done"
  BY <1>24 DEF SelectStuck, actorVars
<1>25. ASSUME NEW s \in Step, Reap(s) PROVE job'[d] = "done"
  BY <1>25 DEF Reap, actorVars
<1>26. ASSUME NEW s \in Step, NEW what \in {"skip", "block", "unblock"}, Intend(what, s)
      PROVE  job'[d] = "done"
  BY <1>26 DEF Intend, actorVars
<1>27. ASSUME NEW s \in Step, NEW what \in {"skip", "block", "unblock"}, Intervene(what, s)
      PROVE  job'[d] = "done"
  BY <1>27 DEF Intervene, Enqueued
<1>28. CASE Cancel
  BY <1>28 DEF Cancel, actorVars
<1>30. ASSUME NEW c \in Letter, Post(c) PROVE job'[d] = "done"
  BY <1>30 DEF Post
<1>29. CASE UNCHANGED vars
  BY <1>29 DEF vars
<1> QED
  BY <1>1, <1>2, <1>3, <1>4, <1>5, <1>6, <1>7, <1>8, <1>9, <1>10, <1>11,
     <1>12, <1>13, <1>14, <1>15, <1>16, <1>17, <1>18, <1>19, <1>20, <1>21, <1>22,
     <1>23, <1>24, <1>25, <1>26, <1>27, <1>28, <1>29, <1>30
     DEF Next, Execution, Child, Time, Reaper, People

NothingToCome == RowsExist /\ \A t \in Step : step[t] \notin {"pending", "blocked"}

\* A finished step leaves rows, and none to come if it failed the run.
LEMMA FinishLeaves ==
    ASSUME BaseInv, NEW s \in Step, NEW ok \in BOOLEAN, FinishStep(s, ok), RowsExist,
           run = "failed" => NothingToCome, run' = "failed"
    PROVE  NothingToCome'
<1> USE DEF BaseInv, TypeOK, NothingToCome, RowsExist
<1>1. CASE ~Applies /\ UNCHANGED rowVars
  BY <1>1 DEF rowVars
<1>2. CASE Applies /\ ~ok
  <2>1. step' = StepsAfter(s, FALSE)
    BY <1>2 DEF FinishStep
  <2> QED
    BY <2>1 DEF StepsAfter
<1>3. CASE Applies /\ ok
  BY <1>3 DEF FinishStep
<1> QED
  BY <1>1, <1>2, <1>3 DEF FinishStep

\* A step that fails the run, and every step after that, leaves nothing to come.
LEMMA StepLeaves ==
    ASSUME BaseInv, [Next]_vars, run = "failed" => NothingToCome,
           run' = "failed", \A k \in Foreign : job'[k] # "done"
    PROVE  NothingToCome'
<1> USE DEF BaseInv, TypeOK, RowsFit, NothingToCome, RowsExist, NoRows
<1>1. ASSUME NEW w \in Worker, NEW k \in Key, Take(w, k) PROVE NothingToCome'
  BY <1>1 DEF Take, rowVars, execVars
<1>2. ASSUME NEW w \in Worker, Mismatch(w) PROVE NothingToCome'
  BY <1>2 DEF Mismatch, EndJob
<1>3. ASSUME NEW w \in Worker, Prepare(w) PROVE NothingToCome'
  BY <1>3 DEF Prepare
<1>4. ASSUME NEW w \in Worker, StartRun(w) PROVE NothingToCome'
  BY <1>4 DEF StartRun
<1>5. ASSUME NEW w \in Worker, Look(w) PROVE NothingToCome'
  BY <1>5 DEF Look, rowVars
<1>6. ASSUME NEW w \in Worker, Close(w) PROVE NothingToCome'
  BY <1>6 DEF Close
<1>7. ASSUME NEW w \in Worker, SkipGuarded(w) PROVE NothingToCome'
  BY <1>7 DEF SkipGuarded
<1>8. ASSUME NEW w \in Worker, Reject(w) PROVE NothingToCome'
  BY <1>8, FinishLeaves DEF Reject
<1>9. ASSUME NEW w \in Worker, Begin(w) PROVE NothingToCome'
  BY <1>9 DEF Begin
<1>10. ASSUME NEW w \in Worker, Work(w) PROVE NothingToCome'
  BY <1>10 DEF Work, rowVars
<1>11. ASSUME NEW w \in Worker, NEW ok \in BOOLEAN, End(w, ok) PROVE NothingToCome'
  BY <1>11, FinishLeaves DEF End
<1>12. ASSUME NEW w \in Worker, Mail(w) PROVE NothingToCome'
  <2>1. CASE UNCHANGED <<rowVars, job>>
    BY <1>12, <2>1 DEF Mail, rowVars
  <2>2. CASE FinishStep(pick[w], FALSE)
    BY <1>12, <2>2, FinishLeaves DEF Mail
  <2> QED
    BY <1>12, <2>1, <2>2 DEF Mail
<1>13. ASSUME NEW w \in Worker, Queue(w) PROVE NothingToCome'
  BY <1>13 DEF Queue, Suspend
<1>14. ASSUME NEW w \in Worker, Launch(w) PROVE NothingToCome'
  BY <1>14 DEF Launch, GiveUp, Suspend, rowVars
<1>15. ASSUME NEW w \in Worker, Crash(w) PROVE NothingToCome'
  BY <1>15 DEF Crash, GiveUp, rowVars
<1>16. ASSUME NEW c \in Letter, Deliver(c) PROVE NothingToCome'
  BY <1>16 DEF Deliver, rowVars
<1>17. ASSUME NEW c \in Letter, ChildEnds(c) PROVE NothingToCome'
  BY <1>17 DEF ChildEnds, rowVars
<1>18. ASSUME NEW c \in Letter, Tell(c) PROVE NothingToCome'
  BY <1>18, FinishLeaves, LetterType DEF Tell
<1>19. ASSUME NEW c \in Letter, Continue(c) PROVE NothingToCome'
  BY <1>19 DEF Continue, rowVars
<1>20. ASSUME NEW c \in Letter, TellingDies(c) PROVE NothingToCome'
  BY <1>20 DEF TellingDies, rowVars
<1>21. ASSUME NEW s \in Step, Terminate(s) PROVE NothingToCome'
  BY <1>21 DEF Terminate, rowVars
<1>22. ASSUME NEW s \in Step, Lapse(s) PROVE NothingToCome'
  BY <1>22 DEF Lapse
<1>23. ASSUME NEW s \in Step, PassDeadline(s) PROVE NothingToCome'
  BY <1>23 DEF PassDeadline
<1>24. ASSUME NEW s \in Step, SelectStuck(s) PROVE NothingToCome'
  BY <1>24 DEF SelectStuck, rowVars
<1>25. ASSUME NEW s \in Step, Reap(s) PROVE NothingToCome'
  BY <1>25, FinishLeaves DEF Reap, Reapable
<1>26. ASSUME NEW s \in Step, NEW what \in {"skip", "block", "unblock"}, Intend(what, s)
      PROVE  NothingToCome'
  BY <1>26 DEF Intend, rowVars
<1>27. ASSUME NEW s \in Step, NEW what \in {"skip", "block", "unblock"}, Intervene(what, s)
      PROVE  NothingToCome'
  BY <1>27 DEF Intervene, Changed
<1>28. CASE Cancel
  BY <1>28 DEF Cancel
<1>30. ASSUME NEW c \in Letter, Post(c) PROVE NothingToCome'
  BY <1>30 DEF Post, rowVars
<1>29. CASE UNCHANGED vars
  BY <1>29 DEF vars, rowVars
<1> QED
  BY <1>1, <1>2, <1>3, <1>4, <1>5, <1>6, <1>7, <1>8, <1>9, <1>10, <1>11,
     <1>12, <1>13, <1>14, <1>15, <1>16, <1>17, <1>18, <1>19, <1>20, <1>21, <1>22,
     <1>23, <1>24, <1>25, <1>26, <1>27, <1>28, <1>29, <1>30
     DEF Next, Execution, Child, Time, Reaper, People

LEMMA StepFail == FailInv /\ [Next]_vars => FailInv'
<1> SUFFICES ASSUME FailInv, [Next]_vars PROVE FailInv'
  OBVIOUS
<1>1. BaseInv'
  BY StepBase DEF FailInv
<1>2. ASSUME run' = "failed", \A k \in Foreign : job'[k] # "done" PROVE NothingToCome'
  <2>1. \A k \in Foreign : job[k] # "done"
    BY <1>2, DoneStaysDone, ForeignAssumption DEF FailInv
  <2>2. run = "failed" => NothingToCome
    BY <2>1 DEF FailInv, FailedRunHasNothingToCome, FailedHasRows, NothingToCome
  <2> QED
    BY <1>2, <2>2, StepLeaves DEF FailInv
<1> QED
  BY <1>1, <1>2 DEF FailInv, FailedRunHasNothingToCome, FailedHasRows, NothingToCome

\* A run that fails leaves no step pending or blocked, in whatever order its
\* executions, children, reaper and interventions write, unless a job of somebody
\* else failed it (finishWorkflowStepRun, executeWorkflowRun).
THEOREM FailedRunsHaveNothingToCome == Spec => []FailedRunHasNothingToCome
<1>1. Init => FailInv
  BY InitBase DEF Init, FailInv, FailedRunHasNothingToCome, FailedHasRows
<1>2. FailInv => FailedRunHasNothingToCome
  BY DEF FailInv
<1> QED
  BY <1>1, <1>2, StepFail, PTL DEF Spec

-----------------------------------------------------------------------------
(* Tools.                                                                  *)

\* One worker: a tool that did its work is not at its beginning again.
Late == {"running"} \cup Over
Worked(s) ==
    /\ effects[s] = 1 /\ step[s] \in Late
    /\ \A w \in Worker : pick[w] = s => at[w] \notin {"picked", "working"}
Marked == \A w \in Worker : at[w] = "working" => step[pick[w]] \in Late
ToolInv == BaseInv /\ Marked /\ \A s \in Step : Kind[s] = "tool" => effects[s] = 0 \/ Worked(s)

\* A step that is running or over does not become pending by the end of another.
LEMMA FinishMarks ==
    ASSUME TypeOK, NEW s \in Step, NEW ok \in BOOLEAN, FinishStep(s, ok), NEW t \in Step
    PROVE  step[t] \in Late => step'[t] \in Late
BY DEF FinishStep, StepsAfter, TypeOK, Late, Over, rowVars

LEMMA StepTool == OneWorker /\ ToolInv /\ [Next]_vars => ToolInv'
<1> SUFFICES ASSUME OneWorker, ToolInv, [Next]_vars PROVE ToolInv'
  OBVIOUS
<1> DEFINE Kept == /\ Marked'
                   /\ \A t \in Step : Kind[t] = "tool" => effects'[t] = 0 \/ Worked(t)'
<1> SUFFICES Kept
  BY StepBase DEF ToolInv
<1> USE DEF OneWorker, ToolInv, BaseInv, TypeOK, RowsFit, KindsFit, RowsExist, NoRows, Marked,
            Worked, Late, Over
<1>1. ASSUME NEW w \in Worker, NEW k \in Key, Take(w, k) PROVE Kept
  BY <1>1 DEF Take, execVars, rowVars
<1>2. ASSUME NEW w \in Worker, Mismatch(w) PROVE Kept
  BY <1>2 DEF Mismatch, EndJob
<1>3. ASSUME NEW w \in Worker, Prepare(w) PROVE Kept
  BY <1>3 DEF Prepare, GoTo
<1>4. ASSUME NEW w \in Worker, StartRun(w) PROVE Kept
  BY <1>4 DEF StartRun, GoTo
<1>5. ASSUME NEW w \in Worker, Look(w) PROVE Kept
  BY <1>5 DEF Look, Chosen, EndJob, GoTo, rowVars
<1>6. ASSUME NEW w \in Worker, Close(w) PROVE Kept
  BY <1>6 DEF Close, EndJob
<1>7. ASSUME NEW w \in Worker, SkipGuarded(w) PROVE Kept
  BY <1>7 DEF SkipGuarded, GoTo
<1>8. ASSUME NEW w \in Worker, Reject(w) PROVE Kept
  <2>1. pick[w] \in Step /\ FinishStep(pick[w], FALSE)
    BY <1>8 DEF Reject
  <2>2. \A t \in Step : step[t] \in Late => step'[t] \in Late
    BY <2>1, FinishMarks
  <2> QED
    BY <1>8, <2>2 DEF Reject, EndJob
<1>9. ASSUME NEW w \in Worker, Begin(w) PROVE Kept
  BY <1>9 DEF Begin, GoTo
<1>10. ASSUME NEW w \in Worker, Work(w) PROVE Kept
  BY <1>10 DEF Work, GoTo, rowVars
<1>11. ASSUME NEW w \in Worker, NEW ok \in BOOLEAN, End(w, ok) PROVE Kept
  BY <1>11, FinishMarks DEF End, EndJob, GoTo
<1>12. ASSUME NEW w \in Worker, Mail(w) PROVE Kept
  <2>1. CASE GoTo(w, "mailed") /\ UNCHANGED <<rowVars, job>>
    BY <1>12, <2>1 DEF Mail, GoTo, rowVars
  <2>2. CASE FinishStep(pick[w], FALSE) /\ EndJob(w)
    <3>1. \A t \in Step : step[t] \in Late => step'[t] \in Late
      BY <2>2, FinishMarks
    <3> QED
      BY <1>12, <2>2, <3>1 DEF Mail, EndJob
  <2> QED
    BY <1>12, <2>1, <2>2 DEF Mail
<1>13. ASSUME NEW w \in Worker, Queue(w) PROVE Kept
  BY <1>13 DEF Queue, Suspend, EndJob
<1>14. ASSUME NEW w \in Worker, Launch(w) PROVE Kept
  BY <1>14 DEF Launch, GiveUp, Suspend, EndJob, rowVars
<1>15. ASSUME NEW w \in Worker, Crash(w) PROVE Kept
  BY <1>15 DEF Crash, GiveUp, rowVars
<1>16. ASSUME NEW c \in Letter, Deliver(c) PROVE Kept
  BY <1>16 DEF Deliver, elseVars, execVars, rowVars
<1>17. ASSUME NEW c \in Letter, ChildEnds(c) PROVE Kept
  BY <1>17 DEF ChildEnds, elseVars, execVars, rowVars, Sync
<1>18. ASSUME NEW c \in Letter, Tell(c) PROVE Kept
  BY <1>18, FinishMarks, LetterType DEF Tell, elseVars, execVars
<1>19. ASSUME NEW c \in Letter, Continue(c) PROVE Kept
  BY <1>19 DEF Continue, elseVars, execVars, rowVars
<1>20. ASSUME NEW c \in Letter, TellingDies(c) PROVE Kept
  BY <1>20 DEF TellingDies, elseVars, execVars, rowVars
<1>21. ASSUME NEW s \in Step, Terminate(s) PROVE Kept
  BY <1>21 DEF Terminate, execVars, rowVars
<1>22. ASSUME NEW s \in Step, Lapse(s) PROVE Kept
  BY <1>22 DEF Lapse, actorVars, execVars
<1>23. ASSUME NEW s \in Step, PassDeadline(s) PROVE Kept
  BY <1>23 DEF PassDeadline, actorVars, execVars
<1>24. ASSUME NEW s \in Step, SelectStuck(s) PROVE Kept
  BY <1>24 DEF SelectStuck, actorVars, execVars, rowVars
<1>25. ASSUME NEW s \in Step, Reap(s) PROVE Kept
  BY <1>25, FinishMarks DEF Reap, actorVars, execVars
<1>26. ASSUME NEW s \in Step, NEW what \in {"skip", "block", "unblock"}, Intend(what, s)
      PROVE  Kept
  BY <1>26 DEF Intend, actorVars, execVars, rowVars
<1>27. ASSUME NEW s \in Step, NEW what \in {"skip", "block", "unblock"}, Intervene(what, s)
      PROVE  Kept
  BY <1>27 DEF Intervene, Changed, execVars
<1>28. CASE Cancel
  BY <1>28 DEF Cancel, Cancelled, actorVars, execVars, Open
<1>30. ASSUME NEW c \in Letter, Post(c) PROVE Kept
  BY <1>30 DEF Post, elseVars, execVars, rowVars
<1>29. CASE UNCHANGED vars
  BY <1>29 DEF vars, rowVars, execVars
<1> QED
  BY <1>1, <1>2, <1>3, <1>4, <1>5, <1>6, <1>7, <1>8, <1>9, <1>10, <1>11,
     <1>12, <1>13, <1>14, <1>15, <1>16, <1>17, <1>18, <1>19, <1>20, <1>21, <1>22,
     <1>23, <1>24, <1>25, <1>26, <1>27, <1>28, <1>29, <1>30
     DEF Next, Execution, Child, Time, Reaper, People

\* With one worker at a time on the run, a tool's work is done at most once,
\* however often its job is delivered and whoever intervenes (executeWorkflowRun).
THEOREM ToolsRunOnce == OneWorker => (Spec => []ToolRunsOnce)
<1> SUFFICES ASSUME OneWorker PROVE Spec => []ToolRunsOnce
  OBVIOUS
<1>1. Init => ToolInv
  BY InitBase DEF Init, ToolInv, Marked
<1>2. ToolInv => ToolRunsOnce
  BY DEF ToolInv, Worked, ToolRunsOnce
<1>3. ToolInv /\ [Next]_vars => ToolInv'
  BY StepTool
<1> QED
  BY <1>1, <1>2, <1>3, PTL DEF Spec

-----------------------------------------------------------------------------
(* What a plain instance keeps.                                            *)

Behind(s) == \A t \in 1..(s - 1) : step[t] \in {"completed", "skipped"}

\* A pending run has not begun.
Unbegun ==
    /\ run = "pending" =>
        /\ \A s \in Step : step[s] \in {"none", "pending"} /\ child[s] = "none"
        /\ \A w \in Worker : at[w] \in {"idle", "loaded", "prepared"}
    /\ \A w \in Worker : at[w] \in {"loaded", "prepared"} => (new[w] <=> run = "pending")
    /\ NoRows => run \in {"pending", "cancelled"}
    /\ NoRows /\ run = "cancelled" => \A w \in Worker : at[w] = "idle"
    /\ run = "cancelled" \/ stopping = {}

\* Steps lie in their order, a failed one ends the run, an ended run is settled.
Ordered ==
    /\ InOrder
    /\ \A s \in Step : step[s] # "blocked" /\ (step[s] = "failed" => run = "failed")
    /\ run \in Ended => Settled
    /\ reaping = {} /\ intent = {}

\* Where the execution stands.
ExecutionFits == \A w \in Worker :
    /\ at[w] \in {"picked", "mailed"} =>
        /\ run \in Active /\ step[pick[w]] = "pending" /\ Behind(pick[w]) /\ ~Busy
    /\ at[w] = "mailed" => child[pick[w]] = "asked" /\ Kind[pick[w]] = "agent"
    /\ at[w] \in {"working", "worked"} /\ run \in Active => step[pick[w]] = "running"
    /\ at[w] = "closing" /\ run \in Active => Settled

\* Where a child stands, and what its step may be while the run is active.
ChildFits == \A s \in Step :
    /\ child[s] # "none" => Behind(s)
    /\ run \in Active =>
        /\ child[s] = "asked" =>
            step[s] = "running" \/ (Kind[s] = "agent" /\ step[s] = "pending")
        /\ child[s] \in {"working", "bad"} => step[s] = "running"
        /\ child[s] \in {"good", "over"} => step[s] \in {"running", "completed"}
        /\ child[s] \in {"owing", "told"} => step[s] = "completed"

PlainInv == BaseInv /\ Unbegun /\ Ordered /\ ExecutionFits /\ ChildFits

\* The steps before a step are steps, and of two steps one is before the other.
LEMMA Earlier ==
    /\ \A s \in Step : \A t \in 1..(s - 1) : t \in Step /\ t # s /\ s \notin 1..(t - 1)
    /\ \A s, t \in Step : s = t \/ s \in 1..(t - 1) \/ t \in 1..(s - 1)
BY NAssumption DEF Step

\* A step that may finish: it is pending or running, and no other one is running.
Current(s) ==
    step[s] \in {"pending", "running"} /\ Behind(s) /\ \A t \in Step \ {s} : step[t] # "running"

\* A running step is current.
LEMMA RunningIsCurrent ==
    ASSUME PlainInv, NEW s \in Step, step[s] = "running" PROVE Current(s)
BY Earlier DEF PlainInv, BaseInv, TypeOK, Ordered, InOrder, Current, Behind

\* Failing the current step settles the run and leaves the order.
LEMMA FailSettles ==
    ASSUME PlainInv, NEW s \in Step, Current(s), run \in Active, FinishStep(s, FALSE)
    PROVE  /\ run' = "failed" /\ Settled' /\ InOrder'
           /\ \A t \in Step : step[t] \in Over => step'[t] = step[t]
<1> USE Earlier DEF PlainInv, BaseInv, TypeOK, Ordered
<1>1. run' = "failed" /\ step' = StepsAfter(s, FALSE)
  BY DEF FinishStep, Applies
<1>2. Settled'
  BY <1>1 DEF StepsAfter, Settled, Open, Current
<1>3. InOrder'
  BY <1>1 DEF StepsAfter, InOrder, Current, Behind
<1>4. \A t \in Step : step[t] \in Over => step'[t] = step[t]
  BY <1>1 DEF StepsAfter, Over, Current
<1> QED
  BY <1>1, <1>2, <1>3, <1>4

\* Completing a step, also again, completes the run when nothing remains.
LEMMA GoodSettles ==
    ASSUME PlainInv, NEW s \in Step, run \in Active, FinishStep(s, TRUE), Behind(s),
           step[s] \in {"running", "completed"}
    PROVE  /\ step' = [step EXCEPT ![s] = "completed"] /\ InOrder'
           /\ run' = "running" \/ (run' = "completed" /\ Settled')
           /\ run' = "running" <=> Continues(s, TRUE)
<1> USE Earlier DEF PlainInv, BaseInv, TypeOK, Ordered
<1>1. /\ step' = StepsAfter(s, TRUE)
      /\ run' = IF Remaining(s) # {} THEN "running" ELSE "completed"
  BY DEF FinishStep, Applies
<1>2. step' = [step EXCEPT ![s] = "completed"]
  BY <1>1 DEF StepsAfter
<1>3. InOrder'
  BY <1>2 DEF InOrder, Behind
<1>4. run' = "completed" => Settled'
  BY <1>1, <1>2 DEF Settled, Remaining, Open
<1> QED
  BY <1>1, <1>2, <1>3, <1>4 DEF Continues, Applies

\* No execution is left that chose a step, and no child is new.
Apart ==
    /\ reaping' = {} /\ intent' = {} /\ stopping' = stopping /\ pick' = pick
    /\ \A w \in Worker :
        /\ at'[w] \notin {"picked", "mailed"}
        /\ at'[w] \in {"loaded", "prepared"} => at'[w] = at[w] /\ new'[w] = new[w]
    /\ \A t \in Step : child'[t] # "none" => child[t] # "none"

\* Failing the current step keeps the rest, when no execution is left that chose one.
LEMMA FailKeeps ==
    ASSUME PlainInv, NEW s \in Step, Current(s), run = "running", FinishStep(s, FALSE),
           RowsExist, Apart
    PROVE  Unbegun' /\ Ordered' /\ ExecutionFits' /\ ChildFits'
<1> USE Earlier DEF PlainInv, BaseInv, TypeOK, Apart
<1>1. /\ run' = "failed" /\ Settled' /\ InOrder'
      /\ \A t \in Step : step[t] \in Over => step'[t] = step[t]
  BY FailSettles DEF Active
<1>2. RowsExist'
  BY FinishRows
<1>3. step' = StepsAfter(s, FALSE)
  BY DEF FinishStep, Applies, Active
<1>4. Unbegun'
  BY <1>1, <1>2, StepType DEF Unbegun, NoRows, RowsExist
<1>5. Ordered'
  BY <1>1, <1>3 DEF Ordered, StepsAfter, Settled, Open
<1>6. ExecutionFits'
  BY <1>1 DEF ExecutionFits, Active
<1>7. ChildFits'
  BY <1>1 DEF ChildFits, Active, Behind, Over
<1> QED
  BY <1>4, <1>5, <1>6, <1>7

\* Taking a job reads whether the run is pending.
LEMMA TakeReads ==
    ASSUME TypeOK, NEW w \in Worker, NEW k \in Key, Take(w, k), run \notin Ended
    PROVE  new'[w] <=> run = "pending"
<1>1. new' = [new EXCEPT ![w] = run = "pending"] /\ new \in [Worker -> BOOLEAN]
  BY DEF Take, TypeOK
<1> QED
  BY <1>1, Zenon

LEMMA StepPlain == Plain /\ PlainInv /\ [Next]_vars => PlainInv'
<1> SUFFICES ASSUME Plain, PlainInv, [Next]_vars PROVE PlainInv'
  OBVIOUS
<1> DEFINE Fits == Unbegun' /\ Ordered' /\ ExecutionFits' /\ ChildFits'
<1> SUFFICES Fits
  BY StepBase DEF PlainInv
<1> USE Earlier, PlainLetter DEF PlainInv, BaseInv, TypeOK, Plain, OneWorker, RowsFit, KindsFit, RowsExist,
        NoRows, Unbegun, Ordered, InOrder, Settled, ExecutionFits, ChildFits, Behind, Busy, Active, Ended, Open
<1>1. ASSUME NEW w \in Worker, NEW k \in Key, Take(w, k) PROVE Fits
  <2>1. CASE run \in Ended
    BY <1>1, <2>1 DEF Take, execVars, rowVars, othersVars
  <2>2. CASE run \notin Ended
    <3>1. /\ at' = [at EXCEPT ![w] = "loaded"] /\ UNCHANGED pick
          /\ UNCHANGED <<rowVars, child, othersVars>>
      BY <1>1, <2>2 DEF Take
    <3>2. new'[w] <=> run = "pending"
      BY <1>1, <2>2, TakeReads
    <3>3. Unbegun'
      BY <2>2, <3>1, <3>2 DEF rowVars, othersVars
    <3> QED
      BY <3>1, <3>3 DEF rowVars, othersVars
  <2> QED
    BY <2>1, <2>2
<1>2. ASSUME NEW w \in Worker, Mismatch(w) PROVE Fits
  BY <1>2 DEF Mismatch
<1>3. ASSUME NEW w \in Worker, Prepare(w) PROVE Fits
  BY <1>3 DEF Prepare, GoTo, othersVars
<1>4. ASSUME NEW w \in Worker, StartRun(w) PROVE Fits
  BY <1>4 DEF StartRun, GoTo, othersVars
<1>5. ASSUME NEW w \in Worker, Look(w) PROVE Fits
  <2>1. Unbegun'
    BY <1>5 DEF Look, Chosen, EndJob, GoTo, rowVars, othersVars
  <2>2. Ordered'
    BY <1>5 DEF Look, Chosen, EndJob, GoTo, rowVars, othersVars
  <2>3. ExecutionFits'
    <3>1. CASE EndJob(w)
      BY <1>5, <3>1 DEF Look, EndJob, rowVars, othersVars
    <3>2. ASSUME NEW s \in Step, Chosen(s), ~Busy, pick' = [pick EXCEPT ![w] = s],
                 at' = [at EXCEPT ![w] = "picked"]
          PROVE  ExecutionFits'
      <4>1. run \in Active /\ step[s] = "pending"
        BY <3>2 DEF Chosen
      <4>2. RowsExist
        BY <1>5 DEF Look
      <4>3. ASSUME NEW t \in 1..(s - 1) PROVE step[t] \in {"completed", "skipped"}
        <5>1. t \in Step /\ step[t] \notin {"none", "pending", "running", "blocked", "failed"}
          BY <3>2, <4>1, <4>2 DEF Chosen
        <5> QED
          BY <5>1 DEF Over
      <4> QED
        BY <1>5, <3>2, <4>1, <4>3 DEF Look, rowVars
    <3>3. CASE ~Busy /\ (\A s \in Step : step[s] # "pending") /\ GoTo(w, "closing")
      <4>1. Settled
        BY <3>3
      <4> QED
        BY <1>5, <3>3, <4>1 DEF Look, GoTo, rowVars
    <3> QED
      BY <1>5, <3>1, <3>2, <3>3 DEF Look
  <2>4. ChildFits'
    BY <1>5 DEF Look, Chosen, EndJob, GoTo, rowVars, othersVars
  <2> QED
    BY <2>1, <2>2, <2>3, <2>4
<1>6. ASSUME NEW w \in Worker, Close(w) PROVE Fits
  <2>1. /\ at[w] = "closing" /\ at' = [at EXCEPT ![w] = "idle"] /\ RowsExist
        /\ run' = (IF run \in Active THEN "completed" ELSE run) /\ (run \in Active => Settled)
        /\ UNCHANGED <<step, child, new, pick, reaping, intent, stopping>>
    BY <1>6 DEF Close, EndJob, othersVars, Applies
  <2> QED
    BY <2>1
<1>7. ASSUME NEW w \in Worker, SkipGuarded(w) PROVE Fits
  BY <1>7 DEF SkipGuarded, GoTo, othersVars
<1>8. ASSUME NEW w \in Worker, Reject(w) PROVE Fits
  <2>1. /\ pick[w] \in Step /\ Current(pick[w]) /\ run = "running" /\ RowsExist
        /\ FinishStep(pick[w], FALSE)
    BY <1>8 DEF Reject, Current
  <2>2. Apart
    BY <1>8 DEF Reject, EndJob, othersVars, Apart
  <2> HIDE DEF PlainInv, RowsExist, Unbegun, Ordered, ExecutionFits, ChildFits
  <2> QED
    BY <2>1, <2>2, FailKeeps
<1>9. ASSUME NEW w \in Worker, Begin(w) PROVE Fits
  BY <1>9 DEF Begin, GoTo, othersVars
<1>10. ASSUME NEW w \in Worker, Work(w) PROVE Fits
  BY <1>10 DEF Work, GoTo, rowVars, othersVars
<1>11. ASSUME NEW w \in Worker, NEW ok \in BOOLEAN, End(w, ok) PROVE Fits
  <2>1. CASE run \notin Active
    BY <1>11, <2>1 DEF End, FinishStep, Applies, Continues, EndJob, othersVars, rowVars
  <2>2. CASE run \in Active
    <3>1. /\ pick[w] \in Step /\ step[pick[w]] = "running" /\ run = "running" /\ RowsExist
          /\ FinishStep(pick[w], ok)
      BY <1>11, <2>2 DEF End
    <3>2. CASE ~ok
      <4>1. Apart
        BY <1>11, <3>2 DEF End, Continues, EndJob, othersVars, Apart
      <4> HIDE DEF PlainInv, RowsExist, Unbegun, Ordered, ExecutionFits, ChildFits
      <4> QED
        BY <3>1, <3>2, <4>1, RunningIsCurrent, FailKeeps
    <3>3. CASE ok
      <4>1. Current(pick[w])
        BY <3>1, RunningIsCurrent
      <4>2. /\ step' = [step EXCEPT ![pick[w]] = "completed"] /\ InOrder'
            /\ run' = "running" \/ (run' = "completed" /\ Settled')
            /\ run' = "running" <=> Continues(pick[w], TRUE)
        BY <3>1, <3>3, <4>1, GoodSettles DEF Current
      <4>3. GoTo(w, "looping") \/ EndJob(w)
        BY <1>11 DEF End
      <4>4. at'[w] \in {"looping", "idle"} /\ \A v \in Worker : v = w
        BY <4>3 DEF GoTo, EndJob
      <4>5. Unbegun'
        <5>1. step'[pick[w]] = "completed" /\ stopping' = {}
          BY <1>11, <3>1, <4>2 DEF End, othersVars
        <5> QED
          BY <3>1, <4>2, <4>4, <5>1
      <4>6. Ordered'
        BY <1>11, <3>1, <3>3, <4>2 DEF End, EndJob, GoTo, othersVars
      <4>7. ExecutionFits'
        BY <4>4
      <4>8. ChildFits'
        BY <1>11, <3>1, <3>3, <4>2 DEF End, EndJob, GoTo, othersVars
      <4> QED
        BY <4>5, <4>6, <4>7, <4>8
    <3> QED
      BY <3>2, <3>3
  <2> QED
    BY <2>1, <2>2
<1>12. ASSUME NEW w \in Worker, Mail(w) PROVE Fits
  <2>1. CASE child[pick[w]] = "none" /\ GoTo(w, "mailed") /\ UNCHANGED <<rowVars, job>>
    BY <1>12, <2>1 DEF Mail, GoTo, rowVars, othersVars
  <2>2. CASE FinishStep(pick[w], FALSE) /\ EndJob(w) /\ UNCHANGED child
    <3>1. pick[w] \in Step /\ Current(pick[w]) /\ run = "running" /\ RowsExist
      BY <1>12 DEF Mail, Current
    <3>2. Apart
      BY <1>12, <2>2 DEF Mail, EndJob, othersVars, Apart
    <3> HIDE DEF PlainInv, RowsExist, Unbegun, Ordered, ExecutionFits, ChildFits
    <3> QED
      BY <2>2, <3>1, <3>2, FailKeeps
  <2> QED
    BY <1>12, <2>1, <2>2 DEF Mail
<1>13. ASSUME NEW w \in Worker, Queue(w) PROVE Fits
  BY <1>13 DEF Queue, Suspend, EndJob, othersVars
<1>14. ASSUME NEW w \in Worker, Launch(w) PROVE Fits
  <2>1. Unbegun'
    BY <1>14 DEF Launch, GiveUp, Suspend, EndJob, rowVars, othersVars
  <2>2. Ordered'
    <3>1. CASE UNCHANGED rowVars
      BY <1>14, <3>1 DEF Launch, GiveUp, rowVars, othersVars
    <3>2. CASE Suspend(pick[w])
      <4>1. /\ pick[w] \in Step /\ Behind(pick[w]) /\ step[pick[w]] = "pending" /\ ~Busy
            /\ run \in Active
        BY <1>14 DEF Launch
      <4>2. InOrder'
        BY <3>2, <4>1 DEF Suspend
      <4> QED
        BY <1>14, <3>2, <4>1, <4>2 DEF Launch, GiveUp, Suspend, othersVars
    <3> QED
      BY <1>14, <3>1, <3>2 DEF Launch
  <2>3. ExecutionFits'
    BY <1>14 DEF Launch, GiveUp, Suspend, EndJob, rowVars, othersVars
  <2>4. ChildFits'
    BY <1>14 DEF Launch, GiveUp, Suspend, EndJob, rowVars, othersVars
  <2> QED
    BY <2>1, <2>2, <2>3, <2>4
<1>15. ASSUME NEW w \in Worker, Crash(w) PROVE Fits
  BY <1>15 DEF Crash, GiveUp, rowVars, Extra
<1>16. ASSUME NEW s \in Step, Deliver(s) PROVE Fits
  <2>1. Unbegun'
    BY <1>16 DEF Deliver, MayIntervene, Undisturbed, elseVars, execVars, rowVars
  <2>2. Ordered'
    BY <1>16 DEF Deliver, MayIntervene, Undisturbed, elseVars, execVars, rowVars
  <2>3. ExecutionFits'
    <3>1. \A w \in Worker : at'[w] \notin {"picked", "mailed"}
      BY <1>16 DEF Deliver, MayIntervene, Undisturbed, elseVars, execVars
    <3>2. CASE UNCHANGED rowVars
      BY <1>16, <3>1, <3>2 DEF Deliver, elseVars, execVars, rowVars
    <3>3. CASE run \in Active /\ step[s] \in Open /\ step' = [step EXCEPT ![s] = "running"]
      BY <1>16, <3>1, <3>3 DEF Deliver, elseVars, execVars
    <3> QED
      BY <1>16, <3>2, <3>3 DEF Deliver
  <2>4. ChildFits'
    <3>1. /\ child[s] = "asked" /\ child' = [child EXCEPT ![s] = "working"]
          /\ IF Kind[s] = "agent" /\ run \in Active /\ step[s] \in Open
             THEN step' = [step EXCEPT ![s] = "running"] /\ run' = "running"
             ELSE UNCHANGED <<step, run>>
      BY <1>16 DEF Deliver, IsMail, rowVars
    <3> QED
      BY <3>1
  <2> QED
    BY <2>1, <2>2, <2>3, <2>4
<1>17. ASSUME NEW s \in Step, ChildEnds(s) PROVE Fits
  BY <1>17 DEF ChildEnds, elseVars, execVars, rowVars
<1>18. ASSUME NEW s \in Step, Tell(s) PROVE Fits
  <2>1. CASE run \notin Active
    BY <1>18, <2>1 DEF Tell, FinishStep, Applies, elseVars, execVars, rowVars
  <2>2. CASE run \in Active /\ child[s] = "bad"
    <3>1. step[s] = "running" /\ run = "running" /\ RowsExist /\ FinishStep(s, FALSE)
      BY <1>18, <2>2 DEF Tell
    <3>2. Apart
      BY <1>18, <2>2, <3>1 DEF Tell, elseVars, execVars, Apart
    <3> HIDE DEF PlainInv, RowsExist, Unbegun, Ordered, ExecutionFits, ChildFits
    <3> QED
      BY <3>1, <3>2, RunningIsCurrent, FailKeeps
  <2>3. CASE run \in Active /\ child[s] = "good"
    <3>1. /\ step' = [step EXCEPT ![s] = "completed"] /\ InOrder'
          /\ run' = "running" \/ (run' = "completed" /\ Settled')
          /\ run' = "running" <=> Continues(s, TRUE)
      BY <1>18, <2>3, PlainTell, GoodSettles
    <3> QED
      BY <1>18, <2>3, <3>1 DEF Tell, elseVars, execVars
  <2> QED
    BY <1>18, <2>1, <2>2, <2>3 DEF Tell
<1>19. ASSUME NEW s \in Step, Continue(s) PROVE Fits
  BY <1>19 DEF Continue, elseVars, execVars, rowVars
<1>20. ASSUME NEW s \in Step, TellingDies(s) PROVE Fits
  BY <1>20 DEF TellingDies, elseVars, execVars, rowVars
<1>21. ASSUME NEW s \in Step, Terminate(s) PROVE Fits
  BY <1>21 DEF Terminate, Extra, execVars, rowVars
<1>22. ASSUME NEW s \in Step, Lapse(s) PROVE Fits
  BY <1>22 DEF Lapse, actorVars, execVars, othersVars
<1>23. ASSUME NEW s \in Step, PassDeadline(s) PROVE Fits
  BY <1>23 DEF PassDeadline, actorVars, execVars, othersVars
<1>24. ASSUME NEW s \in Step, SelectStuck(s) PROVE Fits
  BY <1>24 DEF SelectStuck
<1>25. ASSUME NEW s \in Step, Reap(s) PROVE Fits
  <2>1. step[s] = "running" /\ run = "running" /\ RowsExist /\ FinishStep(s, FALSE)
    BY <1>25 DEF Reap, Reapable
  <2>2. Apart
    BY <1>25, <2>1 DEF Reap, actorVars, execVars, Apart
  <2> HIDE DEF PlainInv, RowsExist, Unbegun, Ordered, ExecutionFits, ChildFits
  <2> QED
    BY <2>1, <2>2, RunningIsCurrent, FailKeeps
<1>26. ASSUME NEW s \in Step, NEW what \in {"skip", "block", "unblock"}, Intend(what, s)
      PROVE  Fits
  BY <1>26 DEF Intend, Extra
<1>27. ASSUME NEW s \in Step, NEW what \in {"skip", "block", "unblock"}, Intervene(what, s)
      PROVE  Fits
  BY <1>27 DEF Intervene
<1>28. CASE Cancel
  BY <1>28 DEF Cancel, MayIntervene, Undisturbed, Cancelled, actorVars, execVars
<1>30. ASSUME NEW s \in Step, Post(s) PROVE Fits
  BY <1>30 DEF Post
<1>29. CASE UNCHANGED vars
  BY <1>29 DEF vars, rowVars, execVars
<1> HIDE DEF PlainInv, Unbegun, Ordered, ExecutionFits, ChildFits, Fits
<1> QED
  BY <1>1, <1>2, <1>3, <1>4, <1>5, <1>6, <1>7, <1>8, <1>9, <1>10, <1>11,
     <1>12, <1>13, <1>14, <1>15, <1>16, <1>17, <1>18, <1>19, <1>20, <1>21, <1>22,
     <1>23, <1>24, <1>25, <1>26, <1>27, <1>28, <1>29, <1>30
     DEF Next, Execution, Child, Time, Reaper, People

LEMMA InitPlain == Init => PlainInv
BY InitBase, StepType, LetterType
   DEF Init, PlainInv, Unbegun, Ordered, InOrder, Settled, ExecutionFits, ChildFits, RowsExist,
       NoRows, Ended, Active, Open

LEMMA PlainHolds == Plain => (Spec => []PlainInv)
<1> SUFFICES ASSUME Plain PROVE Spec => []PlainInv
  OBVIOUS
<1>1. Init => PlainInv
  BY InitPlain
<1>2. PlainInv /\ [Next]_vars => PlainInv'
  BY StepPlain
<1> QED
  BY <1>1, <1>2, PTL DEF Spec

\* The steps of a plain run are worked in their order, one at a time, through
\* deaths, redeliveries, repeated tellings, reaping and a cancellation
\* (executeWorkflowRun, finishWorkflowStepRun).
THEOREM StepsAreInOrder == Plain => (Spec => []InOrder)
<1>1. PlainInv => InOrder
  BY DEF PlainInv, Ordered
<1> QED
  BY <1>1, PlainHolds, PTL

\* An ended run and a step that is over are not written again.
LEMMA StepKeepsEnds ==
    ASSUME Plain, PlainInv, [Next]_vars
    PROVE  /\ run \in Ended => run' = run
           /\ \A t \in Step : step[t] \in Over => step'[t] = step[t]
<1> DEFINE Kept == /\ run \in Ended => run' = run
                   /\ \A t \in Step : step[t] \in Over => step'[t] = step[t]
<1> SUFFICES Kept
  OBVIOUS
<1> USE Earlier, PlainLetter DEF PlainInv, BaseInv, TypeOK, Plain, RowsFit, KindsFit, RowsExist, NoRows, Unbegun,
        Ordered, Settled, ExecutionFits, ChildFits, Active, Ended, Open, Over, Busy
<1>1. ASSUME NEW w \in Worker, NEW k \in Key, Take(w, k) PROVE Kept
  BY <1>1 DEF Take, execVars, rowVars
<1>2. ASSUME NEW w \in Worker, Mismatch(w) PROVE Kept
  BY <1>2 DEF Mismatch
<1>3. ASSUME NEW w \in Worker, Prepare(w) PROVE Kept
  BY <1>3 DEF Prepare
<1>4. ASSUME NEW w \in Worker, StartRun(w) PROVE Kept
  BY <1>4 DEF StartRun
<1>5. ASSUME NEW w \in Worker, Look(w) PROVE Kept
  BY <1>5 DEF Look, rowVars
<1>6. ASSUME NEW w \in Worker, Close(w) PROVE Kept
  BY <1>6 DEF Close, Applies
<1>7. ASSUME NEW w \in Worker, SkipGuarded(w) PROVE Kept
  BY <1>7 DEF SkipGuarded
<1>8. ASSUME NEW w \in Worker, Reject(w) PROVE Kept
  <2>1. pick[w] \in Step /\ Current(pick[w]) /\ run \in Active /\ FinishStep(pick[w], FALSE)
    BY <1>8 DEF Reject, Current
  <2> QED
    BY <2>1, FailSettles
<1>9. ASSUME NEW w \in Worker, Begin(w) PROVE Kept
  BY <1>9 DEF Begin
<1>10. ASSUME NEW w \in Worker, Work(w) PROVE Kept
  BY <1>10 DEF Work, rowVars
<1>11. ASSUME NEW w \in Worker, NEW ok \in BOOLEAN, End(w, ok) PROVE Kept
  <2>1. pick[w] \in Step /\ FinishStep(pick[w], ok) /\ (run \in Active => step[pick[w]] = "running")
    BY <1>11 DEF End
  <2>2. CASE run \notin Active
    BY <2>1, <2>2 DEF FinishStep, Applies, rowVars
  <2>3. CASE run \in Active /\ ~ok
    <3>1. ok = FALSE
      BY <2>3
    <3>2. FinishStep(pick[w], FALSE) /\ step[pick[w]] = "running"
      BY <2>1, <2>3, <3>1
    <3> HIDE DEF PlainInv
    <3>3. Current(pick[w])
      BY <2>1, <3>2, RunningIsCurrent
    <3> QED
      BY <2>1, <2>3, <3>2, <3>3, FailSettles
  <2>4. CASE run \in Active /\ ok
    <3>1. ok = TRUE
      BY <2>4
    <3>2. FinishStep(pick[w], TRUE) /\ step[pick[w]] = "running"
      BY <2>1, <2>4, <3>1
    <3>3. step' = [step EXCEPT ![pick[w]] = "completed"]
      <4> HIDE DEF PlainInv
      <4>1. Behind(pick[w])
        BY <2>1, <3>2, RunningIsCurrent DEF Current
      <4> QED
        BY <2>1, <2>4, <3>2, <4>1, GoodSettles
    <3> QED
      BY <2>4, <3>2, <3>3
  <2> QED
    BY <2>2, <2>3, <2>4
<1>12. ASSUME NEW w \in Worker, Mail(w) PROVE Kept
  <2>1. CASE UNCHANGED rowVars
    BY <2>1 DEF rowVars
  <2>2. CASE FinishStep(pick[w], FALSE)
    <3>1. pick[w] \in Step /\ Current(pick[w]) /\ run \in Active
      BY <1>12 DEF Mail, Current
    <3> QED
      BY <2>2, <3>1, FailSettles
  <2> QED
    BY <1>12, <2>1, <2>2 DEF Mail
<1>13. ASSUME NEW w \in Worker, Queue(w) PROVE Kept
  BY <1>13 DEF Queue, Suspend
<1>14. ASSUME NEW w \in Worker, Launch(w) PROVE Kept
  BY <1>14 DEF Launch, GiveUp, Suspend, rowVars
<1>15. ASSUME NEW w \in Worker, Crash(w) PROVE Kept
  BY <1>15 DEF Crash, GiveUp, rowVars
<1>16. ASSUME NEW s \in Step, Deliver(s) PROVE Kept
  BY <1>16 DEF Deliver, rowVars
<1>17. ASSUME NEW s \in Step, ChildEnds(s) PROVE Kept
  BY <1>17 DEF ChildEnds, rowVars
<1>18. ASSUME NEW s \in Step, Tell(s) PROVE Kept
  <2>1. CASE run \notin Active
    BY <1>18, <2>1 DEF Tell, FinishStep, Applies, rowVars
  <2>2. CASE run \in Active /\ child[s] = "bad"
    <3>1. step[s] = "running" /\ FinishStep(s, FALSE)
      BY <1>18, <2>2 DEF Tell
    <3> QED
      BY <2>2, <3>1, RunningIsCurrent, FailSettles
  <2>3. CASE run \in Active /\ child[s] = "good"
    <3>1. step' = [step EXCEPT ![s] = "completed"]
      BY <1>18, <2>3, PlainTell, GoodSettles
    <3> QED
      BY <2>3, <3>1
  <2> QED
    BY <1>18, <2>1, <2>2, <2>3 DEF Tell
<1>19. ASSUME NEW s \in Step, Continue(s) PROVE Kept
  BY <1>19 DEF Continue, rowVars
<1>20. ASSUME NEW s \in Step, TellingDies(s) PROVE Kept
  BY <1>20 DEF TellingDies, rowVars
<1>21. ASSUME NEW s \in Step, Terminate(s) PROVE Kept
  BY <1>21 DEF Terminate, rowVars
<1>22. ASSUME NEW s \in Step, Lapse(s) PROVE Kept
  BY <1>22 DEF Lapse
<1>23. ASSUME NEW s \in Step, PassDeadline(s) PROVE Kept
  BY <1>23 DEF PassDeadline
<1>24. ASSUME NEW s \in Step, SelectStuck(s) PROVE Kept
  BY <1>24 DEF SelectStuck
<1>25. ASSUME NEW s \in Step, Reap(s) PROVE Kept
  <2>1. step[s] = "running" /\ run \in Active /\ FinishStep(s, FALSE)
    BY <1>25 DEF Reap, Reapable
  <2> QED
    BY <2>1, RunningIsCurrent, FailSettles
<1>26. ASSUME NEW s \in Step, NEW what \in {"skip", "block", "unblock"}, Intend(what, s)
      PROVE  Kept
  BY <1>26 DEF Intend, rowVars
<1>27. ASSUME NEW s \in Step, NEW what \in {"skip", "block", "unblock"}, Intervene(what, s)
      PROVE  Kept
  BY <1>27 DEF Intervene
<1>28. CASE Cancel
  BY <1>28 DEF Cancel, Cancelled
<1>30. ASSUME NEW s \in Step, Post(s) PROVE Kept
  BY <1>30 DEF Post
<1>29. CASE UNCHANGED vars
  BY <1>29 DEF vars, rowVars
<1> QED
  BY <1>1, <1>2, <1>3, <1>4, <1>5, <1>6, <1>7, <1>8, <1>9, <1>10, <1>11,
     <1>12, <1>13, <1>14, <1>15, <1>16, <1>17, <1>18, <1>19, <1>20, <1>21, <1>22,
     <1>23, <1>24, <1>25, <1>26, <1>27, <1>28, <1>29, <1>30
     DEF Next, Execution, Child, Time, Reaper, People

\* What ended in a plain run stays as it ended, and whatever ends the run leaves
\* none of its steps waiting or running (finishWorkflowStepRun, reapStuckWorkflowSteps).
THEOREM EndsAreForGood == Plain => (Spec => EndedForGood)
<1> SUFFICES ASSUME Plain PROVE Spec => EndedForGood
  OBVIOUS
<1>1. ASSUME PlainInv, PlainInv', [Next]_vars
      PROVE  [/\ run \in Ended => run' = run
              /\ \A s \in Step : step[s] \in Over => step'[s] = step[s]
              /\ run' \in Ended => \A s \in Step : step'[s] \notin Open]_vars
  BY <1>1, StepKeepsEnds DEF PlainInv, Ordered, Settled
<1>2. Spec => []PlainInv
  BY PlainHolds
<1> QED
  BY <1>1, <1>2, PTL DEF Spec, EndedForGood

-----------------------------------------------------------------------------
(* Runs that nobody forgets.                                               *)

\* Every child is an agent, and every step an executor works itself is watched.
Followed ==
    /\ Plain
    /\ \A s \in Step : Kind[s] # "environment" /\ (Kind[s] = "transform" => s \in Timed)

Watched == \A s \in Step : step[s] = "running" => lease[s] # "none" \/ deadline[s] # "none"

\* A continuation follows a completed step.
JobsBehind == run \in Active => \A s \in Step : job[s] # "none" => step[s] = "completed"

\* Work that goes on, with a step that is told again not counted twice.
HasWork ==
    \/ \E k \in Key : job[k] \in {"queued", "taken"}
    \/ \E s \in Step : child[s] \in {"good", "owing"} /\ job[s] = "none"
    \/ Busy
    \/ GivenUp

WorkInv == PlainInv /\ Watched /\ JobsBehind /\ (run \in Active => HasWork)

\* A step that finishes is not running, and the others are watched as before.
LEMMA FinishWatches ==
    ASSUME TypeOK, Watched, NEW s \in Step, NEW ok \in BOOLEAN, FinishStep(s, ok)
    PROVE  Watched'
<1> USE DEF TypeOK, Watched
<1>1. CASE ~Applies /\ UNCHANGED rowVars
  BY <1>1 DEF rowVars
<1>2. CASE Applies
  <2>1. /\ step' = StepsAfter(s, ok)
        /\ lease' = [lease EXCEPT ![s] = "none"] /\ deadline' = [deadline EXCEPT ![s] = "none"]
    BY <1>2 DEF FinishStep
  <2>2. step'[s] # "running" /\ \A t \in Step : step'[t] = "running" => step[t] = "running"
    BY <2>1 DEF StepsAfter
  <2> QED
    BY <2>1, <2>2
<1> QED
  BY <1>1, <1>2 DEF FinishStep

LEMMA StepWork == Followed /\ WorkInv /\ [Next]_vars => WorkInv'
<1> SUFFICES ASSUME Followed, WorkInv, [Next]_vars PROVE WorkInv'
  OBVIOUS
<1> DEFINE Kept == Watched' /\ JobsBehind' /\ (run' \in Active => HasWork')
<1> SUFFICES Kept
  BY StepPlain DEF WorkInv, Followed
<1> USE StepType, PlainLetter DEF WorkInv, Followed, PlainInv, BaseInv, TypeOK, Plain, JobsFit, KindsFit, Sync, Ordered,
        Unbegun, ExecutionFits, ChildFits, Watched, JobsBehind, HasWork, GivenUp, Busy, Active, Ended
<1>1. ASSUME NEW w \in Worker, NEW k \in Key, Take(w, k) PROVE Kept
  <2>1. CASE run \in Ended
    BY <1>1, <2>1 DEF Take, rowVars
  <2>2. CASE run \notin Ended
    BY <1>1, <2>2 DEF Take, rowVars
  <2> QED
    BY <2>1, <2>2
<1>2. ASSUME NEW w \in Worker, Mismatch(w) PROVE Kept
  BY <1>2 DEF Mismatch
<1>3. ASSUME NEW w \in Worker, Prepare(w) PROVE Kept
  BY <1>3 DEF Prepare, GoTo
<1>4. ASSUME NEW w \in Worker, StartRun(w) PROVE Kept
  BY <1>4 DEF StartRun, GoTo
<1>5. ASSUME NEW w \in Worker, Look(w) PROVE Kept
  BY <1>5 DEF Look, EndJob, GoTo, rowVars
<1>6. ASSUME NEW w \in Worker, Close(w) PROVE Kept
  BY <1>6 DEF Close, EndJob, Applies
<1>7. ASSUME NEW w \in Worker, SkipGuarded(w) PROVE Kept
  BY <1>7 DEF SkipGuarded, GoTo
<1>8. ASSUME NEW w \in Worker, Reject(w) PROVE Kept
  <2>1. run' \notin Active
    BY <1>8 DEF Reject, FinishStep, Applies
  <2>2. Watched'
    BY <1>8, FinishWatches DEF Reject
  <2> QED
    BY <2>1, <2>2
<1>9. ASSUME NEW w \in Worker, Begin(w) PROVE Kept
  BY <1>9 DEF Begin, GoTo
<1>10. ASSUME NEW w \in Worker, Work(w) PROVE Kept
  BY <1>10 DEF Work, GoTo, rowVars
<1>11. ASSUME NEW w \in Worker, NEW ok \in BOOLEAN, End(w, ok) PROVE Kept
  <2>1. FinishStep(pick[w], ok) /\ pick[w] \in Step /\ child' = child
    BY <1>11 DEF End
  <2>2. Watched'
    BY <2>1, FinishWatches
  <2>3. CASE run \notin Active
    <3>1. run' \notin Active
      BY <2>1, <2>3 DEF FinishStep, Applies, rowVars
    <3> QED
      BY <2>2, <3>1
  <2>4. CASE run \in Active /\ ~Continues(pick[w], ok)
    <3>1. run' \notin Active
      BY <2>1, <2>4 DEF FinishStep, Applies, Continues, rowVars
    <3> QED
      BY <2>2, <3>1
  <2>5. CASE run \in Active /\ Continues(pick[w], ok)
    <3>1. ok = TRUE /\ job' = job
      BY <1>11, <2>5 DEF End, Continues
    <3>2. step' = StepsAfter(pick[w], TRUE)
      BY <2>1, <2>5, <3>1 DEF FinishStep, Applies
    <3>3. JobsBehind'
      BY <2>5, <3>1, <3>2 DEF StepsAfter
    <3>4. on[w] \in Key /\ job[on[w]] = "taken"
      BY <1>11 DEF End
    <3> QED
      BY <2>2, <3>1, <3>3, <3>4
  <2> QED
    BY <2>3, <2>4, <2>5
<1>12. ASSUME NEW w \in Worker, Mail(w) PROVE Kept
  <2>1. CASE UNCHANGED <<rowVars, job>> /\ child[pick[w]] = "none"
    BY <1>12, <2>1 DEF Mail, rowVars
  <2>2. CASE FinishStep(pick[w], FALSE)
    <3>1. run' \notin Active
      BY <2>2 DEF FinishStep, Applies, rowVars
    <3>2. Watched'
      BY <2>2, FinishWatches
    <3> QED
      BY <3>1, <3>2
  <2> QED
    BY <1>12, <2>1, <2>2 DEF Mail
<1>13. ASSUME NEW w \in Worker, Queue(w) PROVE Kept
  BY <1>13 DEF Queue, Suspend, EndJob
<1>14. ASSUME NEW w \in Worker, Launch(w) PROVE Kept
  BY <1>14 DEF Launch
<1>15. ASSUME NEW w \in Worker, Crash(w) PROVE Kept
  BY <1>15 DEF Crash, GiveUp, rowVars
<1>16. ASSUME NEW s \in Step, Deliver(s) PROVE Kept
  BY <1>16 DEF Deliver, rowVars
<1>17. ASSUME NEW s \in Step, ChildEnds(s) PROVE Kept
  BY <1>17 DEF ChildEnds, rowVars
<1>18. ASSUME NEW s \in Step, Tell(s) PROVE Kept
  <2>1. FinishStep(s, child[s] = "good") /\ job' = job
    BY <1>18 DEF Tell
  <2>2. CASE run \notin Active
    <3>1. run' \notin Active /\ UNCHANGED rowVars
      BY <2>1, <2>2 DEF FinishStep, Applies, rowVars
    <3> QED
      BY <3>1 DEF rowVars
  <2>3. CASE run \in Active /\ child[s] = "bad"
    <3>1. FinishStep(s, FALSE)
      BY <2>1, <2>3
    <3>2. run' \notin Active
      BY <2>3, <3>1 DEF FinishStep, Applies
    <3>3. Watched'
      BY <3>1, FinishWatches
    <3> QED
      BY <3>2, <3>3
  <2>4. CASE run \in Active /\ child[s] = "good"
    <3>1. FinishStep(s, TRUE)
      BY <2>1, <2>4
    <3>2. /\ step' = [step EXCEPT ![s] = "completed"]
          /\ run' = "running" \/ (run' = "completed" /\ Settled')
          /\ run' = "running" <=> Continues(s, TRUE)
      BY <2>4, <3>1, GoodSettles
    <3>3. Watched'
      BY <3>1, FinishWatches
    <3>4. JobsBehind'
      BY <2>1, <2>4, <3>2
    <3>5. ASSUME run' \in Active PROVE HasWork'
      <4>1. child' = [child EXCEPT ![s] = "owing"]
        BY <1>18, <2>4, <3>2, <3>5, PlainTell
      <4>2. CASE job[s] = "none"
        BY <2>1, <4>1, <4>2
      <4>3. CASE job[s] # "none"
        BY <2>1, <2>4, <3>2, <4>1, <4>3
      <4> QED
        BY <4>2, <4>3
    <3> QED
      BY <3>3, <3>4, <3>5
  <2> QED
    BY <1>18, <2>2, <2>3, <2>4 DEF Tell
<1>19. ASSUME NEW s \in Step, Continue(s) PROVE Kept
  <2>1. child[s] = "owing" /\ child' = [child EXCEPT ![s] = "told"] /\ job' = Enqueued(s)
        /\ UNCHANGED <<run, step, lease, deadline>>
    BY <1>19 DEF Continue, rowVars
  <2>2. \A k \in Key : job'[k] = IF k = s /\ job[s] = "none" THEN "queued" ELSE job[k]
    BY <2>1 DEF Enqueued
  <2>3. JobsBehind'
    BY <2>1, <2>2
  <2>4. ASSUME run \in Active PROVE HasWork'
    <3>1. CASE job[s] = "none"
      BY <2>2, <3>1
    <3>2. CASE job[s] # "none"
      BY <2>1, <2>2, <2>4, <3>2
    <3> QED
      BY <3>1, <3>2
  <2> QED
    BY <2>1, <2>3, <2>4
<1>20. ASSUME NEW s \in Step, TellingDies(s) PROVE Kept
  BY <1>20, KindAssumption DEF TellingDies, IsMail, rowVars
<1>21. ASSUME NEW s \in Step, Terminate(s) PROVE Kept
  BY <1>21 DEF Terminate
<1>22. ASSUME NEW s \in Step, Lapse(s) PROVE Kept
  BY <1>22 DEF Lapse, actorVars
<1>23. ASSUME NEW s \in Step, PassDeadline(s) PROVE Kept
  BY <1>23 DEF PassDeadline, actorVars
<1>24. ASSUME NEW s \in Step, SelectStuck(s) PROVE Kept
  BY <1>24 DEF SelectStuck, actorVars, rowVars
<1>25. ASSUME NEW s \in Step, Reap(s) PROVE Kept
  <2>1. FinishStep(s, FALSE)
    BY <1>25 DEF Reap
  <2>2. run' \notin Active
    BY <2>1 DEF FinishStep, Applies, rowVars
  <2>3. Watched'
    BY <2>1, FinishWatches
  <2> QED
    BY <2>2, <2>3
<1>26. ASSUME NEW s \in Step, NEW what \in {"skip", "block", "unblock"}, Intend(what, s)
      PROVE  Kept
  BY <1>26 DEF Intend, Extra
<1>27. ASSUME NEW s \in Step, NEW what \in {"skip", "block", "unblock"}, Intervene(what, s)
      PROVE  Kept
  BY <1>27 DEF Intervene
<1>28. CASE Cancel
  BY <1>28 DEF Cancel, Cancelled
<1>30. ASSUME NEW s \in Step, Post(s) PROVE Kept
  BY <1>30 DEF Post
<1>29. CASE UNCHANGED vars
  BY <1>29 DEF vars, rowVars
<1> QED
  BY <1>1, <1>2, <1>3, <1>4, <1>5, <1>6, <1>7, <1>8, <1>9, <1>10, <1>11,
     <1>12, <1>13, <1>14, <1>15, <1>16, <1>17, <1>18, <1>19, <1>20, <1>21, <1>22,
     <1>23, <1>24, <1>25, <1>26, <1>27, <1>28, <1>29, <1>30
     DEF Next, Execution, Child, Time, Reaper, People

\* With agents for children and a watch on every step, a run that has not ended
\* and none of whose jobs was dead-lettered has somebody to take it further, for
\* any chain of steps and any number of deaths and repeated tellings
\* (maybeContinueParentWorkflow, reapStuckWorkflowSteps).
THEOREM ActiveRunsHaveWork == Followed => (Spec => []ActiveRunHasWork)
<1> SUFFICES ASSUME Followed PROVE Spec => []ActiveRunHasWork
  OBVIOUS
<1>1. Init => PlainInv
  BY InitPlain
<1>2. Init => WorkInv
  BY <1>1, StepType DEF Init, WorkInv, Watched, JobsBehind, HasWork, Step
<1>3. WorkInv /\ [Next]_vars => WorkInv'
  BY StepWork
<1>4. WorkInv => ActiveRunHasWork
  BY LetterType DEF WorkInv, Watched, HasWork, Busy, ActiveRunHasWork
<1> QED
  BY <1>2, <1>3, <1>4, PTL DEF Spec
=============================================================================
