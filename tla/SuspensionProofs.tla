-------------------------- MODULE SuspensionProofs --------------------------
(***************************************************************************)
(* Proofs about Suspension, for any set of approvals, logins and cards and *)
(* any number of deaths.                                                   *)
(***************************************************************************)
EXTENDS Suspension, TLAPS

USE DEF Card, Request, Running, Waiting, Terminal, Answered

\* Expands a step into its actions.
USE DEF Worker, ApprovalStep, CardStep

-----------------------------------------------------------------------------
(* Types.                                                                  *)

\* The initial state is well typed.
LEMMA InitType == Init => TypeOK
BY NothingAssumption, BoundAssumption DEF Init, TypeOK

\* Every step keeps the types.
LEMMA StepType == TypeOK /\ [Next]_vars => TypeOK'
<1> SUFFICES ASSUME TypeOK, [Next]_vars PROVE TypeOK'
  OBVIOUS
<1> USE DEF TypeOK, runVars, requestVars, Become
<1>1. ASSUME NEW a \in Approvals, AskApproval(a) PROVE TypeOK'
  BY <1>1 DEF AskApproval
<1>2. ASSUME NEW c \in Card, PostCard(c) PROVE TypeOK'
  BY <1>2 DEF PostCard
<1>3. CASE SaveCheckpoint
  BY <1>3 DEF SaveCheckpoint
<1>4. CASE LinkCard
  BY <1>4 DEF LinkCard
<1>5. CASE Park
  BY <1>5 DEF Park
<1>6. CASE Crash
  BY <1>6, BoundAssumption DEF Crash, Extra
<1>7. CASE Finish
  BY <1>7 DEF Finish
<1>8. ASSUME NEW a \in Approvals, Answer(a) PROVE TypeOK'
  BY <1>8 DEF Answer
<1>9. ASSUME NEW a \in Approvals, AnswerLate(a) PROVE TypeOK'
  BY <1>9 DEF AnswerLate
<1>10. ASSUME NEW a \in Approvals, Effect(a) PROVE TypeOK'
  BY <1>10 DEF Effect, Resume, Dismissed, Outcome
<1>11. ASSUME NEW a \in Approvals, LoseEffect(a) PROVE TypeOK'
  BY <1>11, BoundAssumption DEF LoseEffect, Extra
<1>12. ASSUME NEW a \in Approvals, SweepApproval(a) PROVE TypeOK'
  BY <1>12 DEF SweepApproval, Dismissed
<1>13. ASSUME NEW c \in Card, PressLinked(c) PROVE TypeOK'
  BY <1>13 DEF PressLinked, Resume
<1>14. ASSUME NEW c \in Card, PressUnlinked(c) PROVE TypeOK'
  BY <1>14 DEF PressUnlinked
<1>15. ASSUME NEW c \in Card, SweepCard(c) PROVE TypeOK'
  BY <1>15 DEF SweepCard
<1>16. ASSUME NEW c \in Card, SweepLogin(c) PROVE TypeOK'
  BY <1>16 DEF SweepLogin
<1>17. ASSUME NEW c \in Card, FreeLogin(c) PROVE TypeOK'
  BY <1>17 DEF FreeLogin, Cancelled
<1>18. CASE Cancel
  BY <1>18 DEF Cancel, Cancelled
<1>19. CASE CancelApprovals
  BY <1>19 DEF CancelApprovals
<1>20. CASE CancelCards
  BY <1>20 DEF CancelCards
<1>21. CASE AbandonCancel
  BY <1>21, BoundAssumption DEF AbandonCancel, Extra
<1>22. ASSUME NEW q \in Request, Lapse(q) PROVE TypeOK'
  BY <1>22 DEF Lapse
<1>23. CASE UNCHANGED vars
  BY <1>23 DEF vars
<1> QED
  BY <1>1, <1>2, <1>3, <1>4, <1>5, <1>6, <1>7, <1>8, <1>9, <1>10, <1>11, <1>12, <1>13, <1>14,
     <1>15, <1>16, <1>17, <1>18, <1>19, <1>20, <1>21, <1>22, <1>23 DEF Next

\* The run, its requests and the answers on their way stay well typed (TypeOK).
THEOREM TypeCorrect == Spec => []TypeOK
BY InitType, StepType, PTL DEF Spec

-----------------------------------------------------------------------------
(* What a step can do to a request and to the run.                         *)

\* An answer stands: every statement that decides a request names the status
\* it may decide.
AnswersStand == \A q \in Request : state[q] \in Answered => state'[q] = state[q]

\* Cards that name the run, and answers that became messages, stay so.
LinksStand == linked \subseteq linked' /\ decided \subseteq decided'

\* No step takes an answer back, or a card's link.
LEMMA StepStands == TypeOK /\ [Next]_vars => AnswersStand /\ LinksStand
<1> SUFFICES ASSUME TypeOK, [Next]_vars PROVE AnswersStand /\ LinksStand
  OBVIOUS
<1> USE DEF TypeOK, runVars, requestVars, Become, AnswersStand, LinksStand
<1>1. ASSUME NEW a \in Approvals, AskApproval(a) PROVE AnswersStand /\ LinksStand
  BY <1>1 DEF AskApproval
<1>2. ASSUME NEW c \in Card, PostCard(c) PROVE AnswersStand /\ LinksStand
  BY <1>2 DEF PostCard
<1>3. CASE SaveCheckpoint
  BY <1>3 DEF SaveCheckpoint
<1>4. CASE LinkCard
  BY <1>4 DEF LinkCard
<1>5. CASE Park
  BY <1>5 DEF Park
<1>6. CASE Crash
  BY <1>6 DEF Crash
<1>7. CASE Finish
  BY <1>7 DEF Finish
<1>8. ASSUME NEW a \in Approvals, Answer(a) PROVE AnswersStand /\ LinksStand
  BY <1>8 DEF Answer, Claimable
<1>9. ASSUME NEW a \in Approvals, AnswerLate(a) PROVE AnswersStand /\ LinksStand
  BY <1>9 DEF AnswerLate, Overdue
<1>10. ASSUME NEW a \in Approvals, Effect(a) PROVE AnswersStand /\ LinksStand
  BY <1>10 DEF Effect, Resumable, Resume, Dismissed, Outcome
<1>11. ASSUME NEW a \in Approvals, LoseEffect(a) PROVE AnswersStand /\ LinksStand
  BY <1>11 DEF LoseEffect
<1>12. ASSUME NEW a \in Approvals, SweepApproval(a) PROVE AnswersStand /\ LinksStand
  BY <1>12 DEF SweepApproval, Overdue, Stranded, Dismissed
<1>13. ASSUME NEW c \in Card, PressLinked(c) PROVE AnswersStand /\ LinksStand
  BY <1>13 DEF PressLinked, InTime, Resumable, Resume
<1>14. ASSUME NEW c \in Card, PressUnlinked(c) PROVE AnswersStand /\ LinksStand
  BY <1>14 DEF PressUnlinked, InTime
<1>15. ASSUME NEW c \in Card, SweepCard(c) PROVE AnswersStand /\ LinksStand
  BY <1>15 DEF SweepCard
<1>16. ASSUME NEW c \in Card, SweepLogin(c) PROVE AnswersStand /\ LinksStand
  BY <1>16 DEF SweepLogin
<1>17. ASSUME NEW c \in Card, FreeLogin(c) PROVE AnswersStand /\ LinksStand
  BY <1>17 DEF FreeLogin, Lapsed, Cancelled
<1>18. CASE Cancel
  BY <1>18 DEF Cancel, Cancelled
<1>19. CASE CancelApprovals
  BY <1>19 DEF CancelApprovals
<1>20. CASE CancelCards
  BY <1>20 DEF CancelCards
<1>21. CASE AbandonCancel
  BY <1>21 DEF AbandonCancel
<1>22. ASSUME NEW q \in Request, Lapse(q) PROVE AnswersStand /\ LinksStand
  BY <1>22 DEF Lapse
<1>23. CASE UNCHANGED vars
  BY <1>23 DEF vars
<1> QED
  BY <1>1, <1>2, <1>3, <1>4, <1>5, <1>6, <1>7, <1>8, <1>9, <1>10, <1>11, <1>12, <1>13, <1>14,
     <1>15, <1>16, <1>17, <1>18, <1>19, <1>20, <1>21, <1>22, <1>23 DEF Next

-----------------------------------------------------------------------------
(* Where the run may be.                                                   *)

\* Nobody answers an approval before its run is parked.
UnansweredWhileRunning ==
    phase \in Running => \A a \in Approvals : state[a] \in {"none", "open", "expired"}

\* A run that waits, or is about to, waits for something it asked for.
WaitsForARequest ==
    /\ phase \in {"asked", "saved", "linked"} \cup Waiting =>
          waitFor \in Request /\ state[waitFor] # "none"
    /\ phase = "linked" => waitFor \in Card
    /\ phase = "waiting_approval" => waitFor \in Approvals

\* It has its checkpoint, and only a resume takes that from it.
HasCheckpoint ==
    /\ phase \in {"saved", "linked"} \cup Waiting => ckpt \in {"saved", "own"}
    /\ ckpt = "taken" => phase \in Terminal
    /\ resumedBy # Nothing => ckpt = "taken"

RunInv == UnansweredWhileRunning /\ WaitsForARequest /\ HasCheckpoint

\* Every step keeps the run where it may be.
LEMMA StepRun == TypeOK /\ RunInv /\ [Next]_vars => RunInv'
<1> SUFFICES ASSUME TypeOK, RunInv, [Next]_vars PROVE RunInv'
  OBVIOUS
<1> USE DEF TypeOK, RunInv, UnansweredWhileRunning, WaitsForARequest, HasCheckpoint,
            runVars, requestVars, Become
<1>1. ASSUME NEW a \in Approvals, AskApproval(a) PROVE RunInv'
  BY <1>1 DEF AskApproval
<1>2. ASSUME NEW c \in Card, PostCard(c) PROVE RunInv'
  BY <1>2 DEF PostCard
<1>3. CASE SaveCheckpoint
  BY <1>3 DEF SaveCheckpoint
<1>4. CASE LinkCard
  BY <1>4 DEF LinkCard
<1>5. CASE Park
  BY <1>5 DEF Park
<1>6. CASE Crash
  BY <1>6 DEF Crash
<1>7. CASE Finish
  BY <1>7 DEF Finish
<1>8. ASSUME NEW a \in Approvals, Answer(a) PROVE RunInv'
  BY <1>8 DEF Answer, Claimable
<1>9. ASSUME NEW a \in Approvals, AnswerLate(a) PROVE RunInv'
  BY <1>9 DEF AnswerLate, Overdue
<1>10. ASSUME NEW a \in Approvals, Effect(a) PROVE RunInv'
  BY <1>10 DEF Effect, Resumable, Resume, Dismissed, Outcome
<1>11. ASSUME NEW a \in Approvals, LoseEffect(a) PROVE RunInv'
  BY <1>11 DEF LoseEffect
<1>12. ASSUME NEW a \in Approvals, SweepApproval(a) PROVE RunInv'
  BY <1>12 DEF SweepApproval, Overdue, Stranded, Dismissed
<1>13. ASSUME NEW c \in Card, PressLinked(c) PROVE RunInv'
  BY <1>13 DEF PressLinked, InTime, Resumable, Resume
<1>14. ASSUME NEW c \in Card, PressUnlinked(c) PROVE RunInv'
  BY <1>14, KindsAssumption DEF PressUnlinked, InTime
<1>15. ASSUME NEW c \in Card, SweepCard(c) PROVE RunInv'
  BY <1>15 DEF SweepCard
<1>16. ASSUME NEW c \in Card, SweepLogin(c) PROVE RunInv'
  BY <1>16 DEF SweepLogin
<1>17. ASSUME NEW c \in Card, FreeLogin(c) PROVE RunInv'
  BY <1>17 DEF FreeLogin, Lapsed, Cancelled
<1>18. CASE Cancel
  BY <1>18 DEF Cancel, Cancelled
<1>19. CASE CancelApprovals
  BY <1>19 DEF CancelApprovals
<1>20. CASE CancelCards
  BY <1>20, KindsAssumption DEF CancelCards
<1>21. CASE AbandonCancel
  BY <1>21 DEF AbandonCancel
<1>22. ASSUME NEW q \in Request, Lapse(q) PROVE RunInv'
  BY <1>22 DEF Lapse
<1>23. CASE UNCHANGED vars
  BY <1>23 DEF vars
<1> QED
  BY <1>1, <1>2, <1>3, <1>4, <1>5, <1>6, <1>7, <1>8, <1>9, <1>10, <1>11, <1>12, <1>13, <1>14,
     <1>15, <1>16, <1>17, <1>18, <1>19, <1>20, <1>21, <1>22, <1>23 DEF Next

\* The initial state satisfies all of it.
LEMMA InitRun == Init => RunInv
BY DEF Init, RunInv, UnansweredWhileRunning, WaitsForARequest, HasCheckpoint

\* Every behaviour does.
LEMMA RunHolds == Spec => [](TypeOK /\ RunInv)
BY InitType, InitRun, StepType, StepRun, PTL DEF Spec

-----------------------------------------------------------------------------
(* What the answers do.                                                    *)

\* A resume is by an answer; only a parked run, with its checkpoint, resumes;
\* a run that is over neither resumes nor changes its status.
ResumesOnAnswer ==
    /\ resumedBy' # resumedBy =>
          /\ phase \in Waiting /\ ckpt = "saved"
          /\ \/ resumedBy' \in Approvals /\ state'[resumedBy'] = "approved"
             \/ resumedBy' \in linked /\ state'[resumedBy'] = "resolved"
    /\ phase \in Terminal => phase' = phase /\ resumedBy' = resumedBy

\* A press is kept only with what it brings about.
PressesAreHeard ==
    \A c \in Card : state'[c] = "resolved" =>
        state[c] = "resolved" \/ resumedBy' = c \/ c \in decided'

\* Every step treats answers so.
LEMMA StepAnswers == TypeOK /\ [Next]_vars => ResumesOnAnswer /\ PressesAreHeard
<1> SUFFICES ASSUME TypeOK, [Next]_vars PROVE ResumesOnAnswer /\ PressesAreHeard
  OBVIOUS
<1> USE KindsAssumption DEF TypeOK, ResumesOnAnswer, PressesAreHeard, runVars, requestVars, Become
<1>1. ASSUME NEW a \in Approvals, AskApproval(a) PROVE ResumesOnAnswer /\ PressesAreHeard
  BY <1>1 DEF AskApproval
<1>2. ASSUME NEW c \in Card, PostCard(c) PROVE ResumesOnAnswer /\ PressesAreHeard
  BY <1>2 DEF PostCard
<1>3. CASE SaveCheckpoint
  BY <1>3 DEF SaveCheckpoint
<1>4. CASE LinkCard
  BY <1>4 DEF LinkCard
<1>5. CASE Park
  BY <1>5 DEF Park
<1>6. CASE Crash
  BY <1>6 DEF Crash
<1>7. CASE Finish
  BY <1>7 DEF Finish
<1>8. ASSUME NEW a \in Approvals, Answer(a) PROVE ResumesOnAnswer /\ PressesAreHeard
  BY <1>8 DEF Answer, Claimable
<1>9. ASSUME NEW a \in Approvals, AnswerLate(a) PROVE ResumesOnAnswer /\ PressesAreHeard
  BY <1>9 DEF AnswerLate, Overdue
<1>10. ASSUME NEW a \in Approvals, Effect(a) PROVE ResumesOnAnswer /\ PressesAreHeard
  BY <1>10 DEF Effect, Resumable, Resume, Dismissed, Outcome
<1>11. ASSUME NEW a \in Approvals, LoseEffect(a) PROVE ResumesOnAnswer /\ PressesAreHeard
  BY <1>11 DEF LoseEffect
<1>12. ASSUME NEW a \in Approvals, SweepApproval(a) PROVE ResumesOnAnswer /\ PressesAreHeard
  BY <1>12 DEF SweepApproval, Overdue, Stranded, Dismissed
<1>13. ASSUME NEW c \in Card, PressLinked(c) PROVE ResumesOnAnswer /\ PressesAreHeard
  BY <1>13 DEF PressLinked, InTime, Resumable, Resume
<1>14. ASSUME NEW c \in Card, PressUnlinked(c) PROVE ResumesOnAnswer /\ PressesAreHeard
  BY <1>14 DEF PressUnlinked, InTime
<1>15. ASSUME NEW c \in Card, SweepCard(c) PROVE ResumesOnAnswer /\ PressesAreHeard
  BY <1>15 DEF SweepCard
<1>16. ASSUME NEW c \in Card, SweepLogin(c) PROVE ResumesOnAnswer /\ PressesAreHeard
  BY <1>16 DEF SweepLogin
<1>17. ASSUME NEW c \in Card, FreeLogin(c) PROVE ResumesOnAnswer /\ PressesAreHeard
  BY <1>17 DEF FreeLogin, Lapsed, Cancelled
<1>18. CASE Cancel
  BY <1>18 DEF Cancel, Cancelled
<1>19. CASE CancelApprovals
  BY <1>19 DEF CancelApprovals
<1>20. CASE CancelCards
  BY <1>20 DEF CancelCards
<1>21. CASE AbandonCancel
  BY <1>21 DEF AbandonCancel
<1>22. ASSUME NEW q \in Request, Lapse(q) PROVE ResumesOnAnswer /\ PressesAreHeard
  BY <1>22 DEF Lapse
<1>23. CASE UNCHANGED vars
  BY <1>23 DEF vars
<1> QED
  BY <1>1, <1>2, <1>3, <1>4, <1>5, <1>6, <1>7, <1>8, <1>9, <1>10, <1>11, <1>12, <1>13, <1>14,
     <1>15, <1>16, <1>17, <1>18, <1>19, <1>20, <1>21, <1>22, <1>23 DEF Next

\* A run that ended stays as it ended: a cancelled run is not brought back by
\* a late approval (EndedStaysEnded; run-resume-core.ts asserts the parked
\* status again in its transaction).
THEOREM EndedRunsStayEnded == Spec => EndedStaysEnded
<1>1. TypeOK /\ [Next]_vars => [(phase \in Terminal) => phase' = phase /\ resumedBy' = resumedBy]_vars
  BY StepAnswers DEF ResumesOnAnswer
<1> QED
  BY <1>1, TypeCorrect, PTL DEF Spec, EndedStaysEnded

AnswerInv == BackOnAnAnswer /\ PressIsHeard

\* Answers that stand keep what was brought about by them.
LEMMA StepAnswerInv == TypeOK /\ RunInv /\ AnswerInv /\ [Next]_vars => AnswerInv'
<1> SUFFICES ASSUME TypeOK, RunInv, AnswerInv, [Next]_vars PROVE AnswerInv'
  OBVIOUS
<1> USE DEF AnswerInv
<1>1. ResumesOnAnswer /\ PressesAreHeard /\ AnswersStand /\ LinksStand
  BY StepAnswers, StepStands
<1>2. BackOnAnAnswer'
  <2>1. CASE resumedBy' = resumedBy
    BY <1>1, <2>1 DEF BackOnAnAnswer, AnswersStand, LinksStand
  <2>2. CASE resumedBy' # resumedBy
    BY <1>1, <2>2, KindsAssumption DEF BackOnAnAnswer, ResumesOnAnswer, LinksStand, TypeOK
  <2> QED
    BY <2>1, <2>2
<1>3. PressIsHeard'
  <2>1. resumedBy # Nothing => resumedBy' = resumedBy
    BY <1>1 DEF ResumesOnAnswer, RunInv, HasCheckpoint
  <2> QED
    BY <1>1, <2>1, NothingAssumption DEF PressIsHeard, PressesAreHeard, LinksStand
<1> QED
  BY <1>2, <1>3

\* Every behaviour keeps that.
LEMMA AnswersHold == Spec => []AnswerInv
<1>1. Init => AnswerInv
  BY NothingAssumption DEF Init, AnswerInv, BackOnAnAnswer, PressIsHeard
<1> QED
  BY <1>1, RunHolds, StepAnswerInv, PTL DEF Spec

\* A run comes back only on an approval that is approved, or on a resolved
\* card that names it (BackOnAnAnswer).
THEOREM RunsComeBackOnAnswers == Spec => []BackOnAnAnswer
<1>1. AnswerInv => BackOnAnAnswer
  BY DEF AnswerInv
<1> QED
  BY <1>1, AnswersHold, PTL

\* An accepted press brought the run back or became a message to the agent
\* (PressIsHeard; agent-card-response.ts rolls the other presses back).
THEOREM PressesReachSomebody == Spec => []PressIsHeard
<1>1. AnswerInv => PressIsHeard
  BY DEF AnswerInv
<1> QED
  BY <1>1, AnswersHold, PTL

-----------------------------------------------------------------------------
(* What a parked run waits for.                                            *)

\* A decision is taken away from a parked run only by what leaves it another, or
\* ends it, or gives the answer up.
LEMMA StepParked == TypeOK /\ RunInv /\ ParkedOnADecision /\ [Next]_vars => ParkedOnADecision'
<1> SUFFICES ASSUME TypeOK, RunInv, ParkedOnADecision, [Next]_vars PROVE ParkedOnADecision'
  OBVIOUS
<1> USE DEF TypeOK, RunInv, UnansweredWhileRunning, WaitsForARequest, HasCheckpoint,
            ParkedOnADecision, Unheeded, runVars, requestVars, Become
<1>1. ASSUME NEW a \in Approvals, AskApproval(a) PROVE ParkedOnADecision'
  BY <1>1 DEF AskApproval
<1>2. ASSUME NEW c \in Card, PostCard(c) PROVE ParkedOnADecision'
  BY <1>2 DEF PostCard
<1>3. CASE SaveCheckpoint
  BY <1>3 DEF SaveCheckpoint
<1>4. CASE LinkCard
  BY <1>4 DEF LinkCard
<1>5. CASE Park
  BY <1>5 DEF Park
<1>6. CASE Crash
  BY <1>6 DEF Crash
<1>7. CASE Finish
  BY <1>7 DEF Finish
<1>8. ASSUME NEW a \in Approvals, Answer(a) PROVE ParkedOnADecision'
  BY <1>8 DEF Answer, Claimable
<1>9. ASSUME NEW a \in Approvals, AnswerLate(a) PROVE ParkedOnADecision'
  BY <1>9 DEF AnswerLate, Overdue
<1>10. ASSUME NEW a \in Approvals, Effect(a) PROVE ParkedOnADecision'
  BY <1>10 DEF Effect, Resumable, Resume, Dismissed, Outcome
<1>11. ASSUME NEW a \in Approvals, LoseEffect(a) PROVE ParkedOnADecision'
  BY <1>11 DEF LoseEffect
<1>12. ASSUME NEW a \in Approvals, SweepApproval(a) PROVE ParkedOnADecision'
  BY <1>12 DEF SweepApproval, Overdue, Stranded, Dismissed
<1>13. ASSUME NEW c \in Card, PressLinked(c) PROVE ParkedOnADecision'
  BY <1>13 DEF PressLinked, InTime, Resumable, Resume
<1>14. ASSUME NEW c \in Card, PressUnlinked(c) PROVE ParkedOnADecision'
  BY <1>14, KindsAssumption DEF PressUnlinked, InTime
<1>15. ASSUME NEW c \in Card, SweepCard(c) PROVE ParkedOnADecision'
  BY <1>15 DEF SweepCard
<1>16. ASSUME NEW c \in Card, SweepLogin(c) PROVE ParkedOnADecision'
  BY <1>16 DEF SweepLogin
<1>17. ASSUME NEW c \in Card, FreeLogin(c) PROVE ParkedOnADecision'
  BY <1>17 DEF FreeLogin, Lapsed, Cancelled
<1>18. CASE Cancel
  BY <1>18 DEF Cancel, Cancelled
<1>19. CASE CancelApprovals
  BY <1>19 DEF CancelApprovals
<1>20. CASE CancelCards
  BY <1>20, KindsAssumption DEF CancelCards
<1>21. CASE AbandonCancel
  BY <1>21 DEF AbandonCancel
<1>22. ASSUME NEW q \in Request, Lapse(q) PROVE ParkedOnADecision'
  BY <1>22 DEF Lapse
<1>23. CASE UNCHANGED vars
  BY <1>23 DEF vars
<1> QED
  BY <1>1, <1>2, <1>3, <1>4, <1>5, <1>6, <1>7, <1>8, <1>9, <1>10, <1>11, <1>12, <1>13, <1>14,
     <1>15, <1>16, <1>17, <1>18, <1>19, <1>20, <1>21, <1>22, <1>23 DEF Next

\* A run parked on an approval is parked on something that will still happen,
\* or whose effect was lost or refused (ParkedOnADecision; approvals.ts claims
\* an answer only behind the parked status).
THEOREM ParkedOnDecisions == Spec => []ParkedOnADecision
<1>1. Init => ParkedOnADecision
  BY DEF Init, ParkedOnADecision
<1> QED
  BY <1>1, RunHolds, StepParked, PTL DEF Spec

=============================================================================
