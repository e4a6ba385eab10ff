------------------------ MODULE RunExecutionProofs ------------------------
(***************************************************************************)
(* Proofs about RunExecution, for any number of deliveries and any set of   *)
(* faults, unless a theorem assumes a fault away.                           *)
(***************************************************************************)
EXTENDS RunExecution, TLAPS

Hows == {"ack", "nack", "short", "takeover"}    \* how a delivery settles

\* What the plan of an execution may be where the code goes by it.
PlanFits ==
    \A e \in Exec :
        /\ phase[e] = "stopping" => plan[e] \in {"failed", "cancelled", "waiting"}
        /\ phase[e] = "handback" => plan[e] \in {"nack", "short"}

\* A queued job has an attempt left; a claimed one has been delivered.
JobFits ==
    /\ job.status = "queued" => job.attempt < job.max
    /\ job.status \in {"leased", "expired"} => job.attempt # None

TypeInv == TypeOK /\ PlanFits /\ JobFits

ExecTyped ==
    /\ phase \in [Exec -> {"new", "delivered", "admitted", "claiming", "running",
                           "unsure", "stopping", "handback", "ended", "dead"}]
    /\ plan \in [Exec -> Plans]
    /\ fence \in [Exec -> {"none", "held", "fenced"}]
    /\ PlanFits

JobTyped == job \in JobRow /\ job.attempt <= job.max /\ JobFits
RunTyped == run \in RunRow /\ crash \in Exec \cup {None}
SetsTyped == signal \subseteq Exec /\ overrun \subseteq Exec /\ answered \subseteq Exec

-----------------------------------------------------------------------------
(* Numbers and pieces of the type invariant. *)

\* Deliveries are numbered from 1; None is not one of them.
LEMMA ExecNumbers ==
    Exec \subseteq Nat /\ None \notin Exec /\ \A e \in Exec : e \in Nat /\ e >= 1
BY RunBoundsAssumption, SMT DEF Exec, None

LEMMA TypeParts == TypeInv <=> ExecTyped /\ JobTyped /\ RunTyped /\ SetsTyped
BY DEF TypeInv, TypeOK, ExecTyped, JobTyped, JobFits, RunTyped, SetsTyped

LEMMA TypePartsNext ==
    TypeInv' <=> ExecTyped' /\ JobTyped' /\ RunTyped' /\ SetsTyped'
BY DEF TypeInv, TypeOK, ExecTyped, JobTyped, JobFits, RunTyped, SetsTyped

JobShape ==
    /\ job = [status |-> job.status, attempt |-> job.attempt,
              max |-> job.max, wait |-> job.wait]
    /\ job.status \in {"queued", "leased", "expired", "done", "dead"}
    /\ job.attempt \in Exec \cup {None}
    /\ job.max \in Nat
    /\ job.wait \in {"none", "short", "takeover"}
    /\ job.attempt <= job.max

LEMMA JobHasShape == JobTyped => JobShape
BY DEF JobTyped, JobRow, JobShape

\* A settle leaves a well-typed job row.
LEMMA SettledTyped ==
    ASSUME JobTyped, NEW e \in Exec, NEW how \in Hows
    PROVE  /\ Settled(e, how) \in JobRow
           /\ Settled(e, how).attempt <= Settled(e, how).max
           /\ Settled(e, how).status = "queued" => Settled(e, how).attempt < Settled(e, how).max
           /\ Settled(e, how).status \in {"leased", "expired"} => Settled(e, how).attempt # None
<1>1. JobShape
  BY JobHasShape
<1>2. job.attempt \in Nat
  BY <1>1, ExecNumbers DEF None, JobShape
<1> USE DEF JobShape
<1>4. CASE Settled(e, how) = job
  BY <1>4 DEF JobTyped, JobFits
<1>5. CASE /\ how = "ack"
           /\ Settled(e, how) = [job EXCEPT !.status = "done"]
  <2>1. Settled(e, how) = [status |-> "done", attempt |-> job.attempt,
                           max |-> job.max, wait |-> job.wait]
    BY <1>1, <1>5
  <2> QED BY <1>1, <2>1 DEF JobRow
<1>6. CASE /\ how = "nack"
           /\ Settled(e, how) = [job EXCEPT !.status = IF job.attempt >= job.max
                                                     THEN "dead" ELSE "queued"]
  <2>1. PICK s \in {"dead", "queued"} :
            /\ Settled(e, how) = [status |-> s, attempt |-> job.attempt,
                                  max |-> job.max, wait |-> job.wait]
            /\ s = "queued" => job.attempt < job.max
    BY <1>1, <1>2, <1>6
  <2> QED BY <1>1, <2>1 DEF JobRow
<1>7. CASE /\ how \in {"short", "takeover"}
           /\ Settled(e, how) = [job EXCEPT !.status = "queued", !.max = @ + 1, !.wait = how]
  <2>1. Settled(e, how) = [status |-> "queued", attempt |-> job.attempt,
                           max |-> job.max + 1, wait |-> how]
    BY <1>1, <1>7
  <2>2. job.max + 1 \in Nat /\ job.attempt <= job.max + 1 /\ job.attempt < job.max + 1
    BY <1>1, <1>2
  <2> QED BY <1>1, <1>7, <2>1, <2>2 DEF JobRow
<1> QED BY <1>4, <1>5, <1>6, <1>7 DEF Settled, Hows

\* Moving one execution keeps every execution well typed.
LEMMA GotoTyped ==
    ASSUME ExecTyped, NEW e \in Exec,
           NEW p \in {"new", "delivered", "admitted", "claiming", "running",
                      "unsure", "stopping", "handback", "ended", "dead"},
           NEW q \in Plans,
           p = "stopping" => q \in {"failed", "cancelled", "waiting"},
           p = "handback" => q \in {"nack", "short"},
           Goto(e, p, q),
           fence' \in [Exec -> {"none", "held", "fenced"}]
    PROVE  ExecTyped'
BY DEF ExecTyped, PlanFits, Goto

LEMMA FinishTyped ==
    ASSUME ExecTyped, JobTyped, NEW e \in Exec, NEW how \in Hows, Finish(e, how)
    PROVE  ExecTyped' /\ JobTyped'
<1>1. fence' \in [Exec -> {"none", "held", "fenced"}]
  BY DEF Finish, ExecTyped
<1>2. ExecTyped'
  BY <1>1, GotoTyped DEF Finish, Plans
<1>3. JobTyped'
  BY SettledTyped DEF Finish, JobTyped, JobFits
<1> QED BY <1>2, <1>3

-----------------------------------------------------------------------------
(* Type correctness. *)

LEMMA InitTyped == Init => TypeInv
BY RunBoundsAssumption, ExecNumbers
   DEF Init, TypeInv, TypeOK, PlanFits, JobFits, RunRow, JobRow, Plans, Terminal, None

LEMMA ClearTyped == RunTyped /\ ClearUnheld => crash' \in Exec \cup {None}
BY DEF ClearUnheld, RunTyped

\* The queue's own steps and the steps of the outside.
LEMMA OutsideTyped ==
    TypeInv /\ (\/ \E e \in Exec : Deliver(e) \/ DrainBegins(e) \/ Abandon(e)
                                   \/ Crash(e) \/ ToolOverruns(e)
                \/ LockExpires \/ DeadSweep \/ RetryFallsDue
                \/ BeatStales \/ RequestCancel \/ Resume)
        => TypeInv'
<1> SUFFICES ASSUME ExecTyped, JobTyped, RunTyped, SetsTyped,
                    \/ \E e \in Exec : Deliver(e) \/ DrainBegins(e) \/ Abandon(e)
                                       \/ Crash(e) \/ ToolOverruns(e)
                    \/ LockExpires \/ DeadSweep \/ RetryFallsDue
                    \/ BeatStales \/ RequestCancel \/ Resume
             PROVE  ExecTyped' /\ JobTyped' /\ RunTyped' /\ SetsTyped'
  BY TypeParts, TypePartsNext
<1>a. JobShape
  BY JobHasShape
<1>0. JobShape /\ job.attempt \in Nat
  BY <1>a, ExecNumbers DEF None, JobShape
<1> USE DEF JobShape
<1>1. ASSUME NEW e \in Exec, Deliver(e) PROVE ExecTyped' /\ JobTyped' /\ RunTyped' /\ SetsTyped'
  <2>1. ExecTyped'
    BY <1>1, GotoTyped DEF Deliver, ExecTyped, Plans
  <2>2. job' = [status |-> "leased", attempt |-> e, max |-> job.max, wait |-> job.wait]
    BY <1>0, <1>1 DEF Deliver
  <2>3. job.attempt < job.max /\ e = job.attempt + 1 /\ e \in Nat
    BY <1>0, <1>1, ExecNumbers DEF Deliver, Deliverable, JobTyped, JobFits
  <2>4. e <= job.max /\ e # None
    BY <1>0, <2>3, ExecNumbers
  <2>5. JobTyped'
    BY <1>0, <2>2, <2>4 DEF JobTyped, JobFits, JobRow
  <2> QED BY <1>1, <2>1, <2>5 DEF Deliver, RunTyped, SetsTyped
<1>2. ASSUME NEW e \in Exec, DrainBegins(e) PROVE ExecTyped' /\ JobTyped' /\ RunTyped' /\ SetsTyped'
  BY <1>2 DEF DrainBegins, execVars, ExecTyped, PlanFits, JobTyped, JobFits, RunTyped, SetsTyped
<1>3. ASSUME NEW e \in Exec, Abandon(e) PROVE ExecTyped' /\ JobTyped' /\ RunTyped' /\ SetsTyped'
  <2>1. JobTyped'
    BY <1>3, SettledTyped DEF Abandon, JobTyped, JobFits, Hows
  <2> QED BY <1>3, <2>1 DEF Abandon, execVars, ExecTyped, PlanFits, RunTyped, SetsTyped
<1>4. ASSUME NEW e \in Exec, Crash(e) PROVE ExecTyped' /\ JobTyped' /\ RunTyped' /\ SetsTyped'
  <2>1. ExecTyped'
    BY <1>4, GotoTyped DEF Crash, ExecTyped, Plans
  <2> QED BY <1>4, <2>1 DEF Crash, JobTyped, JobFits, RunTyped, SetsTyped
<1>5. ASSUME NEW e \in Exec, ToolOverruns(e) PROVE ExecTyped' /\ JobTyped' /\ RunTyped' /\ SetsTyped'
  BY <1>5 DEF ToolOverruns, execVars, ExecTyped, PlanFits, JobTyped, JobFits, RunTyped, SetsTyped
<1>6. CASE LockExpires
  <2>1. job' = [status |-> "expired", attempt |-> job.attempt, max |-> job.max, wait |-> job.wait]
    BY <1>0, <1>6 DEF LockExpires
  <2>2. job.attempt \in Exec
    BY <1>0, <1>6 DEF LockExpires, JobTyped, JobFits
  <2>3. JobTyped'
    BY <1>0, <2>1, <2>2, ExecNumbers DEF JobTyped, JobFits, JobRow
  <2> QED
    BY <1>6, <2>2, <2>3 DEF LockExpires, execVars, ExecTyped, PlanFits, RunTyped, SetsTyped
<1>7. CASE DeadSweep
  <2>1. job' = [status |-> "dead", attempt |-> job.attempt, max |-> job.max, wait |-> job.wait]
    BY <1>0, <1>7 DEF DeadSweep
  <2>2. JobTyped'
    BY <1>0, <2>1 DEF JobTyped, JobFits, JobRow
  <2> QED BY <1>7, <2>2 DEF DeadSweep, execVars, ExecTyped, PlanFits, RunTyped, SetsTyped
<1>8. CASE RetryFallsDue
  <2>1. job' = [status |-> job.status, attempt |-> job.attempt, max |-> job.max, wait |-> "none"]
    BY <1>0, <1>8 DEF RetryFallsDue
  <2>2. JobTyped'
    BY <1>0, <2>1 DEF JobTyped, JobFits, JobRow
  <2> QED BY <1>8, <2>2 DEF RetryFallsDue, execVars, ExecTyped, PlanFits, RunTyped, SetsTyped
<1>9. CASE BeatStales \/ RequestCancel \/ Resume
  <2>1. RunTyped'
    BY <1>9 DEF BeatStales, RequestCancel, Resume, RunTyped, RunRow, Terminal
  <2> QED
    BY <1>9, <2>1
       DEF BeatStales, RequestCancel, Resume, execVars, ExecTyped, PlanFits, JobTyped, JobFits, SetsTyped
<1> QED BY <1>1, <1>2, <1>3, <1>4, <1>5, <1>6, <1>7, <1>8, <1>9

\* Admission and the claim.
LEMMA ClaimTyped ==
    TypeInv /\ (\E e \in Exec : \/ Admit(e) \/ Drop(e) \/ ClaimRead(e) \/ ClaimLand(e) \/ ClaimRefused(e)
                                \/ \E s \in {"failed", "cancelled"} : EndUnclaimed(e, s))
        => TypeInv'
<1> SUFFICES ASSUME ExecTyped, JobTyped, RunTyped, SetsTyped, NEW e \in Exec,
                    \/ Admit(e) \/ Drop(e) \/ ClaimRead(e) \/ ClaimLand(e) \/ ClaimRefused(e)
                    \/ \E s \in {"failed", "cancelled"} : EndUnclaimed(e, s)
             PROVE  ExecTyped' /\ JobTyped' /\ RunTyped' /\ SetsTyped'
  BY TypeParts, TypePartsNext
<1>1. CASE Admit(e)
  <2>1. CASE Finish(e, "ack") \/ Finish(e, "nack")
    <3>1. ExecTyped' /\ JobTyped'
      BY <2>1, FinishTyped DEF Hows
    <3> QED BY <1>1, <3>1 DEF Admit, RunTyped, SetsTyped
  <2>2. CASE Goto(e, "admitted", "none") /\ UNCHANGED <<fence, job>>
    <3>1. ExecTyped'
      BY <2>2, GotoTyped DEF ExecTyped, Plans
    <3> QED BY <1>1, <2>2, <3>1 DEF Admit, RunTyped, SetsTyped, JobTyped, JobFits
  <2> QED BY <1>1, <2>1, <2>2 DEF Admit
<1>2. CASE ClaimRead(e)
  <2>1. Snapshot \in Plans
    BY DEF Snapshot, Claimable, Plans
  <2>2. ExecTyped'
    BY <1>2, <2>1, GotoTyped DEF ClaimRead, ExecTyped
  <2> QED BY <1>2, <2>2 DEF ClaimRead, RunTyped, SetsTyped, JobTyped, JobFits
<1>3. CASE ClaimLand(e)
  <2>1. fence' \in [Exec -> {"none", "held", "fenced"}]
    BY <1>3 DEF ClaimLand, ExecTyped
  <2>2. ExecTyped'
    BY <1>3, <2>1, GotoTyped DEF ClaimLand, Plans
  <2>3. run' \in RunRow
    BY <1>3 DEF ClaimLand, RunTyped, RunRow
  <2> QED BY <1>3, <2>2, <2>3 DEF ClaimLand, RunTyped, SetsTyped, JobTyped, JobFits
<1>4. CASE ClaimRefused(e) \/ Drop(e)
  <2>1. ExecTyped' /\ JobTyped'
    BY <1>4, FinishTyped DEF ClaimRefused, Drop, Hows
  <2> QED BY <1>4, <2>1 DEF ClaimRefused, Drop, RunTyped, SetsTyped
<1>5. ASSUME NEW s \in {"failed", "cancelled"}, EndUnclaimed(e, s)
      PROVE  ExecTyped' /\ JobTyped' /\ RunTyped' /\ SetsTyped'
  <2>1. ExecTyped' /\ JobTyped'
    BY <1>5, FinishTyped DEF EndUnclaimed, Hows
  <2>2. run' \in RunRow
    BY <1>5 DEF EndUnclaimed, RunTyped, RunRow, Terminal
  <2> QED BY <1>5, <2>1, <2>2, ClearTyped DEF EndUnclaimed, RunTyped, SetsTyped
<1> QED BY <1>1, <1>2, <1>3, <1>4, <1>5

\* What an execution does between its claim and its end.
LEMMA ActsTyped == TypeInv /\ (\E e \in Exec : Acts(e)) => TypeInv'
<1> SUFFICES ASSUME ExecTyped, JobTyped, RunTyped, SetsTyped, NEW e \in Exec, Acts(e)
             PROVE  ExecTyped' /\ JobTyped' /\ RunTyped' /\ SetsTyped'
  BY TypeParts, TypePartsNext
<1>1. ASSUME \E how \in Hows : Finish(e, how) PROVE ExecTyped' /\ JobTyped'
  BY <1>1, FinishTyped
<1>2. ASSUME UNCHANGED job PROVE JobTyped'
  BY <1>2 DEF JobTyped, JobFits
<1>3. ASSUME UNCHANGED <<run, crash>> PROVE RunTyped'
  BY <1>3 DEF RunTyped
<1>4. ASSUME UNCHANGED fence PROVE fence' \in [Exec -> {"none", "held", "fenced"}]
  BY <1>4 DEF ExecTyped
<1>5. CASE Heartbeat(e)
  <2>1. ExecTyped'
    BY <1>5 DEF Heartbeat, ExecTyped, PlanFits
  <2>2. RunTyped'
    BY <1>5 DEF Heartbeat, RunTyped, RunRow
  <2> QED BY <1>2, <1>5, <2>1, <2>2 DEF Heartbeat, SetsTyped
<1>6. CASE Checkpoint(e)
  <2>1. RunTyped'
    BY <1>6 DEF Checkpoint, RunTyped
  <2> QED BY <1>2, <1>6, <2>1 DEF Checkpoint, execVars, ExecTyped, PlanFits, SetsTyped
<1>7. CASE FencedOut(e) \/ StatusRefused(e)
  BY <1>1, <1>3, <1>7 DEF FencedOut, StatusRefused, Hows, SetsTyped
<1>8. CASE LeaveForRetry(e)
  <2>1. ExecTyped'
    BY <1>4, <1>8, GotoTyped DEF LeaveForRetry, StopForRetry, Plans
  <2> QED BY <1>2, <1>3, <1>8, <2>1 DEF LeaveForRetry, StopForRetry, SetsTyped
<1>9. CASE HandBack(e)
  <2>1. plan[e] \in Hows
    BY <1>9 DEF HandBack, ExecTyped, PlanFits, Hows
  <2>2. ExecTyped' /\ JobTyped'
    BY <1>1, <1>9, <2>1 DEF HandBack, Hows
  <2>3. RunTyped'
    BY <1>3, <1>9 DEF HandBack, RunTyped, RunRow
  <2> QED BY <1>9, <2>2, <2>3 DEF HandBack, SetsTyped
<1>10. CASE Commit(e)
  <2>1. RunTyped' /\ SetsTyped'
    BY <1>10 DEF Commit, RunTyped, RunRow, Terminal, SetsTyped
  <2>2. CASE Finish(e, "ack")
    BY <1>1, <2>1, <2>2 DEF Hows
  <2>3. CASE UNCHANGED <<fence, job>> /\ \E q \in Plans : Goto(e, "unsure", q)
    BY <1>2, <1>4, <2>1, <2>3, GotoTyped
  <2> QED BY <1>10, <2>2, <2>3 DEF Commit, Plans
<1>11. CASE ReadBack(e)
  <2>1. RunTyped' /\ SetsTyped'
    BY <1>3, <1>11 DEF ReadBack, SetsTyped
  <2>2. CASE Finish(e, "ack")
    BY <1>1, <2>1, <2>2 DEF Hows
  <2>3. CASE UNCHANGED <<fence, job>> /\ Goto(e, "stopping", "failed")
    BY <1>2, <1>4, <2>1, <2>3, GotoTyped DEF Plans
  <2>4. CASE UNCHANGED <<fence, job>> /\ Goto(e, "handback", "short")
    BY <1>2, <1>4, <2>1, <2>4, GotoTyped DEF Plans
  <2> QED BY <1>11, <2>2, <2>3, <2>4 DEF ReadBack
<1>12. ASSUME NEW s \in {"failed", "cancelled", "waiting"}, Stop(e, s)
       PROVE  ExecTyped' /\ JobTyped' /\ RunTyped' /\ SetsTyped'
  <2>1. ExecTyped'
    BY <1>4, <1>12, GotoTyped DEF Stop, Plans
  <2> QED BY <1>2, <1>3, <1>12, <2>1 DEF Stop, SetsTyped
<1>13. CASE WriteStatus(e)
  <2>1. plan[e] \in {"failed", "cancelled", "waiting"}
    BY <1>13 DEF WriteStatus, ExecTyped, PlanFits
  <2>2. run' \in RunRow
    BY <1>13, <2>1 DEF WriteStatus, RunTyped, RunRow, Terminal
  <2>3. crash' \in Exec \cup {None}
    BY <1>13, ClearTyped DEF WriteStatus, Shed, RunTyped
  <2>4. RunTyped' /\ SetsTyped'
    BY <1>13, <2>2, <2>3 DEF WriteStatus, RunTyped, SetsTyped
  <2>5. CASE Finish(e, "ack") \/ Finish(e, "nack")
    BY <1>1, <2>4, <2>5 DEF Hows
  <2>6. CASE /\ Goto(e, "stopping", "failed")
             /\ fence' = [fence EXCEPT ![e] = IF ReleasedBy(plan[e]) THEN "none" ELSE @]
             /\ UNCHANGED job
    <3>1. fence' \in [Exec -> {"none", "held", "fenced"}]
      BY <2>6 DEF ExecTyped
    <3> QED BY <1>2, <2>4, <2>6, <3>1, GotoTyped DEF Plans
  <2> QED BY <1>13, <2>5, <2>6 DEF WriteStatus
<1>14. CASE StatusFails(e)
  <2>1. CASE Finish(e, "nack")
    BY <1>1, <1>3, <1>14, <2>1 DEF StatusFails, Hows, SetsTyped
  <2>2. CASE Goto(e, "stopping", "failed") /\ UNCHANGED <<fence, job>>
    <3>1. ExecTyped'
      BY <1>4, <2>2, GotoTyped DEF Plans
    <3> QED BY <1>2, <1>3, <1>14, <2>2, <3>1 DEF StatusFails, SetsTyped
  <2> QED BY <1>14, <2>1, <2>2 DEF StatusFails
<1> QED
  BY <1>5, <1>6, <1>7, <1>8, <1>9, <1>10, <1>11, <1>12, <1>13, <1>14 DEF Acts

LEMMA StepTyped == TypeInv /\ [Next]_vars => TypeInv'
<1>1. TypeInv /\ UNCHANGED vars => TypeInv'
  BY DEF vars, execVars, TypeInv, TypeOK, PlanFits, JobFits
<1> QED BY <1>1, OutsideTyped, ClaimTyped, ActsTyped DEF Next

\* Every run, job and execution is well typed: no delivery beyond the attempt
\* budget, no status outside the lifecycle's.
THEOREM TypeCorrect == Spec => []TypeOK
<1>1. Spec => []TypeInv
  BY InitTyped, StepTyped, PTL DEF Spec
<1>2. TypeInv => TypeOK
  BY DEF TypeInv
<1> QED BY <1>1, <1>2, PTL

-----------------------------------------------------------------------------
(* Fencing. *)

\* An execution that has a fence and not the row writes nothing.
LEMMA FencedWritesNothing ==
    ASSUME TypeInv, NEW e \in Exec, fence[e] # "none", ~Holds(e), Acts(e)
    PROVE  UNCHANGED <<run, crash, answered>>
<1>1. fence[e] = "held" \/ fence[e] = "fenced"
  BY DEF TypeInv, TypeOK
<1>2. Fenced(e)
  BY <1>1 DEF Fenced
<1>3. ~CommitHolds(e)
  BY DEF CommitHolds
<1> QED
  BY <1>2, <1>3
     DEF Acts, Heartbeat, Checkpoint, FencedOut, LeaveForRetry, HandBack, Commit, ReadBack,
         Stop, WriteStatus, StatusRefused, StatusFails

\* An execution that was taken over can change neither the run nor the crash
\* state of its successor, whatever fails, expires or comes late.
THEOREM SupersededAreHarmless == Spec => SupersededIsHarmless
<1>1. TypeInv /\ [Next]_vars
        => [\A e \in Exec : fence[e] # "none" /\ ~Holds(e) /\ Acts(e)
                              => UNCHANGED <<run, crash, answered>>]_vars
  BY FencedWritesNothing
<1> QED BY <1>1, InitTyped, StepTyped, PTL DEF Spec, SupersededIsHarmless

-----------------------------------------------------------------------------
(* One claim at a time, one answer: without the window between the claim's  *)
(* snapshot and its row lock.                                               *)

\* An answered run is over and held by nobody, so nothing opens it again.
AnsweredIsShut == answered # {} => run.status \in Terminal /\ run.token = None

\* Only an execution whose claim was answered commits or parks the run.
ClaimFits ==
    \A e \in Exec :
        /\ phase[e] \in {"running", "unsure"} => fence[e] # "none"
        /\ phase[e] = "stopping" /\ plan[e] = "waiting" => fence[e] # "none"

\* A run that was never claimed carries no token.
PendingIsFree == run.status = "pending" => run.token = None

ClaimInv == AnsweredIsShut /\ ClaimFits /\ PendingIsFree /\ OneAnswer

RunShape ==
    /\ run = [status |-> run.status, token |-> run.token, beat |-> run.beat,
              cancel |-> run.cancel]
    /\ run.status \in {"pending", "running", "waiting", "completed", "failed", "cancelled"}
    /\ run.token \in Exec \cup {None}

LEMMA RunHasShape == TypeInv => RunShape
BY DEF TypeInv, TypeOK, RunRow, RunShape, Terminal

\* What a status write that is not refused may write: without a claim, an end.
LEMMA WriterFits ==
    ASSUME TypeInv, ClaimInv, NEW e \in Exec, WriteStatus(e)
    PROVE  \/ fence[e] = "held" /\ Holds(e) /\ answered = {}
           \/ fence[e] = "none" /\ plan[e] \in {"failed", "cancelled"}
<1>1. fence[e] \in {"none", "held"} /\ (fence[e] = "held" => Holds(e))
  BY DEF WriteStatus, Fenced, TypeInv, TypeOK
<1>2. Holds(e) => answered = {}
  BY ExecNumbers DEF Holds, ClaimInv, AnsweredIsShut
<1>3. fence[e] = "none" => plan[e] \in {"failed", "cancelled"}
  BY DEF WriteStatus, ClaimInv, ClaimFits, TypeInv, PlanFits
<1> QED BY <1>1, <1>2, <1>3

\* Every step keeps each execution's phase and fence in agreement.
LEMMA StepFits == TypeInv /\ ClaimInv /\ Next => ClaimFits'
<1> SUFFICES ASSUME TypeInv, ClaimFits, Next PROVE ClaimFits'
  BY DEF ClaimInv
<1> USE DEF ClaimFits
<1>0. /\ phase \in [Exec -> {"new", "delivered", "admitted", "claiming", "running",
                            "unsure", "stopping", "handback", "ended", "dead"}]
      /\ plan \in [Exec -> Plans]
      /\ fence \in [Exec -> {"none", "held", "fenced"}]
  BY DEF TypeInv, TypeOK
<1>1. CASE UNCHANGED execVars
  BY <1>1 DEF execVars
<1>2. ASSUME NEW e \in Exec, NEW how, Finish(e, how) PROVE ClaimFits'
  BY <1>0, <1>2 DEF Finish, Goto
<1>3. ASSUME NEW e \in Exec, NEW p \in {"delivered", "admitted", "claiming", "handback"},
             NEW q, Goto(e, p, q), UNCHANGED fence
      PROVE  ClaimFits'
  BY <1>0, <1>3 DEF Goto
<1>4. ASSUME NEW e \in Exec, Goto(e, "stopping", "failed"),
             \/ UNCHANGED fence
             \/ \E f : fence' = [fence EXCEPT ![e] = f]
      PROVE  ClaimFits'
  BY <1>0, <1>4 DEF Goto
<1>5. ASSUME NEW e \in Exec, ClaimLand(e) PROVE ClaimFits'
  <2>1. CASE Goto(e, "running", "none") /\ fence' = [fence EXCEPT ![e] = "held"]
    BY <1>0, <2>1 DEF Goto
  <2> QED BY <1>4, <1>5, <2>1 DEF ClaimLand
<1>6. ASSUME NEW e \in Exec, Heartbeat(e) PROVE ClaimFits'
  BY <1>0, <1>6 DEF Heartbeat
<1>7. ASSUME NEW e \in Exec, Crash(e) PROVE ClaimFits'
  BY <1>0, <1>7 DEF Crash, Goto
<1>8. ASSUME NEW e \in Exec, Commit(e) PROVE ClaimFits'
  <2>1. ASSUME NEW q, Goto(e, "unsure", q), UNCHANGED fence PROVE ClaimFits'
    BY <1>0, <1>8, <2>1 DEF Commit, Goto
  <2> QED BY <1>2, <1>8, <2>1 DEF Commit
<1>9. ASSUME NEW e \in Exec, NEW s \in {"failed", "cancelled", "waiting"}, Stop(e, s)
      PROVE  ClaimFits'
  BY <1>0, <1>9 DEF Stop, Goto
<1>10. ASSUME NEW e \in Exec,
              \/ Deliver(e) \/ Admit(e) \/ Drop(e) \/ ClaimRead(e) \/ ClaimRefused(e)
              \/ FencedOut(e) \/ LeaveForRetry(e) \/ HandBack(e) \/ StatusRefused(e)
              \/ \E s \in {"failed", "cancelled"} : EndUnclaimed(e, s)
       PROVE  ClaimFits'
  BY <1>2, <1>3, <1>10
     DEF Deliver, Admit, Drop, ClaimRead, ClaimRefused, FencedOut, LeaveForRetry, StopForRetry,
         HandBack, StatusRefused, EndUnclaimed
<1>11. ASSUME NEW e \in Exec, ReadBack(e) \/ WriteStatus(e) \/ StatusFails(e)
       PROVE  ClaimFits'
  BY <1>2, <1>3, <1>4, <1>11 DEF ReadBack, WriteStatus, StatusFails
<1>12. ASSUME NEW e \in Exec, Checkpoint(e) \/ ToolOverruns(e) \/ DrainBegins(e) \/ Abandon(e)
       PROVE  ClaimFits'
  BY <1>1, <1>12 DEF Checkpoint, ToolOverruns, DrainBegins, Abandon
<1>13. CASE \/ LockExpires \/ DeadSweep \/ RetryFallsDue \/ BeatStales
            \/ RequestCancel \/ Resume
  BY <1>1, <1>13 DEF LockExpires, DeadSweep, RetryFallsDue, BeatStales, RequestCancel, Resume
<1> QED
  BY <1>5, <1>6, <1>7, <1>8, <1>9, <1>10, <1>11, <1>12, <1>13 DEF Next, Acts

RowInv == AnsweredIsShut /\ PendingIsFree /\ OneAnswer

\* Every step keeps an answered run shut, and its answer the only one.
LEMMA StepRow ==
    ASSUME "race" \notin Faults, TypeInv, ClaimInv, Next
    PROVE  RowInv'
<1>0. RunShape /\ RowInv
  BY RunHasShape DEF ClaimInv, RowInv
<1> USE <1>0 DEF RunShape, RowInv, AnsweredIsShut, PendingIsFree, OneAnswer, Terminal
<1>1. ASSUME UNCHANGED <<run, answered>> PROVE RowInv'
  BY <1>1
<1>2. ASSUME run.status \notin Terminal, UNCHANGED answered, run'.status # "pending"
      PROVE  RowInv'
  BY <1>2
<1>3. ASSUME NEW e \in Exec, ClaimLand(e) PROVE RowInv'
  <2>1. run.status \in {"pending", "running"}
    BY <1>3 DEF ClaimLand, Prior, Snapshot, Claimable
  <2>2. run'.status = "running"
    BY <1>3 DEF ClaimLand
  <2> QED BY <1>2, <1>3, <2>1, <2>2 DEF ClaimLand
<1>4. ASSUME NEW e \in Exec, NEW s \in {"failed", "cancelled"}, EndUnclaimed(e, s) PROVE RowInv'
  <2>1. run'.status = s /\ run'.token = run.token /\ UNCHANGED answered
    BY <1>4 DEF EndUnclaimed
  <2> QED BY <2>1
<1>5. ASSUME NEW e \in Exec, Heartbeat(e) PROVE RowInv'
  BY <1>5 DEF Heartbeat
<1>6. ASSUME NEW e \in Exec, HandBack(e) PROVE RowInv'
  BY <1>5, <1>6 DEF HandBack
<1>7. ASSUME NEW e \in Exec, Commit(e) PROVE RowInv'
  <2>1. CASE CommitHolds(e) /\ answered' = answered \cup {e}
             /\ run' = [run EXCEPT !.status = "completed", !.token = None, !.beat = "null"]
    <3>1. answered = {}
      BY <2>1, ExecNumbers DEF CommitHolds, Holds
    <3>2. run'.status = "completed" /\ run'.token = None /\ answered' = {e}
      BY <2>1, <3>1
    <3> QED BY <3>2
  <2> QED BY <1>1, <1>7, <2>1 DEF Commit
<1>8. ASSUME NEW e \in Exec, WriteStatus(e) PROVE RowInv'
  <2>1. /\ run'.status = plan[e]
        /\ run'.token \in {run.token, None}
        /\ UNCHANGED answered
    BY <1>8 DEF WriteStatus
  <2>2. plan[e] # "pending"
    BY <1>8 DEF WriteStatus, TypeInv, PlanFits
  <2> QED BY <1>8, <2>1, <2>2, WriterFits
<1>9. CASE BeatStales \/ RequestCancel \/ Resume
  BY <1>9 DEF BeatStales, RequestCancel, Resume
<1>10. ASSUME NEW e \in Exec,
              \/ Deliver(e) \/ Admit(e) \/ Drop(e) \/ ClaimRead(e) \/ ClaimRefused(e) \/ Checkpoint(e)
              \/ ToolOverruns(e) \/ FencedOut(e) \/ DrainBegins(e) \/ Abandon(e)
              \/ LeaveForRetry(e) \/ ReadBack(e) \/ StatusRefused(e) \/ StatusFails(e)
              \/ Crash(e) \/ \E s \in {"failed", "cancelled", "waiting"} : Stop(e, s)
       PROVE  RowInv'
  BY <1>1, <1>10
     DEF Deliver, Admit, Drop, ClaimRead, ClaimRefused, Checkpoint, ToolOverruns, FencedOut,
         DrainBegins, Abandon, LeaveForRetry, ReadBack, StatusRefused, StatusFails, Crash, Stop
<1>11. CASE LockExpires \/ DeadSweep \/ RetryFallsDue
  BY <1>1, <1>11 DEF LockExpires, DeadSweep, RetryFallsDue
<1> QED
  BY <1>3, <1>4, <1>5, <1>6, <1>7, <1>8, <1>9, <1>10, <1>11 DEF Next, Acts

LEMMA InitClaims == Init => ClaimInv
BY DEF Init, ClaimInv, AnsweredIsShut, ClaimFits, PendingIsFree, OneAnswer

LEMMA StepClaims ==
    ASSUME "race" \notin Faults, TypeInv, ClaimInv, [Next]_vars
    PROVE  ClaimInv'
<1>1. CASE Next
  BY <1>1, StepFits, StepRow DEF ClaimInv, RowInv
<1>2. CASE UNCHANGED vars
  BY <1>2
     DEF vars, execVars, ClaimInv, AnsweredIsShut, ClaimFits, PendingIsFree, OneAnswer
<1> QED BY <1>1, <1>2

\* A run is answered once, over all its deliveries, crashes and takeovers.
THEOREM RunIsAnsweredOnce ==
    ASSUME "race" \notin Faults PROVE Spec => []OneAnswer
<1>1. TypeInv /\ ClaimInv /\ [Next]_vars => ClaimInv'
  BY StepClaims
<1>2. ClaimInv => OneAnswer
  BY DEF ClaimInv
<1> QED BY <1>1, <1>2, InitTyped, StepTyped, InitClaims, PTL DEF Spec

\* Only its holder, or the end of the run, takes the claim of an executor whose
\* heartbeat reaches the row.
LEMMA OthersKeepOff ==
    ASSUME "race" \notin Faults, TypeInv, ClaimInv, Next, NEW e \in Exec,
           fence[e] = "held", Holds(e), run.beat = "fresh", ~Acts(e),
           run'.status \notin Terminal
    PROVE  run'.token = e /\ crash' = crash
<1>0. RunShape /\ run.token = e /\ e # None /\ run.status # "pending"
  BY RunHasShape, ExecNumbers DEF Holds, ClaimInv, PendingIsFree
<1> USE <1>0 DEF RunShape
<1>1. ASSUME NEW d \in Exec, ClaimLand(d) PROVE FALSE
  BY <1>1 DEF ClaimLand, Prior, Snapshot, Claimable
<1>2. ASSUME NEW d \in Exec, NEW s \in {"failed", "cancelled"}, EndUnclaimed(d, s) PROVE FALSE
  BY <1>2 DEF EndUnclaimed, Terminal
<1>3. ASSUME NEW d \in Exec, Acts(d) PROVE run'.token = e /\ crash' = crash
  <2>1. ~Holds(d)
    BY <1>3 DEF Holds
  <2>2. CASE fence[d] # "none"
    BY <1>3, <2>1, <2>2, FencedWritesNothing
  <2>3. CASE fence[d] = "none"
    <3>1. ~WriteStatus(d)
      BY <2>3, WriterFits DEF WriteStatus, Terminal
    <3>2. ~Commit(d) \/ UNCHANGED <<run, crash>>
      BY <2>1 DEF Commit, CommitHolds
    <3> QED
      BY <1>3, <2>1, <2>3, <3>1, <3>2
         DEF Acts, Heartbeat, Checkpoint, FencedOut, LeaveForRetry, HandBack, ReadBack,
             Stop, StatusRefused, StatusFails
  <2> QED BY <2>2, <2>3
<1>4. CASE BeatStales \/ RequestCancel \/ Resume
  BY <1>4 DEF BeatStales, RequestCancel, Resume
<1>5. ASSUME NEW d \in Exec,
             \/ Deliver(d) \/ Admit(d) \/ Drop(d) \/ ClaimRead(d) \/ ClaimRefused(d)
             \/ ToolOverruns(d) \/ DrainBegins(d) \/ Abandon(d) \/ Crash(d)
      PROVE  run'.token = e /\ crash' = crash
  BY <1>5 DEF Deliver, Admit, Drop, ClaimRead, ClaimRefused, ToolOverruns, DrainBegins, Abandon, Crash
<1>6. CASE LockExpires \/ DeadSweep \/ RetryFallsDue
  BY <1>6 DEF LockExpires, DeadSweep, RetryFallsDue
<1> QED BY <1>1, <1>2, <1>3, <1>4, <1>5, <1>6 DEF Next

\* A live executor is neither taken over nor robbed of its crash state.
THEOREM HoldersAreUndisturbed ==
    ASSUME "race" \notin Faults PROVE Spec => HolderUndisturbed
<1>1. TypeInv /\ ClaimInv /\ [Next]_vars => ClaimInv'
  BY StepClaims
<1>2. TypeInv /\ ClaimInv /\ [Next]_vars
        => [\A e \in Exec :
               fence[e] = "held" /\ Holds(e) /\ run.beat = "fresh" /\ ~Over
               /\ (run'.token # e \/ crash' # crash)
                 => Acts(e) \/ run'.status \in Terminal]_vars
  BY OthersKeepOff
<1> QED BY <1>1, <1>2, InitTyped, StepTyped, InitClaims, PTL DEF Spec, HolderUndisturbed

-----------------------------------------------------------------------------
(* An answer is final, where nothing writes the run without a claim.        *)

Shut == run.status \in Terminal \cup {"waiting"}

\* A status is written without a fence only after the run was parked, and then
\* it was never answered.
UnfencedIsParked ==
    \A e \in Exec : phase[e] = "stopping" /\ fence[e] = "none" => answered = {} /\ Shut

AnswerInv == AnsweredIsFinal /\ UnfencedIsParked

Fenceless(e) == phase[e] = "stopping" /\ fence[e] = "none"

\* No step that leaves the row and the answers alone, and makes no execution
\* fenceless, disturbs the invariant.
LEMMA AnswerKept ==
    ASSUME AnswerInv, run'.status = run.status \/ (answered = {} /\ (Shut => Shut')),
           answered' = answered, crash' \in {crash, None} \/ answered = {},
           \A d \in Exec : Fenceless(d)' => Fenceless(d)
    PROVE  AnswerInv'
BY DEF AnswerInv, AnsweredIsFinal, UnfencedIsParked, Fenceless, Shut

LEMMA StepAnswer ==
    ASSUME Faults \cap {"race", "refused", "lost claim"} = {}, TypeInv, ClaimInv, AnswerInv, Next
    PROVE  AnswerInv'
<1>0. /\ RunShape
      /\ phase \in [Exec -> {"new", "delivered", "admitted", "claiming", "running",
                            "unsure", "stopping", "handback", "ended", "dead"}]
      /\ plan \in [Exec -> Plans]
      /\ fence \in [Exec -> {"none", "held", "fenced"}]
      /\ "race" \notin Faults /\ "refused" \notin Faults /\ "lost claim" \notin Faults
      /\ \A e \in Exec : Holds(e) => answered = {}
  BY RunHasShape, ExecNumbers DEF TypeInv, TypeOK, ClaimInv, AnsweredIsShut, Holds
<1> USE <1>0 DEF RunShape, Fenceless
<1>1. ASSUME NEW e \in Exec, NEW how, Finish(e, how)
      PROVE  \A d \in Exec : Fenceless(d)' => Fenceless(d)
  BY <1>1 DEF Finish, Goto
<1>2. ASSUME NEW e \in Exec, NEW p, NEW q, Goto(e, p, q), UNCHANGED fence,
             p # "stopping" \/ fence[e] # "none"
      PROVE  \A d \in Exec : Fenceless(d)' => Fenceless(d)
  BY <1>2 DEF Goto
<1>3. ASSUME NEW e \in Exec, ClaimLand(e) PROVE AnswerInv'
  <2>1. run.status \in {"pending", "running"}
    BY <1>3 DEF ClaimLand, Prior, Snapshot, Claimable
  <2>2. answered = {} /\ ~Shut
    BY <2>1 DEF ClaimInv, AnsweredIsShut, Terminal, Shut
  <2>3. \A d \in Exec : Fenceless(d)' => Fenceless(d)
    BY <1>3 DEF ClaimLand, Goto
  <2> QED BY <1>3, <2>2, <2>3, AnswerKept DEF ClaimLand
<1>4. ASSUME NEW e \in Exec, Commit(e) PROVE AnswerInv'
  <2>1. fence[e] # "none"
    BY <1>4 DEF Commit, ClaimInv, ClaimFits
  <2>2. \A d \in Exec : Fenceless(d)' => Fenceless(d)
    BY <1>1, <1>2, <1>4 DEF Commit
  <2>3. CASE UNCHANGED <<run, crash, answered>>
    BY <2>2, <2>3, AnswerKept
  <2>4. CASE CommitHolds(e) /\ crash' = None
             /\ run' = [run EXCEPT !.status = "completed", !.token = None, !.beat = "null"]
    <3>1. \A d \in Exec : ~Fenceless(d)
      BY <2>4 DEF CommitHolds, AnswerInv, UnfencedIsParked, Shut, Terminal
    <3>2. run'.status = "completed"
      BY <2>4
    <3> QED BY <2>2, <2>4, <3>1, <3>2 DEF AnswerInv, AnsweredIsFinal, UnfencedIsParked
  <2> QED BY <1>4, <2>3, <2>4 DEF Commit
<1>5. ASSUME NEW e \in Exec, WriteStatus(e) PROVE AnswerInv'
  <2>1. answered = {} /\ UNCHANGED answered
    BY <1>5, WriterFits DEF WriteStatus, AnswerInv, UnfencedIsParked
  <2>2. Shut'
    BY <1>5 DEF WriteStatus, Shut, Terminal, TypeInv, PlanFits
  <2> QED BY <2>1, <2>2 DEF AnswerInv, AnsweredIsFinal, UnfencedIsParked, Shut
<1>6. ASSUME NEW e \in Exec, HandBack(e) PROVE AnswerInv'
  <2>1. \A d \in Exec : Fenceless(d)' => Fenceless(d)
    BY <1>1, <1>6 DEF HandBack
  <2>2. run'.status = run.status
    BY <1>6 DEF HandBack
  <2> QED BY <1>6, <2>1, <2>2, AnswerKept DEF HandBack
<1>7. ASSUME NEW e \in Exec, Heartbeat(e) PROVE AnswerInv'
  <2>1. \A d \in Exec : Fenceless(d)' => Fenceless(d)
    BY <1>7 DEF Heartbeat
  <2>2. run'.status = run.status
    BY <1>7 DEF Heartbeat
  <2> QED BY <1>7, <2>1, <2>2, AnswerKept DEF Heartbeat
<1>8. ASSUME NEW e \in Exec, Checkpoint(e) PROVE AnswerInv'
  BY <1>8, AnswerKept DEF Checkpoint, execVars
<1>9. ASSUME NEW e \in Exec, ReadBack(e) PROVE AnswerInv'
  <2>1. fence[e] # "none"
    BY <1>9 DEF ReadBack, ClaimInv, ClaimFits
  <2>2. \A d \in Exec : Fenceless(d)' => Fenceless(d)
    BY <1>1, <1>2, <1>9, <2>1 DEF ReadBack
  <2> QED BY <1>9, <2>2, AnswerKept DEF ReadBack
<1>10. ASSUME NEW e \in Exec, NEW s \in {"failed", "cancelled", "waiting"}, Stop(e, s)
       PROVE  AnswerInv'
  <2>1. fence[e] # "none"
    BY <1>10 DEF Stop, ClaimInv, ClaimFits
  <2>2. \A d \in Exec : Fenceless(d)' => Fenceless(d)
    BY <1>2, <1>10, <2>1 DEF Stop
  <2> QED BY <1>10, <2>2, AnswerKept DEF Stop
<1>11. ASSUME NEW e \in Exec, StatusFails(e) PROVE AnswerInv'
  <2>1. \A d \in Exec : Fenceless(d)' => Fenceless(d)
    BY <1>1, <1>11 DEF StatusFails, Goto
  <2> QED BY <1>11, <2>1, AnswerKept DEF StatusFails
<1>12. ASSUME NEW e \in Exec,
              \/ Admit(e) \/ Drop(e) \/ ClaimRead(e) \/ ClaimRefused(e) \/ FencedOut(e) \/ Deliver(e)
              \/ LeaveForRetry(e) \/ StatusRefused(e)
       PROVE  AnswerInv'
  <2>1. \A d \in Exec : Fenceless(d)' => Fenceless(d)
    BY <1>1, <1>2, <1>12
       DEF Admit, Drop, ClaimRead, ClaimRefused, FencedOut, Deliver, LeaveForRetry, StopForRetry,
           StatusRefused
  <2>2. UNCHANGED <<run, crash, answered>>
    BY <1>12
       DEF Admit, Drop, ClaimRead, ClaimRefused, FencedOut, Deliver, LeaveForRetry, StatusRefused
  <2> QED BY <2>1, <2>2, AnswerKept
<1>13. ASSUME NEW e \in Exec, Crash(e) PROVE AnswerInv'
  <2>1. \A d \in Exec : Fenceless(d)' => Fenceless(d)
    BY <1>13 DEF Crash, Goto
  <2> QED BY <1>13, <2>1, AnswerKept DEF Crash
<1>14. ASSUME NEW e \in Exec, ToolOverruns(e) \/ DrainBegins(e) \/ Abandon(e)
       PROVE  AnswerInv'
  BY <1>14, AnswerKept DEF ToolOverruns, DrainBegins, Abandon, execVars
<1>15. CASE LockExpires \/ DeadSweep \/ RetryFallsDue
  BY <1>15, AnswerKept DEF LockExpires, DeadSweep, RetryFallsDue, execVars
<1>16. CASE BeatStales \/ RequestCancel \/ Resume
  <2>1. \A d \in Exec : Fenceless(d)' => Fenceless(d)
    BY <1>16 DEF BeatStales, RequestCancel, Resume, execVars
  <2>2. UNCHANGED <<crash, answered>>
    BY <1>16 DEF BeatStales, RequestCancel, Resume
  <2>3. run'.status = run.status \/ (run.status \in {"pending", "waiting"} /\ Shut')
    BY <1>16 DEF BeatStales, RequestCancel, Resume, Shut, Terminal
  <2>4. run.status \in {"pending", "waiting"} => answered = {}
    BY DEF ClaimInv, AnsweredIsShut, Terminal
  <2> QED BY <2>1, <2>2, <2>3, <2>4, AnswerKept
<1>17. ASSUME NEW e \in Exec, NEW s, EndUnclaimed(e, s) PROVE FALSE
  BY <1>17 DEF EndUnclaimed
<1> QED
  BY <1>3, <1>4, <1>5, <1>6, <1>7, <1>8, <1>9, <1>10, <1>11, <1>12, <1>13, <1>14, <1>15,
     <1>16, <1>17
     DEF Next, Acts

\* A run that was answered stays completed and leaves nothing to resume, although
\* acknowledgements are lost, writes fail and stragglers come late.
THEOREM AnswersAreFinal ==
    ASSUME Faults \cap {"race", "refused", "lost claim"} = {}
    PROVE  Spec => []AnsweredIsFinal
<1>1. TypeInv /\ ClaimInv /\ [Next]_vars => ClaimInv'
  BY StepClaims
<1>2. Init => AnswerInv
  BY DEF Init, AnswerInv, AnsweredIsFinal, UnfencedIsParked
<1>3. TypeInv /\ ClaimInv /\ AnswerInv /\ [Next]_vars => AnswerInv'
  <2>1. AnswerInv /\ UNCHANGED vars => AnswerInv'
    BY DEF vars, execVars, AnswerInv, AnsweredIsFinal, UnfencedIsParked, Shut
  <2> QED BY <2>1, StepAnswer
<1>4. AnswerInv => AnsweredIsFinal
  BY DEF AnswerInv
<1> QED BY <1>1, <1>2, <1>3, <1>4, InitTyped, StepTyped, InitClaims, PTL DEF Spec

-----------------------------------------------------------------------------
(* The queue beneath the executions keeps its contract.                    *)

\* A delivery is numbered ahead of every execution there was.
AheadIsNew == \A e \in Exec : e > job.attempt => phase[e] = "new"

Held(e) == phase[e] \notin {"new", "ended", "dead"}

\* Steps that hand nothing out: an execution is neither started nor revived.
HandsOnlyLetGo ==
    \A e \in Exec : /\ phase'[e] = "new" <=> phase[e] = "new"
                    /\ Gone(e) => phase'[e] \in {"ended", "dead"}

\* What such a step does to the job: nothing the contract sees, or a settle,
\* which acknowledges only a delivery that is in hand.
JobKeptOrSettled ==
    \/ /\ ContractState' = ContractState
       /\ job'.attempt = job.attempt /\ job'.max = job.max
       /\ job'.status = "done" <=> job.status = "done"
    \/ \E e \in Exec, how \in Hows :
          job' = Settled(e, how) /\ (how = "ack" => Held(e))

LEMMA GotoLetsGo ==
    ASSUME TypeInv, NEW e \in Exec, Held(e),
           NEW p \in {"admitted", "claiming", "running", "unsure", "stopping", "handback",
                      "ended", "dead"},
           NEW q, Goto(e, p, q)
    PROVE  HandsOnlyLetGo
BY DEF TypeInv, TypeOK, Held, Goto, Gone, HandsOnlyLetGo

LEMMA SameJob == ASSUME UNCHANGED job PROVE JobKeptOrSettled
BY DEF JobKeptOrSettled, ContractState

LEMMA SamePhase == ASSUME UNCHANGED phase PROVE HandsOnlyLetGo
BY DEF HandsOnlyLetGo, Gone

LEMMA FinishLetsGo ==
    ASSUME TypeInv, NEW e \in Exec, NEW how \in Hows, Held(e), Finish(e, how)
    PROVE  HandsOnlyLetGo /\ JobKeptOrSettled
<1>1. HandsOnlyLetGo
  BY GotoLetsGo DEF Finish
<1>2. JobKeptOrSettled
  BY SameJob DEF Finish, JobKeptOrSettled
<1> QED
  BY <1>1, <1>2

\* Every step but a delivery and the dead sweep is one of those.
LEMMA QuietSteps ==
    TypeInv /\ [Next]_vars =>
        \/ \E e \in Exec : Deliver(e)
        \/ DeadSweep
        \/ HandsOnlyLetGo /\ JobKeptOrSettled
<1> SUFFICES ASSUME TypeInv, [Next]_vars, ~DeadSweep, ~\E e \in Exec : Deliver(e)
             PROVE  HandsOnlyLetGo /\ JobKeptOrSettled
  OBVIOUS
<1>1. CASE LockExpires \/ RetryFallsDue
  <2>1. HandsOnlyLetGo
    BY <1>1, SamePhase DEF LockExpires, RetryFallsDue, execVars
  <2>2. job \in JobRow
    BY DEF TypeInv, TypeOK
  <2>3. /\ job'.attempt = job.attempt /\ job'.max = job.max
        /\ \/ job'.status = job.status
           \/ job'.status = "expired" /\ job.status = "leased"
    BY <1>1, <2>2 DEF LockExpires, RetryFallsDue, JobRow
  <2> QED
    BY <2>1, <2>3 DEF JobKeptOrSettled, ContractState
<1>2. ASSUME NEW e \in Exec, Admit(e) PROVE HandsOnlyLetGo /\ JobKeptOrSettled
  BY <1>2, FinishLetsGo, GotoLetsGo, SameJob DEF Admit, Held, Hows
<1>3. ASSUME NEW e \in Exec, NEW s \in {"failed", "cancelled"}, EndUnclaimed(e, s)
      PROVE  HandsOnlyLetGo /\ JobKeptOrSettled
  BY <1>3, FinishLetsGo DEF EndUnclaimed, Held, Hows
<1>4. ASSUME NEW e \in Exec, Drop(e) \/ ClaimRead(e) \/ ClaimLand(e) \/ ClaimRefused(e)
      PROVE  HandsOnlyLetGo /\ JobKeptOrSettled
  BY <1>4, FinishLetsGo, GotoLetsGo, SameJob DEF Drop, ClaimRead, ClaimLand, ClaimRefused, Held, Hows
<1>5. ASSUME NEW e \in Exec, Acts(e) PROVE HandsOnlyLetGo /\ JobKeptOrSettled
  <2>1. CASE Heartbeat(e) \/ Checkpoint(e)
    BY <2>1, SameJob, SamePhase DEF Heartbeat, Checkpoint, execVars
  <2>2. CASE FencedOut(e) \/ StatusRefused(e)
    BY <2>2, FinishLetsGo DEF FencedOut, StatusRefused, Held, Hows
  <2>3. CASE LeaveForRetry(e)
    BY <2>3, GotoLetsGo, SameJob DEF LeaveForRetry, StopForRetry, Held
  <2>4. CASE HandBack(e)
    <3>1. plan[e] \in Hows /\ plan[e] # "ack"
      BY <2>4 DEF HandBack, TypeInv, PlanFits, Hows
    <3> QED
      BY <2>4, <3>1, FinishLetsGo DEF HandBack, Held, Hows
  <2>5. CASE Commit(e)
    BY <2>5, FinishLetsGo, GotoLetsGo, SameJob DEF Commit, Held, Hows
  <2>6. CASE ReadBack(e)
    BY <2>6, FinishLetsGo, GotoLetsGo, SameJob DEF ReadBack, Held, Hows
  <2>7. ASSUME NEW s \in {"failed", "cancelled", "waiting"}, Stop(e, s)
        PROVE  HandsOnlyLetGo /\ JobKeptOrSettled
    BY <2>7, GotoLetsGo, SameJob DEF Stop, Held
  <2>8. CASE WriteStatus(e)
    BY <2>8, FinishLetsGo, GotoLetsGo, SameJob DEF WriteStatus, Held, Hows
  <2>9. CASE StatusFails(e)
    BY <2>9, FinishLetsGo, GotoLetsGo, SameJob DEF StatusFails, Held, Hows
  <2> QED
    BY <1>5, <2>1, <2>2, <2>3, <2>4, <2>5, <2>6, <2>7, <2>8, <2>9 DEF Acts
<1>6. ASSUME NEW e \in Exec, ToolOverruns(e) \/ DrainBegins(e)
      PROVE  HandsOnlyLetGo /\ JobKeptOrSettled
  BY <1>6, SameJob, SamePhase DEF ToolOverruns, DrainBegins, execVars
<1>7. ASSUME NEW e \in Exec, Abandon(e) PROVE HandsOnlyLetGo /\ JobKeptOrSettled
  BY <1>7, SamePhase DEF Abandon, execVars, JobKeptOrSettled, Hows
<1>8. ASSUME NEW e \in Exec, Crash(e) PROVE HandsOnlyLetGo /\ JobKeptOrSettled
  BY <1>8, GotoLetsGo, SameJob DEF Crash, Held, Gone
<1>9. CASE BeatStales \/ RequestCancel \/ Resume \/ UNCHANGED vars
  BY <1>9, SameJob, SamePhase DEF BeatStales, RequestCancel, Resume, execVars, vars
<1> QED
  BY <1>1, <1>2, <1>3, <1>4, <1>5, <1>6, <1>7, <1>8, <1>9 DEF Next

\* A settle leaves the numbers alone but for the attempt it grants.
LEMMA SettledNumbers ==
    ASSUME JobTyped, NEW e \in Exec, NEW how \in Hows
    PROVE  Settled(e, how).attempt = job.attempt
<1>1. JobShape
  BY JobHasShape
<1> QED
  BY <1>1 DEF Settled, Hows, JobShape, JobTyped, JobRow

\* AheadIsNew is inductive.
LEMMA StepAhead == TypeInv /\ AheadIsNew /\ [Next]_vars => AheadIsNew'
<1> SUFFICES ASSUME TypeInv, AheadIsNew, [Next]_vars PROVE AheadIsNew'
  OBVIOUS
<1>0. JobTyped /\ job.attempt \in Nat
  BY TypeParts, JobHasShape, ExecNumbers DEF JobShape, None
<1>1. ASSUME NEW e \in Exec, Deliver(e) PROVE AheadIsNew'
  <2>1. job'.attempt = job.attempt + 1 /\ e = job.attempt + 1
    BY <1>0, <1>1 DEF Deliver, JobTyped, JobRow
  <2>2. \A d \in Exec : d # e => phase'[d] = phase[d]
    BY <1>1 DEF Deliver, Goto, TypeInv, TypeOK
  <2> QED
    BY <1>0, <2>1, <2>2, ExecNumbers DEF AheadIsNew
<1>2. CASE DeadSweep
  BY <1>0, <1>2 DEF DeadSweep, execVars, AheadIsNew, JobTyped, JobRow
<1>3. CASE HandsOnlyLetGo /\ JobKeptOrSettled
  <2>1. job'.attempt = job.attempt
    BY <1>0, <1>3, SettledNumbers DEF JobKeptOrSettled
  <2> QED
    BY <1>3, <2>1 DEF AheadIsNew, HandsOnlyLetGo
<1> QED
  BY <1>1, <1>2, <1>3, QuietSteps

\* Deliveries in hand, as the contract has them.
LEMMA Hands ==
    ASSUME NEW e \in Exec
    PROVE  /\ Held(e) => InHand[e] = Delivery(e)
           /\ ~Held(e) => InHand[e] = NoDelivery
           /\ Delivery(e) # NoDelivery
BY ExecNumbers DEF InHand, Held, Gone, Delivery, NoDelivery, None

\* The step's settle is one of the contract's, if it is seen at all.
LEMMA SettleInContract ==
    ASSUME TypeInv, TypeInv', JobKeptOrSettled
    PROVE  /\ ContractJob' = ContractJob \/ Contract!Settle(RunExecute)
           /\ Completed \subseteq Completed'
           /\ Completed' \subseteq Completed \cup Contract!Held
<1> DEFINE view(state, allowance) ==
             [state |-> state, delivery |-> job.attempt, allowance |-> allowance]
<1>0. JobShape /\ JobTyped /\ job.attempt \in Nat
  BY TypeParts, JobHasShape, ExecNumbers DEF JobShape, None
<1>1. CASE /\ ContractState' = ContractState
           /\ job'.attempt = job.attempt /\ job'.max = job.max
           /\ job'.status = "done" <=> job.status = "done"
  BY <1>1 DEF ContractJob, Completed, Delivery
<1>2. ASSUME NEW e \in Exec, NEW how \in Hows, job' = Settled(e, how), how = "ack" => Held(e)
      PROVE  /\ ContractJob' = ContractJob \/ Contract!Settle(RunExecute)
             /\ Completed \subseteq Completed'
             /\ Completed' \subseteq Completed \cup Contract!Held
  <2>1. CASE job.attempt # e \/ job.status \notin {"leased", "expired"}
    <3>1. job' = job
      BY <1>2, <2>1 DEF Settled
    <3> QED
      BY <3>1 DEF ContractJob, ContractState, Completed, Delivery
  <2>2. CASE job.attempt = e /\ job.status \in {"leased", "expired"}
    <3>1. ContractJob = [j \in {RunExecute} |-> view("out", job.max)] /\ Completed = {}
      BY <2>2 DEF ContractJob, ContractState, Completed
    <3>2. CASE how = "ack"
      <4>1. job'.status = "done" /\ job'.attempt = job.attempt /\ job'.max = job.max
        BY <1>0, <1>2, <2>2, <3>2 DEF Settled, JobShape
      <4>2. ContractJob' = [j \in {RunExecute} |-> view("done", job.max)]
            /\ Completed' = {Delivery(e)}
        BY <2>2, <4>1 DEF ContractJob, ContractState, Completed, Delivery
      <4>3. Delivery(e) \in Contract!Held
        BY <1>2, <3>2, Hands DEF Contract!Held
      <4>4. Contract!Last(RunExecute) = Delivery(e)
        BY <2>2, <3>1 DEF Contract!Last, Delivery
      <4>5. Contract!Settle(RunExecute)
        BY <3>1, <4>2, <4>4 DEF Contract!Settle, Contract!Becomes
      <4> QED
        BY <3>1, <4>2, <4>3, <4>5
    <3>3. CASE how = "nack" /\ job.attempt >= job.max
      <4>1. job'.status = "dead" /\ job'.attempt = job.attempt /\ job'.max = job.max
        BY <1>0, <1>2, <2>2, <3>3 DEF Settled, JobShape
      <4>2. ContractJob' = [j \in {RunExecute} |-> view("dead", job.max)] /\ Completed' = {}
        BY <4>1 DEF ContractJob, ContractState, Completed
      <4>3. Contract!Settle(RunExecute)
        BY <3>1, <3>3, <4>2 DEF Contract!Settle, Contract!Becomes, Contract!Spent
      <4> QED
        BY <3>1, <4>2, <4>3
    <3>4. CASE how = "nack" /\ ~(job.attempt >= job.max)
      <4>1. job'.status = "queued" /\ job'.attempt = job.attempt /\ job'.max = job.max
        BY <1>0, <1>2, <2>2, <3>4 DEF Settled, JobShape
      <4>2. ContractJob' = [j \in {RunExecute} |-> view("waiting", job.max)] /\ Completed' = {}
        BY <4>1 DEF ContractJob, ContractState, Completed
      <4>3. Contract!Settle(RunExecute)
        BY <3>1, <3>4, <4>2 DEF Contract!Settle, Contract!Becomes, Contract!Spent
      <4> QED
        BY <3>1, <4>2, <4>3
    <3>5. CASE how \in {"short", "takeover"}
      <4>1. job' = [job EXCEPT !.status = "queued", !.max = @ + 1, !.wait = how]
        BY <1>2, <2>2, <3>5 DEF Settled
      <4>2. job'.status = "queued" /\ job'.attempt = job.attempt /\ job'.max = job.max + 1
        BY <1>0, <4>1 DEF JobShape
      <4>3. ContractJob' = [j \in {RunExecute} |-> view("waiting", job.max + 1)] /\ Completed' = {}
        BY <4>2 DEF ContractJob, ContractState, Completed
      <4>4. Contract!Settle(RunExecute)
        BY <3>1, <4>3 DEF Contract!Settle, Contract!Becomes
      <4> QED
        BY <3>1, <4>3, <4>4
    <3> QED
      BY <1>2, <3>2, <3>3, <3>4, <3>5 DEF Hows
  <2> QED
    BY <2>1, <2>2
<1> QED
  BY <1>1, <1>2 DEF JobKeptOrSettled

\* Every step is a step of the contract, or not seen in it.
LEMMA StepContract ==
    TypeInv /\ AheadIsNew /\ [Next]_vars => [Contract!Next]_(Contract!contractVars)
<1> SUFFICES ASSUME TypeInv, AheadIsNew, [Next]_vars PROVE Contract!Next
  OBVIOUS
<1>0. JobShape /\ JobTyped /\ JobFits /\ job.attempt \in Nat
  BY TypeParts, JobHasShape, ExecNumbers DEF JobShape, None, TypeInv
<1>1. ASSUME NEW e \in Exec, Deliver(e) PROVE Contract!Next
  <2>1. phase[e] = "new" /\ ~Held(e)
    BY <1>0, <1>1, ExecNumbers DEF Deliver, AheadIsNew, Held
  <2>2. /\ job.status \in {"queued", "expired"} /\ ~(job.attempt >= job.max)
        /\ job'.status = "leased" /\ job'.attempt = job.attempt + 1 /\ job'.max = job.max
        /\ e = job.attempt + 1
    BY <1>0, <1>1 DEF Deliver, Deliverable, JobFits, JobShape
  <2>3. /\ ContractJob[RunExecute].state \in {"waiting", "out"}
        /\ ContractJob[RunExecute].delivery = job.attempt
        /\ ~Contract!Spent(RunExecute)
    BY <2>2 DEF ContractJob, ContractState, Contract!Spent
  <2>4. ContractJob' = [ContractJob EXCEPT ![RunExecute].state = "out", ![RunExecute].delivery = @ + 1]
    BY <2>2 DEF ContractJob, ContractState
  <2>5. phase'[e] = "delivered" /\ \A d \in Exec : d # e => phase'[d] = phase[d]
    BY <1>1 DEF Deliver, Goto, TypeInv, TypeOK
  <2>6. InHand' = [InHand EXCEPT ![e] = [job |-> RunExecute, attempt |-> ContractJob[RunExecute].delivery + 1]]
    BY <2>2, <2>3, <2>5 DEF InHand, Gone, Delivery, NoDelivery
  <2>7. Completed' = Completed
    BY <2>2 DEF Completed
  <2>8. Contract!Deliver(e, RunExecute)
    BY <2>1, <2>3, <2>4, <2>6, <2>7, Hands DEF Contract!Deliver
  <2> QED
    BY <2>8 DEF Contract!Next
<1>2. CASE DeadSweep
  <2>1. /\ job.status = "expired" /\ job.attempt >= job.max
        /\ job'.status = "dead" /\ job'.attempt = job.attempt /\ job'.max = job.max
        /\ UNCHANGED phase
    BY <1>0, <1>2 DEF DeadSweep, execVars, JobShape
  <2>2. ContractJob[RunExecute].state = "out" /\ Contract!Spent(RunExecute)
    BY <2>1 DEF ContractJob, ContractState, Contract!Spent
  <2>3. ContractJob' = [j \in {RunExecute} |-> [ContractJob[j] EXCEPT !.state = "dead"]]
    BY <2>1 DEF ContractJob, ContractState
  <2>4. UNCHANGED <<InHand, Completed>>
    BY <2>1 DEF InHand, Gone, Completed, Delivery, NoDelivery
  <2>5. Contract!GiveUp({RunExecute})
    BY <2>2, <2>3, <2>4 DEF Contract!GiveUp
  <2> QED
    BY <2>5 DEF Contract!Next
<1>3. CASE HandsOnlyLetGo /\ JobKeptOrSettled
  <2>1. \A e \in Exec : InHand'[e] \in {InHand[e], NoDelivery}
    BY <1>3 DEF HandsOnlyLetGo, InHand, Gone, Delivery, NoDelivery
  <2>2. InHand' \in [Exec -> Contract!Held \cup {NoDelivery}]
    BY <2>1 DEF InHand, Contract!Held
  <2>3. TypeInv'
    BY StepTyped
  <2>4. Contract!LetGo
    BY <1>3, <2>1, <2>2, <2>3, SettleInContract DEF Contract!LetGo
  <2> QED
    BY <2>4 DEF Contract!Next
<1> QED
  BY <1>1, <1>2, <1>3, QuietSteps

\* The initial states are initial in the contract, with the job submitted.
LEMMA InitContract == Init => Contract!Init /\ AheadIsNew
BY DEF Init, Contract!Init, Contract!Submitted, ContractJob, ContractState, InHand, Gone, Completed,
   AheadIsNew

\* Whatever goes wrong, the job row assumed beneath the executions does nothing
\* that the queue's contract forbids.  (The converse is not claimed: the row
\* assumes times the contract is silent about.)
LEMMA ExecutionsKeepContract == Spec => ImplementsContract
<1>1. Spec => [](TypeInv /\ AheadIsNew)
  BY InitTyped, StepTyped, InitContract, StepAhead, PTL DEF Spec
<1>2. Spec => [][Contract!Next]_(Contract!contractVars)
  BY <1>1, StepContract, PTL DEF Spec
<1>3. Spec => Contract!Init
  BY InitContract DEF Spec
<1> QED
  BY <1>2, <1>3 DEF ImplementsContract, Contract!Spec

-----------------------------------------------------------------------------
(* No run is orphaned, for any number of deliveries where the queue gives  *)
(* the job to one handler at a time (it neither loses a lock under a       *)
(* working handler nor nacks the job under it), a claim reads the row it   *)
(* writes, a status write does not fail, and no attempt drops the run      *)
(* before its claim; processes crash, replies and cleanups are lost,       *)
(* settles are lost, and tool calls outlive their run.                     *)

Orderly == Faults \cap {"race", "abandon", "lock lost", "write fails", "dropped"} = {}

OpenRun == run.status \in {"pending", "running"}

\* Where an execution stands after its claim landed and before it settles.
Claimed == {"running", "unsure", "stopping", "handback"}

\* One handler at a time: the delivery the job is leased to.
SoleHandler == \A e \in Exec : Held(e) => e = job.attempt /\ job.status = "leased"

\* A live heartbeat is that of the last delivery, and the job does not come back
\* while it lasts.
BeatFits ==
    /\ run.token \in Exec /\ run.token = job.attempt
    /\ phase[run.token] \in Claimed \cup {"ended", "dead"}
    /\ \/ job.status \in {"leased", "dead"}
       \/ job.status = "queued" /\ job.wait = "takeover"

\* An open run was not acknowledged; whoever claimed it holds it, and knows so.
OpenFits ==
    /\ job.status # "done"
    /\ \A e \in Exec : phase[e] \in Claimed => Holds(e) /\ run.status = "running"
    /\ \A e \in Exec : fence[e] # "fenced" /\ (phase[e] = "unsure" => plan[e] # "fenced")
    /\ run.beat = "fresh" => BeatFits

WorkInv == TypeInv /\ SoleHandler /\ (OpenRun => OpenFits)

ExecShape ==
    /\ phase \in [Exec -> {"new", "delivered", "admitted", "claiming", "running",
                           "unsure", "stopping", "handback", "ended", "dead"}]
    /\ plan \in [Exec -> Plans]
    /\ fence \in [Exec -> {"none", "held", "fenced"}]

LEMMA Shapes ==
    TypeInv => /\ RunShape /\ JobShape /\ ExecShape /\ job.attempt \in Nat
               /\ \A e \in Exec : e # None
BY TypeParts, RunHasShape, JobHasShape, ExecNumbers
   DEF TypeInv, TypeOK, ExecShape, JobShape, None

-----------------------------------------------------------------------------
(* One handler at a time. *)

LEMMA MoveKeepsSole ==
    ASSUME TypeInv, SoleHandler, NEW e \in Exec, Held(e), NEW p, NEW q, Goto(e, p, q),
           UNCHANGED job
    PROVE  SoleHandler'
BY Shapes DEF ExecShape, SoleHandler, Held, Goto

\* The handler that settles was the only one.
LEMMA FinishKeepsSole ==
    ASSUME TypeInv, SoleHandler, NEW e \in Exec, Held(e), NEW how, Finish(e, how)
    PROVE  \A d \in Exec : ~Held(d)'
BY Shapes DEF ExecShape, SoleHandler, Held, Finish, Goto

LEMMA StepSole ==
    ASSUME Orderly, TypeInv, SoleHandler, Next
    PROVE  SoleHandler'
<1>0. JobShape /\ ExecShape
  BY Shapes
<1>1. ASSUME NEW e \in Exec, Held(e), NEW how, Finish(e, how) PROVE SoleHandler'
  BY <1>1, FinishKeepsSole DEF SoleHandler
<1>2. ASSUME NEW e \in Exec, Held(e), NEW p, NEW q, Goto(e, p, q), UNCHANGED job
      PROVE  SoleHandler'
  BY <1>2, MoveKeepsSole
<1>3. ASSUME UNCHANGED <<phase, job>> PROVE SoleHandler'
  BY <1>3 DEF SoleHandler, Held
<1>4. ASSUME NEW e \in Exec, Deliver(e) PROVE SoleHandler'
  <2>1. job'.status = "leased" /\ job'.attempt = e /\ job.status # "leased"
    BY <1>0, <1>4 DEF Deliver, Deliverable, JobShape
  <2>2. \A d \in Exec : d # e => phase'[d] = phase[d]
    BY <1>0, <1>4 DEF Deliver, Goto, ExecShape
  <2> QED BY <2>1, <2>2 DEF SoleHandler, Held
<1>5. CASE LockExpires
  <2>1. job.status = "leased" /\ Gone(job.attempt) /\ UNCHANGED phase
    BY <1>5 DEF LockExpires, Orderly, execVars
  <2>2. \A d \in Exec : ~Held(d)
    BY <2>1 DEF SoleHandler, Held, Gone
  <2> QED BY <2>1, <2>2 DEF SoleHandler, Held
<1>6. CASE DeadSweep
  <2>1. job.status = "expired" /\ UNCHANGED phase
    BY <1>6 DEF DeadSweep, execVars
  <2> QED BY <2>1 DEF SoleHandler, Held
<1>7. CASE RetryFallsDue
  <2>1. job'.status = job.status /\ job'.attempt = job.attempt /\ UNCHANGED phase
    BY <1>0, <1>7 DEF RetryFallsDue, execVars, JobShape
  <2> QED BY <2>1 DEF SoleHandler, Held
<1>8. ASSUME NEW e \in Exec,
             \/ Admit(e) \/ Drop(e) \/ ClaimRead(e) \/ ClaimLand(e) \/ ClaimRefused(e)
             \/ \E s \in {"failed", "cancelled"} : EndUnclaimed(e, s)
      PROVE  SoleHandler'
  BY <1>1, <1>2, <1>8
     DEF Admit, Drop, ClaimRead, ClaimLand, ClaimRefused, EndUnclaimed, Held
<1>9. ASSUME NEW e \in Exec, Acts(e) PROVE SoleHandler'
  <2>1. CASE Heartbeat(e) \/ Checkpoint(e)
    BY <1>3, <2>1 DEF Heartbeat, Checkpoint, execVars
  <2>2. CASE \/ FencedOut(e) \/ LeaveForRetry(e) \/ HandBack(e) \/ Commit(e) \/ ReadBack(e)
             \/ \E s \in {"failed", "cancelled", "waiting"} : Stop(e, s)
    BY <1>1, <1>2, <2>2
       DEF FencedOut, LeaveForRetry, StopForRetry, HandBack, Commit, ReadBack, Stop, Held
  <2>3. CASE WriteStatus(e) \/ StatusRefused(e) \/ StatusFails(e)
    BY <1>1, <1>2, <2>3 DEF WriteStatus, StatusRefused, StatusFails, Held
  <2> QED BY <1>9, <2>1, <2>2, <2>3 DEF Acts
<1>10. ASSUME NEW e \in Exec, Crash(e) PROVE SoleHandler'
  BY <1>2, <1>10 DEF Crash, Held, Gone
<1>11. ASSUME NEW e \in Exec, ToolOverruns(e) \/ DrainBegins(e) \/ Abandon(e)
       PROVE  SoleHandler'
  BY <1>3, <1>11 DEF ToolOverruns, DrainBegins, Abandon, Orderly, execVars
<1>12. CASE BeatStales \/ RequestCancel \/ Resume
  BY <1>3, <1>12 DEF BeatStales, RequestCancel, Resume, execVars
<1> QED BY <1>4, <1>5, <1>6, <1>7, <1>8, <1>9, <1>10, <1>11, <1>12 DEF Next

-----------------------------------------------------------------------------
(* A run that is over or parked does not open again. *)

LEMMA NothingReopens ==
    ASSUME Orderly, TypeInv, Next, OpenRun'
    PROVE  OpenRun
<1>0. RunShape
  BY Shapes
<1>1. ASSUME UNCHANGED run PROVE OpenRun
  BY <1>1 DEF OpenRun
<1>2. ASSUME NEW e \in Exec,
             \/ Admit(e) \/ Drop(e) \/ ClaimRead(e) \/ ClaimLand(e) \/ ClaimRefused(e)
             \/ \E s \in {"failed", "cancelled"} : EndUnclaimed(e, s)
      PROVE  OpenRun
  <2>1. CASE ClaimLand(e)
    BY <2>1 DEF ClaimLand, Prior, Snapshot, Claimable, Orderly, OpenRun
  <2>2. ASSUME NEW s \in {"failed", "cancelled"}, EndUnclaimed(e, s) PROVE FALSE
    BY <1>0, <2>2 DEF EndUnclaimed, RunShape, OpenRun
  <2>3. CASE Admit(e) \/ Drop(e) \/ ClaimRead(e) \/ ClaimRefused(e)
    BY <1>1, <2>3 DEF Admit, Drop, ClaimRead, ClaimRefused
  <2> QED BY <1>2, <2>1, <2>2, <2>3
<1>3. ASSUME NEW e \in Exec, Acts(e) PROVE OpenRun
  <2>1. CASE Heartbeat(e) \/ HandBack(e)
    <3>1. run'.status = run.status
      BY <1>0, <2>1 DEF Heartbeat, HandBack, RunShape
    <3> QED BY <3>1 DEF OpenRun
  <2>2. CASE Commit(e)
    <3>1. run'.status = "completed" \/ UNCHANGED run
      BY <1>0, <2>2 DEF Commit, RunShape
    <3> QED BY <3>1 DEF OpenRun
  <2>3. CASE WriteStatus(e)
    <3>1. plan[e] \in {"failed", "cancelled", "waiting"}
      BY <2>3 DEF WriteStatus, TypeInv, PlanFits
    <3>2. run'.status = plan[e]
      BY <1>0, <2>3 DEF WriteStatus, RunShape
    <3> QED BY <3>1, <3>2 DEF OpenRun
  <2>4. CASE \/ Checkpoint(e) \/ FencedOut(e) \/ LeaveForRetry(e) \/ ReadBack(e)
             \/ StatusRefused(e) \/ StatusFails(e)
             \/ \E s \in {"failed", "cancelled", "waiting"} : Stop(e, s)
    BY <1>1, <2>4
       DEF Checkpoint, FencedOut, LeaveForRetry, ReadBack, StatusRefused, StatusFails, Stop
  <2> QED BY <1>3, <2>1, <2>2, <2>3, <2>4 DEF Acts
<1>4. CASE BeatStales \/ RequestCancel \/ Resume
  BY <1>0, <1>4 DEF BeatStales, RequestCancel, Resume, RunShape, OpenRun
<1>5. ASSUME NEW e \in Exec,
             Deliver(e) \/ ToolOverruns(e) \/ DrainBegins(e) \/ Abandon(e) \/ Crash(e)
      PROVE  OpenRun
  BY <1>1, <1>5 DEF Deliver, ToolOverruns, DrainBegins, Abandon, Crash
<1>6. CASE LockExpires \/ DeadSweep \/ RetryFallsDue
  BY <1>1, <1>6 DEF LockExpires, DeadSweep, RetryFallsDue
<1> QED BY <1>2, <1>3, <1>4, <1>5, <1>6 DEF Next

-----------------------------------------------------------------------------
(* An open run fits: by the steps of the queue, of the claim, of the holder.  *)

\* A handler that has not claimed the run finds no live heartbeat.
LEMMA NoBeatBeforeClaim ==
    ASSUME TypeInv, SoleHandler, OpenFits, NEW e \in Exec, Held(e), phase[e] \notin Claimed
    PROVE  run.beat # "fresh"
<1>1. e = job.attempt
  BY DEF SoleHandler
<1> QED BY <1>1 DEF OpenFits, BeatFits, Held

\* The handler moves on, before or after its claim.
LEMMA MoveFits ==
    ASSUME TypeInv, SoleHandler, OpenFits, NEW e \in Exec, Held(e), NEW p, NEW q, Goto(e, p, q),
           UNCHANGED <<run, fence, job>>, p = "unsure" => q # "fenced",
           p \in Claimed => phase[e] \in Claimed,
           phase[e] \in Claimed => p \in Claimed \cup {"ended", "dead"}
    PROVE  OpenFits'
<1>0. ExecShape /\ (\A d \in Exec : d # None)
  BY Shapes
<1>1. /\ phase'[e] = p /\ plan'[e] = q
      /\ \A d \in Exec : d # e => phase'[d] = phase[d] /\ plan'[d] = plan[d]
  BY <1>0 DEF ExecShape, Goto
<1>2. \A d \in Exec : phase'[d] \in Claimed => phase[d] \in Claimed
  BY <1>1
<1>3. \A d \in Exec : phase'[d] \in Claimed => Holds(d)' /\ run'.status = "running"
  BY <1>2 DEF OpenFits, Holds
<1>4. \A d \in Exec : fence'[d] # "fenced" /\ (phase'[d] = "unsure" => plan'[d] # "fenced")
  BY <1>1 DEF OpenFits
<1>5. run'.beat = "fresh" => BeatFits'
  <2> SUFFICES ASSUME run.beat = "fresh" PROVE BeatFits'
    OBVIOUS
  <2>1. BeatFits /\ phase[e] \in Claimed
    BY NoBeatBeforeClaim DEF OpenFits
  <2>2. phase'[run.token] \in Claimed \cup {"ended", "dead"}
    BY <1>1, <2>1 DEF BeatFits
  <2> QED BY <2>1, <2>2 DEF BeatFits
<1> QED BY <1>3, <1>4, <1>5 DEF OpenFits

\* What a settle other than an acknowledgement leaves of the job.
LEMMA SettleOpen ==
    ASSUME TypeInv, NEW e \in Exec, NEW how \in Hows, how # "ack", Finish(e, how),
           job.attempt = e, job.status = "leased"
    PROVE  /\ job'.status \in {"leased", "dead", "queued"} /\ job'.attempt = e
           /\ (how = "takeover" /\ job'.status = "queued") => job'.wait = "takeover"
<1>0. JobShape
  BY Shapes
<1>1. CASE job' = job
  BY <1>1
<1>2. CASE job' = Settled(e, how)
  BY <1>0, <1>2 DEF Settled, Hows, JobShape
<1> QED BY <1>1, <1>2 DEF Finish

\* The handler goes without acknowledging the job, and its heartbeat with it or
\* for as long as the retry waits.
LEMMA LeaveFits ==
    ASSUME TypeInv, SoleHandler, OpenFits, NEW e \in Exec, Held(e), NEW how \in Hows,
           how # "ack", Finish(e, how),
           \/ run'.beat # "fresh"
           \/ how = "takeover" /\ UNCHANGED run
    PROVE  OpenFits'
<1>0. ExecShape
  BY Shapes
<1>1. e = job.attempt /\ job.status = "leased"
  BY DEF SoleHandler
<1>2. /\ job'.status \in {"leased", "dead", "queued"} /\ job'.attempt = e
      /\ (how = "takeover" /\ job'.status = "queued") => job'.wait = "takeover"
  BY <1>1, SettleOpen
<1>3. \A d \in Exec : phase'[d] \notin Claimed
  BY FinishKeepsSole DEF Held, Claimed
<1>4. \A d \in Exec : fence'[d] # "fenced"
  BY <1>0 DEF Finish, OpenFits, ExecShape
<1>5. run'.beat = "fresh" => BeatFits'
  <2> SUFFICES ASSUME run.beat = "fresh", how = "takeover", UNCHANGED run PROVE BeatFits'
    OBVIOUS
  <2>1. run.token = e
    BY <1>1 DEF OpenFits, BeatFits
  <2>2. phase'[e] = "ended"
    BY <1>0 DEF Finish, Goto, ExecShape
  <2> QED BY <1>2, <2>1, <2>2 DEF BeatFits
<1> QED BY <1>2, <1>3, <1>4, <1>5 DEF OpenFits, Claimed

LEMMA QueueFits ==
    ASSUME Orderly, WorkInv, OpenRun,
           \/ \E e \in Exec : Deliver(e)
           \/ LockExpires \/ DeadSweep \/ RetryFallsDue
    PROVE  OpenFits'
<1>0. JobShape /\ ExecShape /\ OpenFits
  BY Shapes DEF WorkInv
<1>1. UNCHANGED <<run, fence>>
  BY DEF Deliver, LockExpires, DeadSweep, RetryFallsDue, execVars
<1>2. ASSUME NEW e \in Exec, Deliver(e) PROVE OpenFits'
  <2>1. run.beat # "fresh"
    BY <1>0, <1>2 DEF Deliver, Deliverable, OpenFits, BeatFits
  <2>2. job'.status = "leased"
    BY <1>0, <1>2 DEF Deliver, JobShape
  <2>3. /\ phase'[e] = "delivered" /\ \A d \in Exec : d # e => phase'[d] = phase[d]
        /\ \A d \in Exec : d # e => plan'[d] = plan[d]
    BY <1>0, <1>2 DEF Deliver, Goto, ExecShape
  <2> QED BY <1>0, <1>1, <2>1, <2>2, <2>3 DEF OpenFits, Holds, Claimed
<1>3. CASE LockExpires
  <2>1. job.status = "leased" /\ OutlivesTakeover /\ UNCHANGED <<phase, plan>>
    BY <1>3 DEF LockExpires, Orderly, execVars
  <2>2. run.beat # "fresh"
    BY <1>0, <2>1 DEF OutlivesTakeover, OpenFits, BeatFits
  <2>3. job'.status = "expired"
    BY <1>0, <1>3 DEF LockExpires, JobShape
  <2> QED BY <1>0, <1>1, <2>1, <2>2, <2>3 DEF OpenFits, Holds
<1>4. CASE DeadSweep
  <2>1. run.beat # "fresh"
    BY <1>0, <1>4 DEF DeadSweep, OpenFits, BeatFits
  <2>2. job'.status = "dead" /\ UNCHANGED <<phase, plan>>
    BY <1>0, <1>4 DEF DeadSweep, execVars, JobShape
  <2> QED BY <1>0, <1>1, <2>1, <2>2 DEF OpenFits, Holds
<1>5. CASE RetryFallsDue
  <2>1. /\ job'.status = job.status /\ job'.attempt = job.attempt
        /\ job.wait # "none" /\ Waited(job.wait) /\ UNCHANGED <<phase, plan>>
    BY <1>0, <1>5 DEF RetryFallsDue, execVars, JobShape
  <2>2. run.beat = "fresh" => job.status \in {"leased", "dead"}
    BY <1>0, <2>1 DEF Waited, OpenFits, BeatFits
  <2> QED BY <1>0, <1>1, <2>1, <2>2 DEF OpenFits, Holds, BeatFits
<1> QED BY <1>2, <1>3, <1>4, <1>5

\* A claim is refused only of a run that is over or parked: nobody else works on
\* an open one.
LEMMA RefusedIsOver ==
    ASSUME Orderly, WorkInv, NEW e \in Exec, ClaimRefused(e)
    PROVE  ~OpenRun
<1> SUFFICES ASSUME OpenRun PROVE FALSE
  OBVIOUS
<1>1. ~Claimable
  BY DEF ClaimRefused, Prior, Snapshot, Orderly, OpenRun
<1>2. run.beat = "fresh"
  BY <1>1 DEF Claimable, OpenRun
<1>3. Held(e) /\ phase[e] \notin Claimed
  BY DEF ClaimRefused, Held, Claimed
<1> QED BY <1>2, <1>3, NoBeatBeforeClaim DEF WorkInv

LEMMA ClaimFitsOpen ==
    ASSUME Orderly, WorkInv, OpenRun, OpenRun', NEW e \in Exec,
           \/ Admit(e) \/ Drop(e) \/ ClaimRead(e) \/ ClaimLand(e) \/ ClaimRefused(e)
           \/ \E s \in {"failed", "cancelled"} : EndUnclaimed(e, s)
    PROVE  OpenFits'
<1>0. RunShape /\ JobShape /\ ExecShape /\ OpenFits /\ SoleHandler /\ TypeInv
  BY Shapes DEF WorkInv
<1>1. Held(e) /\ phase[e] \notin Claimed /\ e = job.attempt /\ job.status = "leased"
  BY <1>0 DEF Admit, Drop, ClaimRead, ClaimLand, ClaimRefused, EndUnclaimed, Held, Claimed, SoleHandler
<1>2. run.beat # "fresh"
  BY <1>0, <1>1, NoBeatBeforeClaim
<1>3. CASE Admit(e)
  <2>1. ~Over /\ UNCHANGED run
    BY <1>3 DEF Admit, Over, OpenRun, Terminal
  <2>2. CASE Finish(e, "nack")
    BY <1>0, <1>1, <1>2, <2>1, <2>2, LeaveFits DEF Hows
  <2>3. CASE Goto(e, "admitted", "none") /\ UNCHANGED <<fence, job>>
    BY <1>0, <1>1, <2>1, <2>3, MoveFits DEF Claimed
  <2> QED BY <1>3, <2>1, <2>2, <2>3 DEF Admit
<1>4. CASE ClaimRead(e)
  BY <1>0, <1>1, <1>4, MoveFits DEF ClaimRead, Claimed
<1>5. CASE ClaimLand(e)
  <2>1. run'.status = "running" /\ run'.token = e
    BY <1>0, <1>5 DEF ClaimLand, RunShape
  <2>2. PICK p \in {"running", "stopping"} : phase'[e] = p
    BY <1>0, <1>5 DEF ClaimLand, Goto, ExecShape
  <2>3. \A d \in Exec : d # e => phase'[d] = phase[d] /\ ~Held(d)
    BY <1>0, <1>1, <1>5 DEF ClaimLand, Goto, ExecShape, SoleHandler
  <2>4. \A d \in Exec : phase'[d] \in Claimed => d = e
    BY <2>3 DEF Held, Claimed
  <2>5. \A d \in Exec : fence'[d] # "fenced"
    BY <1>0, <1>5 DEF ClaimLand, OpenFits, ExecShape
  <2>6. UNCHANGED job
    BY <1>5 DEF ClaimLand
  <2>7. BeatFits'
    BY <1>1, <2>1, <2>2, <2>6 DEF BeatFits, Claimed
  <2>8. \A d \in Exec : phase'[d] # "unsure"
    BY <2>2, <2>4 DEF Claimed
  <2> QED BY <1>1, <2>1, <2>4, <2>5, <2>6, <2>7, <2>8 DEF OpenFits, Holds
<1>6. CASE ClaimRefused(e)
  BY <1>6, RefusedIsOver
<1>7. ASSUME NEW s \in {"failed", "cancelled"}, EndUnclaimed(e, s) PROVE FALSE
  BY <1>0, <1>7 DEF EndUnclaimed, RunShape, OpenRun
<1>8. CASE Drop(e)
  BY <1>8 DEF Drop, Orderly
<1> QED BY <1>3, <1>4, <1>5, <1>6, <1>7, <1>8

LEMMA ActsFit ==
    ASSUME Orderly, WorkInv, OpenRun, OpenRun', NEW e \in Exec, Acts(e)
    PROVE  OpenFits'
<1>0. RunShape /\ JobShape /\ ExecShape /\ OpenFits /\ SoleHandler /\ TypeInv
  BY Shapes DEF WorkInv
<1>1. CASE Checkpoint(e)
  BY <1>0, <1>1 DEF Checkpoint, execVars, OpenFits, BeatFits, Holds
<1>2. CASE ~Checkpoint(e)
  <2>1. phase[e] \in Claimed
    BY <1>2 DEF Acts, Heartbeat, FencedOut, LeaveForRetry, HandBack, Commit, ReadBack, Stop,
       WriteStatus, StatusRefused, StatusFails, Working, Claimed
  <2>2. Held(e) /\ e = job.attempt /\ job.status = "leased"
    BY <1>0, <2>1 DEF Held, Claimed, SoleHandler
  <2>3. Holds(e) /\ run.status = "running" /\ fence[e] # "fenced"
    BY <1>0, <2>1 DEF OpenFits
  <2>4. CASE Heartbeat(e)
    <3>1. /\ run'.token = e /\ run'.status = "running"
          /\ UNCHANGED <<phase, plan, fence, job>>
      BY <1>0, <2>3, <2>4 DEF Heartbeat, RunShape, Holds
    <3>2. BeatFits'
      BY <2>1, <2>2, <3>1 DEF BeatFits
    <3> QED BY <1>0, <2>3, <3>1, <3>2 DEF OpenFits, Holds
  <2>5. CASE FencedOut(e) \/ StatusRefused(e)
    BY <2>3, <2>5 DEF FencedOut, StatusRefused, Fenced
  <2>6. CASE LeaveForRetry(e)
    BY <1>0, <2>1, <2>2, <2>6, MoveFits DEF LeaveForRetry, StopForRetry, Claimed
  <2>7. CASE HandBack(e)
    <3>1. plan[e] \in Hows /\ plan[e] # "ack"
      BY <1>0, <2>7 DEF HandBack, TypeInv, PlanFits, Hows
    <3>2. CASE Finish(e, plan[e]) /\ run'.beat = "null"
      BY <1>0, <2>2, <3>1, <3>2, LeaveFits
    <3>3. CASE Finish(e, "takeover") /\ UNCHANGED run
      BY <1>0, <2>2, <3>3, LeaveFits DEF Hows
    <3> QED BY <1>0, <2>3, <2>7, <3>2, <3>3 DEF HandBack, RunShape
  <2>8. CASE Commit(e)
    <3>1. CommitHolds(e)
      BY <2>3 DEF CommitHolds
    <3>2. run'.status # "completed"
      BY DEF OpenRun
    <3>3. Goto(e, "unsure", "broken") /\ UNCHANGED <<run, fence, job>>
      BY <1>0, <2>8, <3>1, <3>2 DEF Commit, RunShape
    <3> QED BY <1>0, <2>1, <2>2, <3>3, MoveFits DEF Claimed
  <2>9. CASE ReadBack(e)
    <3>1. ~CommittedOnReadBack
      BY <2>3 DEF CommittedOnReadBack
    <3>2. plan[e] # "fenced"
      BY <1>0, <2>9 DEF ReadBack, OpenFits
    <3>3. PICK p \in {"stopping", "handback"}, q \in {"failed", "short"} : Goto(e, p, q)
      BY <2>9, <3>1, <3>2 DEF ReadBack
    <3>4. UNCHANGED <<run, fence, job>>
      BY <2>9, <3>1, <3>2 DEF ReadBack
    <3> QED BY <1>0, <2>1, <2>2, <3>3, <3>4, MoveFits DEF Claimed
  <2>10. ASSUME NEW s \in {"failed", "cancelled", "waiting"}, Stop(e, s) PROVE OpenFits'
    BY <1>0, <2>1, <2>2, <2>10, MoveFits DEF Stop, Claimed
  <2>11. CASE WriteStatus(e)
    <3>1. plan[e] \in {"failed", "cancelled", "waiting"}
      BY <1>0, <2>11 DEF WriteStatus, TypeInv, PlanFits
    <3>2. run'.status = plan[e]
      BY <1>0, <2>11 DEF WriteStatus, RunShape
    <3> QED BY <3>1, <3>2 DEF OpenRun
  <2>12. CASE StatusFails(e)
    BY <2>12 DEF StatusFails, Orderly
  <2> QED BY <1>2, <2>4, <2>5, <2>6, <2>7, <2>8, <2>9, <2>10, <2>11, <2>12 DEF Acts
<1> QED BY <1>1, <1>2

LEMMA OutsideFits ==
    ASSUME Orderly, WorkInv, OpenRun, OpenRun',
           \/ \E e \in Exec : ToolOverruns(e) \/ DrainBegins(e) \/ Abandon(e) \/ Crash(e)
           \/ BeatStales \/ RequestCancel \/ Resume
    PROVE  OpenFits'
<1>0. RunShape /\ JobShape /\ ExecShape /\ OpenFits /\ SoleHandler /\ TypeInv
  BY Shapes DEF WorkInv
<1>1. ASSUME NEW e \in Exec, Crash(e) PROVE OpenFits'
  <2>1. /\ UNCHANGED <<run, job>> /\ phase'[e] = "dead" /\ fence'[e] = "none"
        /\ \A d \in Exec : d # e =>
              phase'[d] = phase[d] /\ plan'[d] = plan[d] /\ fence'[d] = fence[d]
    BY <1>0, <1>1 DEF Crash, Goto, ExecShape
  <2>2. \A d \in Exec : phase'[d] \in Claimed => phase[d] \in Claimed
    BY <2>1 DEF Claimed
  <2>3. BeatFits => BeatFits'
    BY <2>1 DEF BeatFits
  <2>4. \A d \in Exec : fence'[d] # "fenced" /\ (phase'[d] = "unsure" => plan'[d] # "fenced")
    BY <1>0, <2>1 DEF OpenFits
  <2> QED BY <1>0, <2>1, <2>2, <2>3, <2>4 DEF OpenFits, Holds
<1>2. ASSUME UNCHANGED <<job, phase, plan, fence>>, run'.status = run.status,
             run'.token = run.token, run'.beat = "fresh" => run.beat = "fresh"
      PROVE  OpenFits'
  BY <1>0, <1>2 DEF OpenFits, BeatFits, Holds
<1>3. ASSUME NEW e \in Exec, ToolOverruns(e) \/ DrainBegins(e) \/ Abandon(e) PROVE OpenFits'
  BY <1>2, <1>3 DEF ToolOverruns, DrainBegins, Abandon, Orderly, execVars
<1>4. CASE BeatStales \/ RequestCancel \/ Resume
  <2>1. /\ run'.token = run.token /\ (run'.beat = "fresh" => run.beat = "fresh")
        /\ run'.status \in {run.status, "cancelled", "completed"}
    BY <1>0, <1>4 DEF BeatStales, RequestCancel, Resume, RunShape
  <2>2. run'.status = run.status
    BY <2>1 DEF OpenRun
  <2> QED BY <1>2, <1>4, <2>1, <2>2 DEF BeatStales, RequestCancel, Resume, execVars
<1> QED BY <1>1, <1>3, <1>4

-----------------------------------------------------------------------------
LEMMA InitWork == Init => WorkInv
<1> SUFFICES ASSUME Init PROVE SoleHandler /\ OpenFits
  BY InitTyped DEF WorkInv
<1> QED BY DEF Init, SoleHandler, Held, OpenFits, Claimed

LEMMA StepWork ==
    ASSUME Orderly
    PROVE  WorkInv /\ [Next]_vars => WorkInv'
<1> SUFFICES ASSUME WorkInv, [Next]_vars PROVE WorkInv'
  OBVIOUS
<1>0. TypeInv'
  BY StepTyped DEF WorkInv
<1>1. CASE Next
  <2>1. SoleHandler'
    BY <1>1, StepSole DEF WorkInv
  <2>2. ASSUME OpenRun' PROVE OpenFits'
    <3>1. OpenRun
      BY <1>1, <2>2, NothingReopens DEF WorkInv
    <3> QED BY <1>1, <2>2, <3>1, QueueFits, ClaimFitsOpen, ActsFit, OutsideFits DEF Next
  <2> QED BY <1>0, <2>1, <2>2 DEF WorkInv
<1>2. CASE UNCHANGED vars
  <2>1. UNCHANGED <<run, job, phase, plan, fence>>
    BY <1>2 DEF vars, execVars
  <2>2. SoleHandler' /\ (OpenRun' => OpenFits')
    BY <2>1 DEF WorkInv, SoleHandler, Held, OpenRun, OpenFits, BeatFits, Holds
  <2> QED BY <1>0, <2>2 DEF WorkInv
<1> QED BY <1>1, <1>2

\* No run is orphaned, unless an attempt drops its job before the claim (Drop): the
\* job of an open run is never acknowledged away, through crashes at any point,
\* lost claims, lost settles, failed hand-backs, drains and takeovers.  The five-minute lock and the wait of a failed hand-back outlast the
\* takeover window, so no retry meets the heartbeat of an execution that is gone
\* (run-job.ts, lifecycle.ts; packages/queue/src/postgres.ts).
THEOREM OpenRunsHaveWork ==
    ASSUME Orderly PROVE Spec => []OpenRunHasWork
<1>1. WorkInv => OpenRunHasWork
  BY DEF WorkInv, OpenRun, OpenFits, OpenRunHasWork
<1>2. WorkInv /\ [Next]_vars => WorkInv'
  BY StepWork
<1> QED BY <1>1, <1>2, InitWork, PTL DEF Spec

\* A delivery whose claim is refused found the run over or parked: acknowledging
\* the job, as run-job.ts does, gives no work away.
THEOREM RefusalsAreRight ==
    ASSUME Orderly PROVE Spec => RefusalMeansHeldOrOver
<1>1. WorkInv /\ [Next]_vars => WorkInv'
  BY StepWork
<1>2. WorkInv /\ [Next]_vars
        => [\A e \in Exec :
               ClaimRefused(e) /\ run.status \in {"pending", "running"}
                 => \E d \in Exec : Working(d) /\ Holds(d)]_vars
  BY RefusedIsOver DEF OpenRun
<1> QED BY <1>1, <1>2, InitWork, PTL DEF Spec, RefusalMeansHeldOrOver

-----------------------------------------------------------------------------
(* A run keeps its contract with the executions started for it, where no    *)
(* claim decides by a stale snapshot and nothing writes the run without a   *)
(* claim.                                                                   *)

\* How an execution that took the run moves, and one that did not.
LEMMA WorkMoves ==
    ASSUME TypeInv, NEW e \in AtWork,
           NEW p \in {"running", "unsure", "stopping", "handback", "ended", "dead"},
           NEW q, Goto(e, p, q)
    PROVE  Fresh' = Fresh /\ AtWork' \in {AtWork, AtWork \ {e}}
<1>1. e \in Exec /\ phase[e] \in {"running", "unsure", "stopping", "handback"}
  BY DEF AtWork
<1>2. phase' = [phase EXCEPT ![e] = p] /\ phase \in [Exec -> {"new", "delivered", "admitted",
          "claiming", "running", "unsure", "stopping", "handback", "ended", "dead"}]
  BY DEF Goto, TypeInv, TypeOK
<1>3. Fresh' = Fresh
  BY <1>1, <1>2 DEF Fresh
<1>4. CASE p \in {"ended", "dead"}
  <2>1. AtWork' = AtWork \ {e}
    BY <1>1, <1>2, <1>4 DEF AtWork
  <2> QED BY <1>3, <2>1
<1>5. CASE p \notin {"ended", "dead"}
  <2>1. AtWork' = AtWork
    BY <1>1, <1>2, <1>5 DEF AtWork
  <2> QED BY <1>3, <2>1
<1> QED BY <1>4, <1>5

LEMMA FreshMoves ==
    ASSUME TypeInv, NEW e \in Fresh,
           NEW p \in {"delivered", "admitted", "claiming", "ended", "dead"},
           NEW q, Goto(e, p, q)
    PROVE  AtWork' = AtWork /\ Fresh' \in {Fresh, Fresh \ {e}}
<1>1. e \in Exec /\ phase[e] \in {"new", "delivered", "admitted", "claiming"}
  BY DEF Fresh
<1>2. phase' = [phase EXCEPT ![e] = p] /\ phase \in [Exec -> {"new", "delivered", "admitted",
          "claiming", "running", "unsure", "stopping", "handback", "ended", "dead"}]
  BY DEF Goto, TypeInv, TypeOK
<1>3. AtWork' = AtWork
  BY <1>1, <1>2 DEF AtWork
<1>4. CASE p \in {"ended", "dead"}
  <2>1. Fresh' = Fresh \ {e}
    BY <1>1, <1>2, <1>4 DEF Fresh
  <2> QED BY <1>3, <2>1
<1>5. CASE p \notin {"ended", "dead"}
  <2>1. Fresh' = Fresh
    BY <1>1, <1>2, <1>5 DEF Fresh
  <2> QED BY <1>3, <2>1
<1> QED BY <1>4, <1>5

LEMMA OpenOrNot ==
    /\ (~OpenRun => OpenRun = FALSE) /\ (~OpenRun' => OpenRun' = FALSE)
    /\ (OpenRun <=> OpenRun') => OpenRun' = OpenRun
BY DEF OpenRun

\* What the contract shows of the run.
SameView == OpenRun' = OpenRun /\ run'.token = run.token

\* An execution at work that leaves the run alone, or that holds it.
LEMMA ActInContract ==
    ASSUME TypeInv, NEW e \in AtWork,
           NEW p \in {"running", "unsure", "stopping", "handback", "ended", "dead"},
           NEW q, Goto(e, p, q),
           SameView \/ (Holds(e) /\ run'.token \in {e, None} /\ OpenRun' \in {OpenRun, FALSE})
    PROVE  Run!Next
<1>1. Fresh' = Fresh /\ AtWork' \in {AtWork, AtWork \ {e}} /\ e \in Exec
  BY WorkMoves DEF AtWork
<1>2. Run!Act(e)
  BY <1>1 DEF Run!Act, SameView, OpenRun, Holds
<1> QED BY <1>1, <1>2 DEF Run!Next

\* An execution that did not take the run, and leaves it alone.
LEMMA FreshInContract ==
    ASSUME TypeInv, NEW e \in Fresh,
           NEW p \in {"delivered", "admitted", "claiming", "ended", "dead"},
           NEW q, Goto(e, p, q), SameView
    PROVE  [Run!Next]_(Run!contractVars)
<1>1. AtWork' = AtWork /\ Fresh' \in {Fresh, Fresh \ {e}} /\ e \in Exec
  BY FreshMoves DEF Fresh
<1>2. CASE Fresh' = Fresh
  BY <1>1, <1>2 DEF Run!contractVars, SameView, OpenRun
<1>3. CASE Fresh' = Fresh \ {e}
  <2>1. Run!Retire(e)
    BY <1>1, <1>3 DEF Run!Retire, SameView, OpenRun
  <2> QED BY <1>1, <2>1 DEF Run!Next
<1> QED BY <1>1, <1>2, <1>3

LEMMA ActsInContract ==
    ASSUME TypeInv, ClaimInv, UnfencedIsParked, NEW e \in Exec, Acts(e)
    PROVE  [Run!Next]_(Run!contractVars)
<1>0. RunShape
  BY RunHasShape
<1>1. ASSUME NEW p, NEW q, Goto(e, p, q), UNCHANGED run, e \in AtWork,
             p \in {"unsure", "stopping", "handback", "ended"}
      PROVE  Run!Next
  BY <1>1, ActInContract DEF SameView, OpenRun
<1>2. CASE Heartbeat(e)
  BY <1>0, <1>2 DEF Heartbeat, Run!contractVars, Fresh, AtWork, RunShape
<1>3. CASE Checkpoint(e)
  BY <1>3 DEF Checkpoint, execVars, Run!contractVars, Fresh, AtWork
<1>4. CASE FencedOut(e) \/ LeaveForRetry(e) \/ ReadBack(e) \/ StatusRefused(e) \/ StatusFails(e)
           \/ \E s \in {"failed", "cancelled", "waiting"} : Stop(e, s)
  <2>1. e \in AtWork /\ UNCHANGED run
    BY <1>4 DEF FencedOut, LeaveForRetry, ReadBack, StatusRefused, StatusFails, Stop, AtWork
  <2>2. \E p \in {"unsure", "stopping", "handback", "ended"}, q \in Plans : Goto(e, p, q)
    BY <1>4 DEF FencedOut, LeaveForRetry, StopForRetry, ReadBack, StatusRefused, StatusFails,
         Stop, Finish, Plans
  <2> QED BY <1>1, <2>1, <2>2
<1>5. CASE HandBack(e)
  <2>1. e \in AtWork /\ Goto(e, "ended", "none")
    BY <1>5 DEF HandBack, Finish, AtWork
  <2>2. SameView \/ (Holds(e) /\ run'.token \in {e, None} /\ OpenRun' \in {OpenRun, FALSE})
    BY <1>0, <1>5 DEF HandBack, SameView, OpenRun, RunShape
  <2> QED BY <2>1, <2>2, ActInContract
<1>6. CASE Commit(e)
  <2>1. e \in AtWork /\ \E p \in {"unsure", "ended"}, q \in Plans : Goto(e, p, q)
    BY <1>6 DEF Commit, Finish, AtWork, Plans
  <2>2. SameView \/ (Holds(e) /\ run'.token \in {e, None} /\ OpenRun' \in {OpenRun, FALSE})
    <3>1. CASE UNCHANGED run
      BY <3>1 DEF SameView, OpenRun
    <3>2. CASE CommitHolds(e)
               /\ run' = [run EXCEPT !.status = "completed", !.token = None, !.beat = "null"]
      <4>1. run'.token = None /\ OpenRun' = FALSE /\ Holds(e)
        BY <1>0, <3>2 DEF CommitHolds, OpenRun, RunShape
      <4> QED BY <4>1
    <3> QED BY <1>6, <3>1, <3>2 DEF Commit
  <2> QED BY <2>1, <2>2, ActInContract
<1>7. CASE WriteStatus(e)
  <2>1. e \in AtWork /\ \E p \in {"stopping", "ended"}, q \in Plans : Goto(e, p, q)
    BY <1>7 DEF WriteStatus, Finish, AtWork, Plans
  <2>2. plan[e] \in {"failed", "cancelled", "waiting"}
    BY <1>7 DEF WriteStatus, TypeInv, PlanFits
  <2>3. ~OpenRun' /\ run'.token \in {run.token, None}
    BY <1>0, <1>7, <2>2 DEF WriteStatus, OpenRun, RunShape
  <2>4. CASE fence[e] = "held" /\ Holds(e)
    <3>1. run'.token \in {e, None}
      BY <2>3, <2>4 DEF Holds
    <3> QED BY <2>1, <2>3, <2>4, <3>1, ActInContract, OpenOrNot
  <2>5. CASE fence[e] = "none" /\ plan[e] \in {"failed", "cancelled"}
    <3>1. ~OpenRun
      BY <1>7, <2>5 DEF WriteStatus, UnfencedIsParked, Shut, OpenRun, Terminal
    <3>2. run'.token = run.token
      BY <1>0, <1>7, <2>5 DEF WriteStatus, ReleasedBy, RunShape
    <3>3. SameView
      BY <2>3, <3>1, <3>2, OpenOrNot DEF SameView
    <3> QED BY <2>1, <3>3, ActInContract
  <2> QED BY <1>7, <2>4, <2>5, WriterFits
<1> QED BY <1>2, <1>3, <1>4, <1>5, <1>6, <1>7 DEF Acts

LEMMA NewIsDelivered ==
    ASSUME TypeInv, AheadIsNew, NEW e \in Exec, Deliver(e) PROVE phase[e] = "new"
<1>1. job.attempt \in Nat
  BY TypeParts, JobHasShape, ExecNumbers DEF JobShape, None
<1>2. e = job.attempt + 1
  BY DEF Deliver
<1> QED BY <1>1, <1>2, ExecNumbers DEF AheadIsNew

LEMMA StepRunContract ==
    ASSUME Faults \cap {"race", "refused", "lost claim"} = {},
           TypeInv, ClaimInv, UnfencedIsParked, AheadIsNew, [Next]_vars
    PROVE  [Run!Next]_(Run!contractVars)
<1>0. RunShape /\ JobShape /\ "race" \notin Faults /\ "refused" \notin Faults
      /\ "lost claim" \notin Faults
  BY RunHasShape, TypeParts, JobHasShape
<1>1. ASSUME UNCHANGED <<run, phase>> PROVE UNCHANGED Run!contractVars
  BY <1>1 DEF Run!contractVars, Fresh, AtWork
<1>2. ASSUME NEW e \in Exec, Deliver(e) PROVE [Run!Next]_(Run!contractVars)
  <2>1. e \in Fresh
    BY <1>2, NewIsDelivered DEF Fresh
  <2>2. SameView /\ Goto(e, "delivered", "none")
    BY <1>2 DEF Deliver, SameView, OpenRun
  <2> QED BY <2>1, <2>2, FreshInContract
<1>3. ASSUME NEW e \in Exec, Admit(e) \/ Drop(e) \/ ClaimRead(e) \/ ClaimRefused(e)
      PROVE  [Run!Next]_(Run!contractVars)
  <2>1. e \in Fresh /\ SameView
    BY <1>3 DEF Admit, Drop, ClaimRead, ClaimRefused, Fresh, SameView, OpenRun
  <2>2. \E p \in {"admitted", "claiming", "ended"} : \E q : Goto(e, p, q)
    BY <1>3 DEF Admit, Drop, ClaimRead, ClaimRefused, Finish
  <2> QED BY <2>1, <2>2, FreshInContract
<1>4. ASSUME NEW e \in Exec, ClaimLand(e) PROVE Run!Next
  <2>1. OpenRun /\ phase[e] = "claiming"
    BY <1>0, <1>4 DEF ClaimLand, Prior, Snapshot, Claimable, OpenRun
  <2>2. OpenRun' /\ run'.token = e /\ phase' = [phase EXCEPT ![e] = "running"]
    BY <1>0, <1>4 DEF ClaimLand, Goto, OpenRun, RunShape
  <2>3. Fresh' = Fresh \ {e} /\ AtWork' = AtWork \cup {e} /\ e \in Fresh
    BY <2>1, <2>2 DEF TypeInv, TypeOK, Fresh, AtWork
  <2>4. Run!Take(e)
    BY <2>1, <2>2, <2>3 DEF Run!Take, OpenRun
  <2> QED BY <2>4 DEF Run!Next
<1>5. ASSUME NEW e \in Exec, Crash(e) PROVE [Run!Next]_(Run!contractVars)
  <2>1. SameView /\ Goto(e, "dead", "none") /\ e \in Fresh \cup AtWork
    BY <1>5 DEF Crash, SameView, OpenRun, Gone, Fresh, AtWork, TypeInv, TypeOK
  <2> QED BY <2>1, FreshInContract, ActInContract
<1>6. CASE RequestCancel
  <2>1. UNCHANGED <<Fresh, AtWork>> /\ run'.token = run.token
    BY <1>0, <1>6 DEF RequestCancel, execVars, Fresh, AtWork, RunShape
  <2>2. CASE run.status = "pending"
    <3>1. run.token = None /\ ~OpenRun'
      BY <1>0, <1>6, <2>2 DEF RequestCancel, ClaimInv, PendingIsFree, OpenRun, RunShape
    <3>2. Run!Cancel
      BY <2>1, <3>1, OpenOrNot DEF Run!Cancel, OpenRun
    <3> QED BY <3>2 DEF Run!Next
  <2>3. CASE run.status # "pending"
    <3>1. \/ run.status = "waiting" /\ run'.status = "cancelled"
          \/ run'.status = run.status
      BY <1>0, <1>6, <2>3 DEF RequestCancel, RunShape
    <3>2. OpenRun' = OpenRun
      BY <3>1, OpenOrNot DEF OpenRun
    <3> QED BY <2>1, <3>2 DEF Run!contractVars, OpenRun
  <2> QED BY <2>2, <2>3
<1>7. CASE BeatStales \/ Resume
  <2>1. UNCHANGED <<Fresh, AtWork>>
    BY <1>7 DEF BeatStales, Resume, execVars, Fresh, AtWork
  <2>2. /\ run'.token = run.token
        /\ \/ run.status = "waiting" /\ run'.status = "completed"
           \/ run'.status = run.status
    BY <1>0, <1>7 DEF BeatStales, Resume, RunShape
  <2>3. OpenRun' = OpenRun
    BY <2>2, OpenOrNot DEF OpenRun
  <2> QED BY <2>1, <2>2, <2>3 DEF Run!contractVars, OpenRun
<1>8. CASE \/ LockExpires \/ DeadSweep \/ RetryFallsDue \/ UNCHANGED vars
           \/ \E e \in Exec : ToolOverruns(e) \/ DrainBegins(e) \/ Abandon(e)
  BY <1>1, <1>8 DEF LockExpires, DeadSweep, RetryFallsDue, ToolOverruns, DrainBegins, Abandon,
     execVars, vars
<1>9. ASSUME NEW e \in Exec, NEW s \in {"failed", "cancelled"}, EndUnclaimed(e, s) PROVE FALSE
  BY <1>0, <1>9 DEF EndUnclaimed
<1> QED BY <1>2, <1>3, <1>4, <1>5, <1>6, <1>7, <1>8, <1>9, ActsInContract DEF Next

\* A run that ended or was parked is never executed again, each execution takes it
\* at most once, and none that lost it ends it or gives it up - whatever locks,
\* settles and writes are lost, handlers abandoned and retries delayed.
THEOREM RunsKeepContract ==
    ASSUME Faults \cap {"race", "refused", "lost claim"} = {}
    PROVE  Spec => ImplementsRunContract
<1>1. TypeInv /\ ClaimInv /\ [Next]_vars => ClaimInv'
  BY StepClaims
<1>2. Init => AnswerInv /\ Run!Init
  <2> SUFFICES ASSUME Init PROVE AnswerInv /\ Run!Init
    OBVIOUS
  <2>1. AnswerInv
    BY DEF Init, AnswerInv, AnsweredIsFinal, UnfencedIsParked
  <2>2. Fresh = Exec /\ AtWork = {}
    BY DEF Init, Fresh, AtWork
  <2>3. run.token = None /\ OpenRun = TRUE
    BY DEF Init, OpenRun
  <2> QED BY <2>1, <2>2, <2>3 DEF Run!Init, OpenRun
<1>3. TypeInv /\ ClaimInv /\ AnswerInv /\ [Next]_vars => AnswerInv'
  <2>1. AnswerInv /\ UNCHANGED vars => AnswerInv'
    BY DEF vars, execVars, AnswerInv, AnsweredIsFinal, UnfencedIsParked, Shut
  <2> QED BY <2>1, StepAnswer
<1>4. TypeInv /\ ClaimInv /\ AnswerInv /\ AheadIsNew /\ [Next]_vars
        => [Run!Next]_(Run!contractVars)
  BY StepRunContract DEF AnswerInv
<1>5. Spec => [](TypeInv /\ ClaimInv /\ AnswerInv /\ AheadIsNew)
  BY <1>1, <1>2, <1>3, InitTyped, StepTyped, InitClaims, InitContract, StepAhead, PTL DEF Spec
<1>6. Spec => [][Run!Next]_(Run!contractVars)
  BY <1>4, <1>5, PTL DEF Spec
<1>7. Spec => Run!Init
  BY <1>2 DEF Spec
<1> QED
  BY <1>6, <1>7 DEF ImplementsRunContract, Run!Spec

\* What the contract is kept for: a run that ended or was parked stays so, and who
\* takes an open run never took it before, so that an execution which lost its run
\* does not come back to it (lifecycle.ts, updateRunStatus: "no executor ever claims
\* this row again").
THEOREM NobodyComesBack ==
    ASSUME Faults \cap {"race", "refused", "lost claim"} = {}
    PROVE  Spec => [][/\ OpenRun' => OpenRun
                      /\ run'.token \notin {run.token, None}
                            => OpenRun /\ run'.token \in Fresh \ Fresh']_vars
<1>1. ASSUME Run!Next
      PROVE  /\ OpenRun' => OpenRun
             /\ run'.token \notin {run.token, None} => OpenRun /\ run'.token \in Fresh \ Fresh'
  <2>1. ASSUME NEW e \in Exec, Run!Take(e)
        PROVE  OpenRun /\ run'.token = e /\ e \in Fresh /\ Fresh' = Fresh \ {e}
    BY <2>1 DEF Run!Take, OpenRun
  <2>2. ASSUME NEW e \in Exec, Run!Act(e)
        PROVE  (OpenRun' => OpenRun) /\ run'.token \in {run.token, None}
    BY <2>2 DEF Run!Act, OpenRun
  <2>3. CASE (\E e \in Exec : Run!Retire(e)) \/ Run!Cancel
    BY <2>3 DEF Run!Retire, Run!Cancel, OpenRun
  <2> QED BY <1>1, <2>1, <2>2, <2>3 DEF Run!Next
<1>2. ASSUME UNCHANGED Run!contractVars
      PROVE  (OpenRun' => OpenRun) /\ run'.token = run.token
  BY <1>2 DEF Run!contractVars, OpenRun
<1>3. [Run!Next]_(Run!contractVars)
        => [/\ OpenRun' => OpenRun
            /\ run'.token \notin {run.token, None}
                  => OpenRun /\ run'.token \in Fresh \ Fresh']_vars
  BY <1>1, <1>2
<1> QED BY <1>3, RunsKeepContract, PTL DEF ImplementsRunContract, Run!Spec
=============================================================================
