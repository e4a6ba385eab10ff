---------------------------- MODULE RunExecution ----------------------------
(***************************************************************************)
(* One agent run, executed by whichever worker its run.execute job is      *)
(* delivered to: worker/src/run/execute (lifecycle.ts, run-job.ts,         *)
(* completion-commit.ts, crash-checkpoint.ts, run-failure-path.ts).        *)
(*                                                                         *)
(* An execution is one delivery of the job.  The queue numbers deliveries  *)
(* (module JobQueue shows that no two carry the same number), and an       *)
(* execution claims the run at most once, so its delivery number stands    *)
(* for the fencing token it mints.  Statements are atomic except the claim *)
(* of the run, whose snapshot and row lock are two steps.                  *)
(***************************************************************************)
EXTENDS Naturals

CONSTANTS
    MaxAttempts,    \* max_attempts of the run.execute job
    MaxRetryAfter,  \* bound: QueueRetryAfterErrors that reach the queue
    Faults          \* what may go wrong in this instance, see Fault

Fault == {
    "race",        \* a claim waits for the row lock of another writer
    "lost claim",  \* the claim lands, its reply does not
    "refused",     \* admission ends the run before it is claimed
    "dropped",     \* the job of an unclaimed run is acknowledged, the run left
    "abandon",     \* a handler outlives the drain deadline
    "lock lost",   \* a job's lock expires under a working handler
    "write fails", \* a status write or a write after it fails
    "straggler",   \* a tool call outlives its timeout, and the loop
    "uncleaned"}   \* a best-effort cleanup fails

ASSUME RunBoundsAssumption == MaxAttempts \in Nat \ {0} /\ MaxRetryAfter \in Nat
ASSUME FaultsAssumption == Faults \subseteq Fault

Exec == 1..(MaxAttempts + MaxRetryAfter)
None == 0    \* no token, no writer

VARIABLES
    run,       \* the runs row
    crash,     \* the executor whose crash state run_checkpoints carries
    job,       \* the run.execute job, as the queue's contract shows it
    phase,     \* where each execution stands
    plan,      \* what a stopping or retrying execution is about to do
    fence,     \* executorFence: the claim each execution believes it holds
    signal,    \* executions whose AbortSignal fired
    overrun,   \* executions with a tool call that outlived its timeout
    answered   \* history: executions whose success transaction committed

execVars == <<phase, plan, fence>>
vars == <<run, crash, job, execVars, signal, overrun, answered>>

-----------------------------------------------------------------------------
Terminal == {"completed", "failed", "cancelled"}

RunRow == [status : {"pending", "running", "waiting"} \cup Terminal,
           token : Exec \cup {None},               \* executor_token
           beat : {"null", "fresh", "stale"},      \* executor_heartbeat_at
           cancel : BOOLEAN]                       \* cancel_requested_at

JobRow == [status : {"queued", "leased", "expired", "done", "dead"},
           attempt : Exec \cup {None},
           max : Nat,
           wait : {"none", "short", "takeover"}]   \* enqueued_at in the future

Plans == {"none", "pending", "running",            \* prior_status, while claiming
          "failed", "cancelled", "waiting",        \* the status to write
          "nack", "short",                         \* how to retry
          "fenced", "broken"}                      \* why a commit is in doubt

TypeOK ==
    /\ run \in RunRow
    /\ crash \in Exec \cup {None}
    /\ job \in JobRow /\ job.attempt <= job.max
    /\ phase \in [Exec -> {"new", "delivered", "admitted", "claiming", "running",
                           "unsure", "stopping", "handback", "ended", "dead"}]
    /\ plan \in [Exec -> Plans]
    /\ fence \in [Exec -> {"none", "held", "fenced"}]
    /\ signal \subseteq Exec
    /\ overrun \subseteq Exec
    /\ answered \subseteq Exec

Init ==
    /\ run = [status |-> "pending", token |-> None, beat |-> "null", cancel |-> FALSE]
    /\ crash = None
    /\ job = [status |-> "queued", attempt |-> 0, max |-> MaxAttempts, wait |-> "none"]
    /\ phase = [e \in Exec |-> "new"]
    /\ plan = [e \in Exec |-> "none"]
    /\ fence = [e \in Exec |-> "none"]
    /\ signal = {}
    /\ overrun = {}
    /\ answered = {}

Over == run.status \in Terminal

Goto(e, p, q) == /\ phase' = [phase EXCEPT ![e] = p]
                 /\ plan' = [plan EXCEPT ![e] = q]

-----------------------------------------------------------------------------
(* The queue, as module JobQueue has it: settles are fenced on the attempt. *)

\* Mutant: the settle is fenced on the id and the status alone.
Settled_AnyAttempt(e, how) ==
    IF job.status \notin {"leased", "expired"} THEN job
    ELSE IF how = "ack" THEN [job EXCEPT !.status = "done"]
    ELSE [job EXCEPT !.status = "queued"]

Settled(e, how) ==
    IF job.attempt # e \/ job.status \notin {"leased", "expired"} THEN job
    ELSE CASE how = "ack" -> [job EXCEPT !.status = "done"]
           [] how = "nack" -> [job EXCEPT !.status = IF job.attempt >= job.max
                                                     THEN "dead" ELSE "queued"]
           [] OTHER -> [job EXCEPT !.status = "queued", !.max = @ + 1, !.wait = how]

\* The handler returns (ack), throws (nack) or throws a QueueRetryAfterError;
\* the settle that follows may be lost.
Finish(e, how) ==
    /\ Goto(e, "ended", "none")
    /\ fence' = [fence EXCEPT ![e] = "none"]
    /\ job' \in {Settled(e, how), job}

CanRetryAfter == job.max < MaxAttempts + MaxRetryAfter

Deliverable == \/ job.status = "queued" /\ job.wait = "none"
               \/ job.status = "expired" /\ job.attempt < job.max

Deliver(e) ==
    /\ e = job.attempt + 1
    /\ Deliverable
    /\ job' = [job EXCEPT !.status = "leased", !.attempt = e]
    /\ Goto(e, "delivered", "none")
    /\ UNCHANGED <<run, crash, fence, signal, overrun, answered>>

Gone(e) == phase[e] \in {"ended", "dead"}

\* Mutant: the lock TTL is shorter than the takeover window.
OutlivesTakeover_Short == TRUE

\* The five-minute lock of a process that died outlives the two-minute takeover
\* window of the claim it holds: renewals and heartbeats end together.
OutlivesTakeover == run.token = job.attempt => run.beat # "fresh"

LockExpires ==
    /\ job.status = "leased"
    /\ IF Gone(job.attempt)
       THEN OutlivesTakeover /\ UNCHANGED signal
       ELSE "lock lost" \in Faults /\ signal' = signal \cup {job.attempt}
    /\ job' = [job EXCEPT !.status = "expired"]
    /\ UNCHANGED <<run, crash, execVars, overrun, answered>>

\* expireDeadQueueJobs.
DeadSweep ==
    /\ job.status = "expired"
    /\ job.attempt >= job.max
    /\ job' = [job EXCEPT !.status = "dead"]
    /\ UNCHANGED <<run, crash, execVars, signal, overrun, answered>>

\* Mutant: the retry of a failed hand-back comes before the takeover window.
Waited_Short(w) == TRUE

\* A hand-back that failed is retried EXECUTOR_TAKEOVER_MS + 1 s later, when the
\* heartbeat its execution stopped has gone stale.
Waited(w) == w = "takeover" /\ run.token = job.attempt => run.beat # "fresh"

RetryFallsDue ==
    /\ job.wait # "none"
    /\ Waited(job.wait)
    /\ job' = [job EXCEPT !.wait = "none"]
    /\ UNCHANGED <<run, crash, execVars, signal, overrun, answered>>

-----------------------------------------------------------------------------
(* Admission and claim. *)

\* The idempotency guard; a run that is over is acknowledged.  Reads that fail
\* before the claim throw.
Admit(e) ==
    /\ phase[e] = "delivered"
    /\ \/ Over /\ Finish(e, "ack")
       \/ ~Over /\ Goto(e, "admitted", "none") /\ UNCHANGED <<fence, job>>
       \/ Finish(e, "nack")
    /\ UNCHANGED <<run, crash, signal, overrun, answered>>

\* clearCrashCheckpointForUnheldRun, best-effort.
ClearUnheld == crash' \in {None} \cup (IF "uncleaned" \in Faults THEN {crash} ELSE {})

\* A quiet cancellation, a budget block or an error before the claim: no token
\* is held, so updateRunStatus writes the row whatever it carries by now.
EndUnclaimed(e, status) ==
    /\ "refused" \in Faults
    /\ phase[e] = "admitted"
    /\ run' = [run EXCEPT !.status = status]
    /\ ClearUnheld
    /\ \E how \in {"ack", "nack"} : Finish(e, how)
    /\ UNCHANGED <<signal, overrun, answered>>

\* An attempt that ends before the claim and leaves the run as it is.  A fatal
\* error of an attempt that is not the last is to be retried, but without a token
\* the hand-back finds nothing to give back, and the handler takes that for another
\* executor's claim and returns; so does one whose task, agent or message is gone.
Drop(e) ==
    /\ "dropped" \in Faults
    /\ phase[e] = "admitted"
    /\ Finish(e, "ack")
    /\ UNCHANGED <<run, crash, signal, overrun, answered>>

\* Mutant: any running run is taken over, as before executors were fenced.
Claimable_AnyRunning == run.status \in {"pending", "running"}

\* Mutant: a parked run is claimed as a pending one is.
Claimable_Parked == \/ run.status \in {"pending", "waiting"}
                    \/ run.status = "running" /\ run.beat # "fresh"

Claimable == \/ run.status = "pending"
             \/ run.status = "running" /\ run.beat # "fresh"

\* prior_status as the claim's snapshot shows it; "none" when it matches no row.
Snapshot == IF Claimable THEN run.status ELSE "none"

ClaimRead(e) ==
    /\ phase[e] = "admitted"
    /\ Goto(e, "claiming", Snapshot)
    /\ UNCHANGED <<run, crash, job, fence, signal, overrun, answered>>

\* The WHERE of the claim tests the CTE's snapshot, never the locked row: a
\* claim that waited for the row lock goes by what it read before.
Prior(e) == IF "race" \in Faults THEN plan[e] ELSE Snapshot

ClaimLand(e) ==
    /\ phase[e] = "claiming"
    /\ Prior(e) # "none"
    /\ run' = [run EXCEPT !.status = "running", !.token = e, !.beat = "fresh"]
    /\ \/ /\ Goto(e, "running", "none")
          /\ fence' = [fence EXCEPT ![e] = "held"]
       \/ /\ "lost claim" \in Faults
          /\ Goto(e, "stopping", "failed")
          /\ UNCHANGED fence
    /\ UNCHANGED <<crash, job, signal, overrun, answered>>

\* Ack, never nack: the run is over, or a live executor holds it.
ClaimRefused(e) ==
    /\ phase[e] = "claiming"
    /\ Prior(e) = "none"
    /\ Finish(e, "ack")
    /\ UNCHANGED <<run, crash, signal, overrun, answered>>

-----------------------------------------------------------------------------
(* The loop: heartbeat, checkpoints, drain. *)

Working(e) == phase[e] \in {"running", "unsure", "stopping"}

\* The fence of every write of an execution that claimed.
Holds(e) == run.token = e

\* The heartbeat's UPDATE; no row means another executor holds the run.
Heartbeat(e) ==
    /\ Working(e)
    /\ fence[e] = "held"
    /\ IF Holds(e)
       THEN run' = [run EXCEPT !.beat = "fresh"] /\ UNCHANGED fence
       ELSE fence' = [fence EXCEPT ![e] = "fenced"] /\ UNCHANGED run
    /\ UNCHANGED <<crash, job, phase, plan, signal, overrun, answered>>

\* Two minutes without a heartbeat that reached the row.
BeatStales ==
    /\ run.status = "running"
    /\ run.beat = "fresh"
    /\ run' = [run EXCEPT !.beat = "stale"]
    /\ UNCHANGED <<crash, job, execVars, signal, overrun, answered>>

\* persistCrashCheckpoint: by the loop, or by a call that outlived it.
Checkpoint(e) ==
    /\ (phase[e] = "running" \/ e \in overrun)
    /\ Holds(e)
    /\ crash' = e
    /\ UNCHANGED <<run, job, execVars, signal, overrun, answered>>

\* A tool call loses the race against its timeout and runs on.
ToolOverruns(e) ==
    /\ "straggler" \in Faults
    /\ phase[e] = "running"
    /\ overrun' = overrun \cup {e}
    /\ UNCHANGED <<run, crash, job, execVars, signal, answered>>

\* assertExecutorHoldsRun at an iteration boundary: RunFencedError, acked.
FencedOut(e) ==
    /\ phase[e] = "running"
    /\ fence[e] = "fenced"
    /\ Finish(e, "ack")
    /\ UNCHANGED <<run, crash, signal, overrun, answered>>

\* SIGTERM: stop() aborts the in-flight handler's signal.
DrainBegins(e) ==
    /\ ~Gone(e) /\ phase[e] # "new"
    /\ signal' = signal \cup {e}
    /\ UNCHANGED <<run, crash, job, execVars, overrun, answered>>

\* abandon(): the deadline nacks the job under its handler.
Abandon(e) ==
    /\ "abandon" \in Faults
    /\ e \in signal /\ ~Gone(e)
    /\ job.attempt = e /\ job.status = "leased"
    /\ job' = Settled(e, "nack")
    /\ UNCHANGED <<run, crash, execVars, signal, overrun, answered>>

\* Mutant: the intentional retry nacks without giving the claim back.
StopForRetry_KeepClaim(e) == Finish(e, "nack")

StopForRetry(e) == Goto(e, "handback", "nack") /\ UNCHANGED <<fence, job>>

\* RunDrainedError at a boundary or after the grace, or a fatal tool error of
\* an attempt that is not the last.
LeaveForRetry(e) ==
    /\ phase[e] = "running"
    /\ (e \in signal \/ e < job.max)
    /\ StopForRetry(e)
    /\ UNCHANGED <<run, crash, signal, overrun, answered>>

\* handBackRunExecutionForRetry, the heartbeat being stopped.  A run another
\* executor holds is acknowledged; a statement that fails defers the retry.
HandBack(e) ==
    /\ phase[e] = "handback"
    /\ \/ /\ Holds(e)
          /\ run' = [run EXCEPT !.token = None, !.beat = "null"]
          /\ Finish(e, plan[e])
       \/ /\ ~Holds(e)
          /\ Finish(e, "ack")
          /\ UNCHANGED run
       \/ /\ CanRetryAfter
          /\ Finish(e, "takeover")
          /\ UNCHANGED run
    /\ UNCHANGED <<crash, signal, overrun, answered>>

-----------------------------------------------------------------------------
(* Outcomes. *)

\* Mutant: the success transaction finds its row by id alone.
CommitHolds_ById(e) == TRUE

CommitHolds(e) == Holds(e) /\ run.status = "running"

\* commitSuccessfulRun: answer, follow-up, completed, crash state and claim shed
\* in one transaction.  It may land and its acknowledgement be lost, fail, or
\* match no row and roll back.
Commit(e) ==
    /\ phase[e] = "running"
    /\ \/ /\ CommitHolds(e)
          /\ run' = [run EXCEPT !.status = "completed", !.token = None, !.beat = "null"]
          /\ crash' = None
          /\ answered' = answered \cup {e}
          /\ \/ Finish(e, "ack")
             \/ Goto(e, "unsure", "broken") /\ UNCHANGED <<fence, job>>
       \/ /\ Goto(e, "unsure", IF CommitHolds(e) THEN "broken" ELSE "fenced")
          /\ UNCHANGED <<run, crash, fence, job, answered>>
    /\ UNCHANGED <<signal, overrun>>

\* verifySuccessfulCommit: completed, and the keyed follow-up is there.
CommittedOnReadBack == run.status = "completed" /\ answered # {}

\* The readback: success, the original error, or a retry when it fails too.
ReadBack(e) ==
    /\ phase[e] = "unsure"
    /\ \/ CommittedOnReadBack /\ Finish(e, "ack")
       \/ ~CommittedOnReadBack /\ plan[e] = "fenced" /\ Finish(e, "ack")
       \/ /\ ~CommittedOnReadBack /\ plan[e] = "broken"
          /\ Goto(e, "stopping", "failed")
          /\ UNCHANGED <<fence, job>>
       \/ CanRetryAfter /\ Goto(e, "handback", "short") /\ UNCHANGED <<fence, job>>
    /\ UNCHANGED <<run, crash, signal, overrun, answered>>

\* The loop ends otherwise: an error, an observed cancellation, a suspension.
\* The notice is posted here, before the status is written.
Stop(e, status) ==
    /\ phase[e] = "running"
    /\ status = "cancelled" => run.cancel
    /\ Goto(e, "stopping", status)
    /\ UNCHANGED <<run, crash, fence, job, signal, overrun, answered>>

\* Mutant: only the flag in memory is looked at, never the row's token.
Fenced_FlagOnly(e) == fence[e] = "fenced"

\* updateRunStatus's fence: the flag, then the token; without a claim, nothing.
Fenced(e) == fence[e] = "fenced" \/ (fence[e] = "held" /\ ~Holds(e))

\* A suspended run gives its token up in the same statement.
ReleasedBy(status) == status = "waiting"

\* clearCrashCheckpoint's two-sided fence, after the status was written.
Sheds(e) == crash = e \/ run'.token = e

Shed(e) ==
    IF fence[e] = "none" THEN ClearUnheld
    ELSE IF Sheds(e) THEN ClearUnheld
    ELSE UNCHANGED crash

\* updateRunStatus, with the settle that follows it: a failure is rethrown or
\* returned, the other outcomes return.
WriteStatus(e) ==
    /\ phase[e] = "stopping"
    /\ ~Fenced(e)
    /\ run' = [run EXCEPT !.status = plan[e],
                          !.token = IF ReleasedBy(plan[e]) THEN None ELSE @]
    /\ Shed(e)
    /\ \/ Finish(e, "ack")
       \/ plan[e] = "failed" /\ Finish(e, "nack")
       \/ /\ "write fails" \in Faults     \* a later write of the same outcome
          /\ plan[e] # "failed"
          /\ Goto(e, "stopping", "failed")
          /\ fence' = [fence EXCEPT ![e] = IF ReleasedBy(plan[e]) THEN "none" ELSE @]
          /\ UNCHANGED job
    /\ UNCHANGED <<signal, overrun, answered>>

\* RunFencedError at the status write: acknowledged, nothing written.
StatusRefused(e) ==
    /\ phase[e] = "stopping"
    /\ Fenced(e)
    /\ Finish(e, "ack")
    /\ UNCHANGED <<run, crash, signal, overrun, answered>>

\* The status write throws.  In the failure path the error reaches the queue;
\* before it, the failure path takes over.
StatusFails(e) ==
    /\ "write fails" \in Faults
    /\ phase[e] = "stopping"
    /\ IF plan[e] = "failed"
       THEN Finish(e, "nack")
       ELSE Goto(e, "stopping", "failed") /\ UNCHANGED <<fence, job>>
    /\ UNCHANGED <<run, crash, signal, overrun, answered>>

-----------------------------------------------------------------------------
(* The outside: crashes and people. *)

\* The worker process dies and its memory with it.
Crash(e) ==
    /\ ~Gone(e) /\ phase[e] # "new"
    /\ Goto(e, "dead", "none")
    /\ fence' = [fence EXCEPT ![e] = "none"]
    /\ overrun' = overrun \ {e}
    /\ UNCHANGED <<run, crash, job, signal, answered>>

\* requestRunCancellation: at once unless an executor has to be asked.
RequestCancel ==
    /\ \/ /\ run.status \in {"pending", "waiting"}
          /\ run' = [run EXCEPT !.status = "cancelled", !.cancel = TRUE]
       \/ /\ run.status = "running" /\ ~run.cancel
          /\ run' = [run EXCEPT !.cancel = TRUE]
    /\ UNCHANGED <<crash, job, execVars, signal, overrun, answered>>

\* The approval or the card press ends the parked run; a new run continues it.
Resume ==
    /\ run.status = "waiting"
    /\ run' = [run EXCEPT !.status = "completed"]
    /\ UNCHANGED <<crash, job, execVars, signal, overrun, answered>>

-----------------------------------------------------------------------------
\* What an execution that claimed the run does to it.
Acts(e) ==
    \/ Heartbeat(e) \/ Checkpoint(e) \/ FencedOut(e)
    \/ LeaveForRetry(e) \/ HandBack(e)
    \/ Commit(e) \/ ReadBack(e)
    \/ \E s \in {"failed", "cancelled", "waiting"} : Stop(e, s)
    \/ WriteStatus(e) \/ StatusRefused(e) \/ StatusFails(e)

Next ==
    \/ \E e \in Exec : Deliver(e)
    \/ LockExpires
    \/ DeadSweep
    \/ RetryFallsDue
    \/ \E e \in Exec : Admit(e)
    \/ \E e \in Exec, s \in {"failed", "cancelled"} : EndUnclaimed(e, s)
    \/ \E e \in Exec : Drop(e)
    \/ \E e \in Exec : ClaimRead(e)
    \/ \E e \in Exec : ClaimLand(e)
    \/ \E e \in Exec : ClaimRefused(e)
    \/ \E e \in Exec : Acts(e)
    \/ BeatStales
    \/ \E e \in Exec : ToolOverruns(e)
    \/ \E e \in Exec : DrainBegins(e)
    \/ \E e \in Exec : Abandon(e)
    \/ \E e \in Exec : Crash(e)
    \/ RequestCancel
    \/ Resume

Spec == Init /\ [][Next]_vars

-----------------------------------------------------------------------------
(* Fairness: a delivery that neither crashes nor hangs ends -- the run's     *)
(* budget bounds its loop --, the queue delivers, and clocks advance.        *)

Proceeds(e) ==
    \/ Admit(e) \/ ClaimRead(e) \/ ClaimLand(e) \/ ClaimRefused(e)
    \/ FencedOut(e) \/ LeaveForRetry(e) \/ HandBack(e) \/ Commit(e) \/ ReadBack(e)
    \/ \E s \in {"failed", "cancelled", "waiting"} : Stop(e, s)
    \/ WriteStatus(e) \/ StatusRefused(e)

Silent == \A e \in Exec : Working(e) => ~Holds(e)

FairSpec ==
    /\ Spec
    /\ \A e \in Exec : WF_vars(Proceeds(e)) /\ WF_vars(Deliver(e))
    /\ WF_vars(LockExpires)
    /\ WF_vars(DeadSweep)
    /\ WF_vars(RetryFallsDue)
    /\ WF_vars(Silent /\ BeatStales)

-----------------------------------------------------------------------------
(* Properties of every instance, whatever goes wrong. *)

\* An execution that was taken over changes neither the run nor the crash state
\* its successor resumes from: heartbeat, checkpoint, hand-back, commit and
\* status write all carry the token (lifecycle.ts, crash-checkpoint.ts).
SupersededIsHarmless ==
    [][\A e \in Exec :
          fence[e] # "none" /\ ~Holds(e) /\ Acts(e) => UNCHANGED <<run, crash, answered>>]_vars

\* Nobody but its holder takes the claim of a heartbeating executor or touches
\* its crash state, except to end the run.
HolderUndisturbed ==
    [][\A e \in Exec :
          fence[e] = "held" /\ Holds(e) /\ run.beat = "fresh" /\ ~Over
          /\ (run'.token # e \/ crash' # crash)
            => Acts(e) \/ run'.status \in Terminal]_vars

-----------------------------------------------------------------------------
(* Properties that need an environment without some of the faults.          *)

\* One answer per run: the success transaction commits once over all
\* executions, although its acknowledgement may be lost and the run retried.
OneAnswer == \A d, e \in answered : d = e

\* A run that was answered stays completed, and leaves nothing to resume: no
\* failure path, retry or straggler rewrites a committed success.
AnsweredIsFinal == answered # {} => run.status = "completed" /\ crash = None

\* No run that was claimed is orphaned: while it is neither over nor parked, its
\* job is still in the queue (or dead-lettered, which an operator sees), or an
\* execution works under the run's token.  It speaks of hand-backs, takeovers and
\* refused claims (run-job.ts:388-403, 640-675); the attempts that return without
\* a claim and without a word in the row do orphan their run (see Drop), and are
\* not among this instance's faults.
OpenRunHasWork ==
    run.status \in {"pending", "running"} /\ job.status = "done"
        => \E e \in Exec : Working(e) /\ Holds(e)

\* Every run ends, is parked for a person, or its job is dead-lettered, whatever
\* dies, unless an attempt drops it before the claim (see Drop).
EveryRunSettles ==
    <>(Over \/ run.status = "waiting" \/ job.status = "dead")

-----------------------------------------------------------------------------
(* What comments and docs of the code say, checked against what it does.    *)

\* lifecycle.ts:296-308: the claim is atomic and never resurrects a terminal
\* run or takes one whose executor is not silent.
ClaimOpensOnlyOpenRuns == [][\A e \in Exec : ClaimLand(e) => Claimable]_vars

\* run-job.ts:397-398: a refused claim means that the run is over or that a live
\* executor holds it and is doing the work (a parked run has none to do).
RefusalMeansHeldOrOver ==
    [][\A e \in Exec :
          ClaimRefused(e) /\ run.status \in {"pending", "running"}
            => \E d \in Exec : Working(d) /\ Holds(d)]_vars

-----------------------------------------------------------------------------
(* The job row of this module and the queue of module JobQueue: the row      *)
(* never does what QueueContract, which JobQueue implements, forbids.  It    *)
(* assumes more than the contract promises, namely how long a lock and a     *)
(* retry-after delay last (OutlivesTakeover, Waited), so this says that the  *)
(* two modules speak of one queue, not that any queue which keeps the        *)
(* contract would do for the executions.                                     *)

RunExecute == "run.execute"

NoDelivery == [job |-> RunExecute, attempt |-> None]

ContractState ==
    CASE job.status = "queued" -> "waiting"
      [] job.status \in {"leased", "expired"} -> "out"
      [] OTHER -> job.status

ContractJob == [j \in {RunExecute} |-> [state |-> ContractState,
                                        delivery |-> job.attempt,
                                        allowance |-> job.max]]

Delivery(e) == [job |-> RunExecute, attempt |-> e]

InHand == [e \in Exec |-> IF phase[e] = "new" \/ Gone(e) THEN NoDelivery ELSE Delivery(e)]

Completed == IF job.status = "done" THEN {Delivery(job.attempt)} ELSE {}

Contract == INSTANCE QueueContract
    WITH Consumer <- Exec, Job <- {RunExecute},
         job <- ContractJob, hand <- InHand, completed <- Completed

\* Every delivery, settle, abandonment, lock expiry and crash of this module
\* is one the queue's contract allows (queue-contract.ts:14-24 and 64-74).
ImplementsContract == Contract!Spec

-----------------------------------------------------------------------------
(* What the executions may rely on, whoever else was started for their run. *)

Fresh == {e \in Exec : phase[e] \in {"new", "delivered", "admitted", "claiming"}}

AtWork == {e \in Exec : phase[e] \in {"running", "unsure", "stopping", "handback"}}

Run == INSTANCE RunContract
    WITH Execution <- Exec, Nobody <- None,
         open <- run.status \in {"pending", "running"}, holder <- run.token,
         fresh <- Fresh, working <- AtWork

\* Where no claim decides by a stale snapshot and the run is not written without
\* a claim, its claim, hand-back, commit, status writes and cancellation are steps
\* of the contract: a run that ended or was parked is never executed again, and no
\* execution that lost the run ends it or gives it up (lifecycle.ts).
ImplementsRunContract == Run!Spec
=============================================================================
