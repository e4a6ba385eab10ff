----------------------------- MODULE WorkflowRun -----------------------------
(***************************************************************************)
(* One run of a workflow: a chain of steps executed from queue jobs.       *)
(*                                                                         *)
(* An execution works tool and transform steps itself; at an agent or an   *)
(* environment step it leaves the step `running`, ends, and is continued   *)
(* by a new job once the child has told the step.  Meanwhile people        *)
(* cancel the run and skip, block or unblock its steps, children answer    *)
(* late or twice, anybody's mail names a step, workers die, jobs that died *)
(* too often are given up, and a reaper fails the steps whose lease or     *)
(* deadline ran out.  Each of these reads rows in one statement and writes *)
(* them in a later one.                                                    *)
(*                                                                         *)
(* Sources: worker/src/control (workflows.ts, workflow-step-reaper.ts,     *)
(* execution.ts), worker/src/run (workflows.ts, workflow-step-finish.ts),  *)
(* packages/db/src/mailbox-delivery-run.ts and                             *)
(* api/src/services/workflow-run-controls.ts.                              *)
(***************************************************************************)
EXTENDS Naturals

CONSTANTS
    Worker,      \* worker slots, each handling one job at a time
    N,           \* the number of steps
    Kind,        \* every step's type
    Timed,       \* steps whose input carries a timeoutMs
    Guarded,     \* steps with a `when` guard
    Foreign,     \* jobs whose actor or channel is not the run's: a retry or an
                 \* intervention by another admin, a step in another channel
    Posted,      \* steps that a mail sent through POST /api/mailbox may name
    Happens,     \* what may happen besides the run itself
    MaxAttempts, \* max_attempts of a workflow's job
    MaxOps,      \* bound: jobs an operator's skips and unblocks enqueue
    MaxExtras    \* bound: deaths, repeated tellings and interventions

Step == 1..N

\* Job 0 starts the run, job s continues it after step s, the rest are the
\* operator's.
Key == 0..(N + MaxOps)
OpKey == (N + 1)..(N + MaxOps)

\* Child s is the mail or environment that the engine makes for step s, child
\* N + s the mail that somebody posts for it.
Letter == Step \cup {N + s : s \in Posted}
Of(c) == IF c \in Step THEN c ELSE c - N

\* "stale": a worker may act on rows it read before somebody changed them, and
\* its heartbeats may be late.  "race": so may the reaper.
ASSUME NAssumption == N \in Nat \ {0}
ASSUME KindAssumption == Kind \in [Step -> {"tool", "transform", "agent", "environment"}]
ASSUME HappensAssumption ==
    Happens \subseteq {"crash", "cancel", "operator", "stale", "race"}
ASSUME PostedAssumption == Posted \subseteq Step
ASSUME ForeignAssumption == Foreign \subseteq Key
ASSUME AttemptsAssumption == MaxAttempts \in Nat \ {0}
ASSUME BoundsAssumption == MaxOps \in Nat /\ MaxExtras \in Nat

VARIABLES
    run,         \* the run's status
    step,        \* every step row's status; "none" before there is a row
    lease,       \* the lease an actively worked step carries
    deadline,    \* the deadline of a step
    child,       \* every mail and environment, and what became of it
    job,         \* every queue job, by idempotency key
    tries,       \* how many deliveries of it came to nothing
    at,          \* where every worker is
    on,          \* the job it handles
    pick,        \* the step it chose
    new,         \* whether it read the run as `pending`
    reaping,     \* steps the reaper selected and has not failed yet
    intent,      \* interventions that passed their check
    stopping,    \* environments a cancellation enqueued the termination of
    effects,     \* how often each step's work was done
    extras       \* extras so far

execVars == <<at, on, pick, new>>
rowVars == <<run, step, lease, deadline>>
vars == <<rowVars, child, job, tries, execVars, reaping, intent, stopping, effects, extras>>

Active == {"pending", "running"}
Ended == {"completed", "failed", "cancelled"}
Open == {"pending", "running", "blocked"}
Over == {"completed", "failed", "skipped"}
Sync(s) == Kind[s] \in {"tool", "transform"}
IsMail(c) == c \in Step => Kind[c] = "agent"

TypeOK ==
    /\ run \in Active \cup Ended
    /\ step \in [Step -> {"none"} \cup Open \cup Over]
    /\ lease \in [Step -> {"none", "held", "lapsed"}]
    /\ deadline \in [Step -> {"none", "set", "passed"}]
    /\ child \in [Letter -> {"none", "asked", "working", "good", "bad", "owing",
                             "told", "over"}]
    /\ job \in [Key -> {"none", "queued", "taken", "done", "dead"}]
    /\ tries \in [Key -> Nat]
    /\ at \in [Worker -> {"idle", "loaded", "prepared", "looping", "picked",
                          "working", "worked", "mailed", "closing"}]
    /\ on \in [Worker -> Key] /\ pick \in [Worker -> Step] /\ new \in [Worker -> BOOLEAN]
    /\ reaping \subseteq Step
    /\ intent \subseteq {"skip", "block", "unblock"} \X Step
    /\ stopping \subseteq Step
    /\ effects \in [Step -> Nat]
    /\ extras \in 0..MaxExtras

Init ==
    /\ run = "pending" /\ step = [s \in Step |-> "none"]
    /\ lease = [s \in Step |-> "none"] /\ deadline = [s \in Step |-> "none"]
    /\ child = [c \in Letter |-> "none"]
    /\ job = [k \in Key |-> IF k = 0 THEN "queued" ELSE "none"]
    /\ tries = [k \in Key |-> 0]
    /\ at = [w \in Worker |-> "idle"] /\ on = [w \in Worker |-> 0]
    /\ pick = [w \in Worker |-> 1] /\ new = [w \in Worker |-> FALSE]
    /\ reaping = {} /\ intent = {} /\ stopping = {}
    /\ effects = [s \in Step |-> 0]
    /\ extras = 0

Extra(what) == what \in Happens /\ extras < MaxExtras /\ extras' = extras + 1

\* No execution is between reading the rows and writing by what it read.
Undisturbed == \A w \in Worker : at[w] \notin {"loaded", "prepared", "picked", "mailed"}
MayIntervene == Undisturbed \/ "stale" \in Happens

Enqueued(k) == [job EXCEPT ![k] = IF @ = "none" THEN "queued" ELSE @]

-----------------------------------------------------------------------------
(* The transition every finished step goes through.  It is guarded on the   *)
(* run alone: the step is written whatever its status is.                   *)

Remaining(s) == {t \in Step \ {s} : step[t] \in Open}
Applies == run \in Active
Continues(s, ok) == Applies /\ ok /\ Remaining(s) # {}

\* As if a failure left the steps behind it as they are.
StepsAfter_NoSkip(s, ok) == [step EXCEPT ![s] = IF ok THEN "completed" ELSE "failed"]

StepsAfter(s, ok) ==
    [t \in Step |-> IF t = s THEN IF ok THEN "completed" ELSE "failed"
                    ELSE IF ~ok /\ step[t] \in {"pending", "blocked"} THEN "skipped"
                    ELSE step[t]]

\* As if a run that ended could be ended again.
FinishStep_Unguarded(s, ok) ==
    /\ run' = IF ~ok THEN "failed" ELSE IF Remaining(s) # {} THEN "running" ELSE "completed"
    /\ step' = StepsAfter(s, ok)
    /\ lease' = [lease EXCEPT ![s] = "none"]
    /\ deadline' = [deadline EXCEPT ![s] = "none"]

FinishStep(s, ok) ==
    \/ /\ Applies
       /\ run' = IF ~ok THEN "failed" ELSE IF Remaining(s) # {} THEN "running" ELSE "completed"
       /\ step' = StepsAfter(s, ok)
       /\ lease' = [lease EXCEPT ![s] = "none"]
       /\ deadline' = [deadline EXCEPT ![s] = "none"]
    \/ ~Applies /\ UNCHANGED rowVars

-----------------------------------------------------------------------------
(* An execution.                                                            *)

GoTo(w, place) == at' = [at EXCEPT ![w] = place] /\ UNCHANGED <<on, pick, new>>

EndJob(w) ==
    /\ at' = [at EXCEPT ![w] = "idle"]
    /\ job' = [job EXCEPT ![on[w]] = "done"]
    /\ UNCHANGED <<on, pick, new>>

\* The job is delivered again, or dead-lettered after the last delivery, which
\* nobody looks at.
GiveUp(w) ==
    /\ at' = [at EXCEPT ![w] = "idle"]
    /\ tries' = [tries EXCEPT ![on[w]] = @ + 1]
    /\ job' = [job EXCEPT ![on[w]] = IF tries[on[w]] + 1 < MaxAttempts THEN "queued" ELSE "dead"]
    /\ UNCHANGED <<on, pick, new>>

othersVars == <<tries, reaping, intent, stopping, extras>>

Take(w, k) ==
    /\ at[w] = "idle" /\ job[k] = "queued"
    /\ IF run \in Ended
       THEN job' = [job EXCEPT ![k] = "done"] /\ UNCHANGED execVars
       ELSE /\ job' = [job EXCEPT ![k] = "taken"]
            /\ at' = [at EXCEPT ![w] = "loaded"] /\ on' = [on EXCEPT ![w] = k]
            /\ new' = [new EXCEPT ![w] = run = "pending"] /\ UNCHANGED pick
    /\ UNCHANGED <<rowVars, child, othersVars, effects>>

\* The run fails, its steps stay as they are.
Mismatch(w) ==
    /\ at[w] = "loaded" /\ on[w] \in Foreign /\ EndJob(w)
    /\ run' = IF Applies THEN "failed" ELSE run
    /\ UNCHANGED <<step, lease, deadline, child, othersVars, effects>>

\* Creates the rows that are missing.
Prepare(w) ==
    /\ at[w] = "loaded" /\ on[w] \notin Foreign /\ GoTo(w, "prepared")
    /\ step' = [s \in Step |-> IF step[s] = "none" THEN "pending" ELSE step[s]]
    /\ UNCHANGED <<run, lease, deadline, child, job, othersVars, effects>>

\* Unguarded: decided by the status that was loaded.
StartRun(w) ==
    /\ at[w] = "prepared" /\ GoTo(w, "looping")
    /\ run' = IF new[w] THEN "running" ELSE run
    /\ UNCHANGED <<step, lease, deadline, child, job, othersVars, effects>>

Busy == \E s \in Step : step[s] = "running"

\* As if the steps were taken in any order.
Chosen_Any(s) == step[s] = "pending"

Chosen(s) == step[s] = "pending" /\ \A t \in 1..(s - 1) : step[t] # "pending"

Look(w) ==
    /\ at[w] = "looping"
    /\ \/ Busy /\ EndJob(w)
       \/ /\ ~Busy
          /\ \E s \in Step : Chosen(s) /\ pick' = [pick EXCEPT ![w] = s]
          /\ at' = [at EXCEPT ![w] = "picked"] /\ UNCHANGED <<on, new, job>>
       \/ /\ ~Busy /\ \A s \in Step : step[s] # "pending"
          /\ GoTo(w, "closing") /\ UNCHANGED job
    /\ UNCHANGED <<rowVars, child, othersVars, effects>>

\* Nothing is pending: the run is completed, blocked steps or not.
Close(w) ==
    /\ at[w] = "closing" /\ EndJob(w)
    /\ run' = IF Applies THEN "completed" ELSE run
    /\ UNCHANGED <<step, lease, deadline, child, othersVars, effects>>

\* A falsy `when`.
SkipGuarded(w) ==
    /\ at[w] = "picked" /\ pick[w] \in Guarded /\ GoTo(w, "looping")
    /\ step' = [step EXCEPT ![pick[w]] = IF @ = "pending" THEN "skipped" ELSE @]
    /\ UNCHANGED <<run, lease, deadline, child, job, othersVars, effects>>

\* A guard or an input that cannot be evaluated, an unusable target.
Reject(w) ==
    /\ at[w] = "picked" /\ EndJob(w)
    /\ FinishStep(pick[w], FALSE)
    /\ UNCHANGED <<child, othersVars, effects>>

\* As if a step were marked only when its work is done.
Begin_Unmarked(w) ==
    /\ at[w] = "picked" /\ Sync(pick[w]) /\ GoTo(w, "working")
    /\ UNCHANGED <<rowVars, child, job, othersVars, effects>>

\* As if only the steps with a deadline were watched.
Begin_Unleased(w) ==
    /\ at[w] = "picked" /\ Sync(pick[w]) /\ GoTo(w, "working")
    /\ step' = [step EXCEPT ![pick[w]] = "running"]
    /\ deadline' = [deadline EXCEPT ![pick[w]] = IF pick[w] \in Timed THEN "set" ELSE @]
    /\ UNCHANGED <<run, lease, child, job, othersVars, effects>>

\* Unguarded.  Only a tool gets a lease; without a timeoutMs a transform gets
\* neither a lease nor a deadline.
Begin(w) ==
    LET s == pick[w] IN
    /\ at[w] = "picked" /\ Sync(s) /\ GoTo(w, "working")
    /\ step' = [step EXCEPT ![s] = "running"]
    /\ lease' = [lease EXCEPT ![s] = IF Kind[s] = "tool" THEN "held" ELSE @]
    /\ deadline' = [deadline EXCEPT ![s] = IF s \in Timed THEN "set" ELSE @]
    /\ UNCHANGED <<run, child, job, othersVars, effects>>

Work(w) ==
    /\ at[w] = "working" /\ GoTo(w, "worked")
    /\ effects' = [effects EXCEPT ![pick[w]] = @ + 1]
    /\ UNCHANGED <<rowVars, child, job, othersVars>>

End(w, ok) ==
    /\ at[w] \in {"worked"} \cup (IF ok THEN {} ELSE {"working"})
    /\ FinishStep(pick[w], ok)
    /\ IF Continues(pick[w], ok) THEN GoTo(w, "looping") /\ UNCHANGED job ELSE EndJob(w)
    /\ UNCHANGED <<child, othersVars, effects>>

\* The step is suspended; unguarded, and so is the run that is set `running`.
Suspend(s) ==
    /\ step' = [step EXCEPT ![s] = "running"] /\ run' = "running"
    /\ lease' = [lease EXCEPT ![s] = "none"] /\ deadline' = [deadline EXCEPT ![s] = "set"]

\* One mail per step: a second one, of a job that is delivered again, meets the
\* unique key, and PostgreSQL refuses the read of the first in the transaction
\* that failed.
Mail(w) ==
    LET s == pick[w] IN
    /\ at[w] = "picked" /\ Kind[s] = "agent"
    /\ \/ child[s] = "none" /\ child' = [child EXCEPT ![s] = "asked"]
          /\ GoTo(w, "mailed") /\ UNCHANGED <<rowVars, job>>
       \/ child[s] # "none" /\ FinishStep(s, FALSE) /\ EndJob(w) /\ UNCHANGED child
    /\ UNCHANGED <<othersVars, effects>>

Queue(w) ==
    /\ at[w] = "mailed" /\ EndJob(w)
    /\ Suspend(pick[w])
    /\ UNCHANGED <<child, othersVars, effects>>

\* One transaction; a step has at most one environment, so a second one throws.
Launch(w) ==
    LET s == pick[w] IN
    /\ at[w] = "picked" /\ Kind[s] = "environment"
    /\ \/ /\ child[s] = "none" /\ child' = [child EXCEPT ![s] = "asked"]
          /\ Suspend(s) /\ EndJob(w) /\ UNCHANGED tries
       \/ child[s] # "none" /\ GiveUp(w) /\ UNCHANGED <<child, rowVars>>
    /\ UNCHANGED <<reaping, intent, stopping, extras, effects>>

\* The worker dies.
Crash(w) ==
    /\ at[w] # "idle" /\ Extra("crash") /\ GiveUp(w)
    /\ UNCHANGED <<rowVars, child, reaping, intent, stopping, effects>>

Execution(w) ==
    \/ \E k \in Key : Take(w, k)
    \/ Mismatch(w) \/ Prepare(w) \/ StartRun(w) \/ Look(w) \/ Close(w) \/ SkipGuarded(w) \/ Reject(w)
    \/ Begin(w) \/ Work(w) \/ (\E ok \in BOOLEAN : End(w, ok))
    \/ Mail(w) \/ Queue(w) \/ Launch(w)

-----------------------------------------------------------------------------
(* The children: what the engine makes for a step that waits, and the mails *)
(* that people post and that name a step.                                  *)

elseVars == <<execVars, tries, reaping, intent, stopping>>

\* The mail may name any step of the run, also one that is not its turn.
Post(c) ==
    /\ c \notin Step /\ child[c] = "none" /\ step[Of(c)] # "none" /\ Extra("operator")
    /\ child' = [child EXCEPT ![c] = "asked"]
    /\ UNCHANGED <<rowVars, job, elseVars, effects>>

\* A delivery marks the step its mail names, if step and run are still open.
\* An allocation touches neither.
Deliver(c) ==
    LET s == Of(c) IN
    /\ child[c] = "asked" /\ MayIntervene
    /\ child' = [child EXCEPT ![c] = "working"]
    /\ IF IsMail(c) /\ run \in Active /\ step[s] \in Open
       THEN /\ step' = [step EXCEPT ![s] = "running"] /\ run' = "running"
            /\ lease' = [lease EXCEPT ![s] = "none"]
            /\ deadline' = [deadline EXCEPT ![s] = IF @ = "none" THEN "set" ELSE @]
       ELSE UNCHANGED rowVars
    /\ UNCHANGED <<job, elseVars, effects, extras>>

ChildEnds(c) ==
    /\ child[c] = "working"
    /\ \E how \in {"good", "bad"} : child' = [child EXCEPT ![c] = how]
    /\ UNCHANGED <<rowVars, job, elseVars, effects, extras>>

Tell(c) ==
    /\ child[c] \in {"good", "bad"}
    /\ FinishStep(Of(c), child[c] = "good")
    /\ child' = [child EXCEPT ![c] = IF @ = "bad" THEN "over"
                                     ELSE IF Continues(Of(c), TRUE) THEN "owing" ELSE "told"]
    /\ UNCHANGED <<job, elseVars, effects, extras>>

\* As if the continuation were enqueued only by whoever finds the run idle.
Continue_Lost(c) ==
    /\ child[c] = "owing" /\ child' = [child EXCEPT ![c] = "told"]
    /\ UNCHANGED <<rowVars, job, elseVars, effects, extras>>

\* One continuation per step, whoever finished it.
Continue(c) ==
    /\ child[c] = "owing" /\ child' = [child EXCEPT ![c] = "told"]
    /\ job' = Enqueued(Of(c))
    /\ UNCHANGED <<rowVars, elseVars, effects, extras>>

\* A completed agent run tells its step from a queue job, again if its worker
\* dies, and so does an environment that failed; that an agent run failed or an
\* environment is ready is told once, and lost with the worker.
TellingDies(c) ==
    /\ Extra("crash")
    /\ \/ IsMail(c) /\ child[c] \in {"owing", "told"} /\ child' = [child EXCEPT ![c] = "good"]
       \/ IsMail(c) /\ child[c] = "bad" /\ child' = [child EXCEPT ![c] = "over"]
       \/ ~IsMail(c) /\ child[c] \in {"good", "owing"}
          /\ child' = [child EXCEPT ![c] = "over"]
    /\ UNCHANGED <<rowVars, job, elseVars, effects>>

\* Terminating an environment tells its step, also long after it was ready.
Terminate(s) ==
    /\ Kind[s] = "environment" /\ child[s] \in {"working", "told"}
    /\ \/ s \in stopping /\ UNCHANGED extras
       \/ s \notin stopping /\ Extra("operator")
    /\ child' = [child EXCEPT ![s] = "bad"] /\ stopping' = stopping \ {s}
    /\ UNCHANGED <<rowVars, job, tries, execVars, reaping, intent, effects>>

-----------------------------------------------------------------------------
(* Time and the reaper.                                                     *)

actorVars == <<child, job, tries, execVars, effects>>

AtWork(s) == \E w \in Worker : at[w] \in {"working", "worked"} /\ pick[w] = s

\* A live worker renews its lease, unless its heartbeats are late.
Lapse(s) ==
    /\ lease[s] = "held" /\ (AtWork(s) => "stale" \in Happens)
    /\ lease' = [lease EXCEPT ![s] = "lapsed"]
    /\ UNCHANGED <<run, step, deadline, actorVars, othersVars>>

PassDeadline(s) ==
    /\ deadline[s] = "set" /\ deadline' = [deadline EXCEPT ![s] = "passed"]
    /\ UNCHANGED <<run, step, lease, actorVars, othersVars>>

Reapable(s) ==
    step[s] = "running" /\ run \in Active /\ (lease[s] = "lapsed" \/ deadline[s] = "passed")

\* The rows are locked for the selection only.
SelectStuck(s) ==
    /\ "race" \in Happens /\ Reapable(s)
    /\ reaping' = reaping \cup {s}
    /\ UNCHANGED <<rowVars, actorVars, intent, stopping, extras>>

Reap(s) ==
    /\ s \in reaping \/ ("race" \notin Happens /\ Reapable(s))
    /\ reaping' = reaping \ {s}
    /\ FinishStep(s, FALSE)
    /\ UNCHANGED <<actorVars, intent, stopping, extras>>

-----------------------------------------------------------------------------
(* People.                                                                  *)

Cancelled(s) == IF step[s] \in Open THEN "skipped" ELSE step[s]

\* A running agent would be told by the agentRunId of its step, which no code
\* writes; so only environments are.
Cancel ==
    /\ run \in Active /\ MayIntervene /\ Extra("cancel")
    /\ run' = "cancelled"
    /\ step' = [s \in Step |-> Cancelled(s)]
    /\ stopping' = stopping \cup
        {s \in Step : step[s] = "running" /\ Kind[s] = "environment" /\ child[s] # "none"}
    /\ UNCHANGED <<lease, deadline, actorVars, reaping, intent>>

\* The check is one statement of the transaction, the guarded write another.
Intend(what, s) ==
    /\ run \in Active /\ <<what, s>> \notin intent /\ Extra("operator")
    /\ step[s] \in CASE what = "skip" -> {"pending", "blocked"}
                     [] what = "block" -> {"pending"}
                     [] what = "unblock" -> {"blocked"}
    /\ intent' = intent \cup {<<what, s>>}
    /\ UNCHANGED <<rowVars, actorVars, reaping, stopping>>

Changed(s, from, to) == step' = [step EXCEPT ![s] = IF @ \in from THEN to ELSE @]

Intervene(what, s) ==
    /\ <<what, s>> \in intent /\ MayIntervene
    /\ intent' = intent \ {<<what, s>>}
    /\ \/ what = "skip" /\ Changed(s, {"pending", "blocked"}, "skipped")
       \/ what = "block" /\ Changed(s, {"pending"}, "blocked")
       \/ what = "unblock" /\ Changed(s, {"blocked"}, "pending")
    /\ \/ (what = "block" \/ step' = step) /\ UNCHANGED job
       \/ /\ what # "block" /\ step' # step
          /\ \E k \in OpKey : job[k] = "none" /\ job' = Enqueued(k)
    /\ UNCHANGED <<run, lease, deadline, child, tries, execVars, effects, reaping, stopping, extras>>

-----------------------------------------------------------------------------
Child(c) ==
    Post(c) \/ Deliver(c) \/ ChildEnds(c) \/ Tell(c) \/ Continue(c) \/ TellingDies(c)
Time(s) == Lapse(s) \/ PassDeadline(s)
Reaper(s) == SelectStuck(s) \/ Reap(s)
People(s) == \E what \in {"skip", "block", "unblock"} : Intend(what, s) \/ Intervene(what, s)

Next ==
    \/ \E w \in Worker : Execution(w) \/ Crash(w)
    \/ \E c \in Letter : Child(c)
    \/ \E s \in Step : Terminate(s) \/ Time(s) \/ Reaper(s) \/ People(s)
    \/ Cancel

Spec == Init /\ [][Next]_vars

\* Workers come back, completion follow-ups are retried, clocks advance and the
\* reaper sweeps every 15 seconds.  Nothing makes a child end.
Fairness ==
    /\ \A w \in Worker : WF_vars(Execution(w))
    /\ \A c \in Letter : WF_vars(Tell(c)) /\ WF_vars(Continue(c))
    /\ \A s \in Step : WF_vars(Time(s)) /\ WF_vars(Reaper(s))

FairSpec == Spec /\ Fairness
-----------------------------------------------------------------------------
(* Properties.                                                              *)

\* A tool's work is done at most once however often its job is delivered: an
\* execution stops at a step that is running, and only the reaper, who fails
\* it, ends the step of a dead worker.
ToolRunsOnce == \A s \in Step : Kind[s] = "tool" => effects[s] <= 1

\* Steps are worked in the order of the graph, one at a time, whoever continues
\* the run, unless a posted mail names one whose turn it is not.
InOrder ==
    \A s \in Step : step[s] \in {"running", "completed", "failed"} =>
        \A t \in 1..(s - 1) : step[t] \in {"completed", "skipped"}

\* A failed run leaves no step reading as still to come, unless it failed by a
\* job of somebody else.
FailedRunHasNothingToCome ==
    run = "failed" /\ (\A k \in Foreign : job[k] # "done") =>
        \A s \in Step : step[s] \notin {"pending", "blocked"}

\* What ended stays as it ended, a run and a step of it: what arrives late finds
\* the guard closed.  And whatever ends a run, finishing, failing, reaping or
\* cancelling, leaves none of its steps waiting or running.  The end of a posted
\* mail's run is such a late word too, and the guard, which is on the run, lets
\* it rewrite a step: this speaks of the mails that the engine wrote.
EndedForGood ==
    [][/\ run \in Ended => run' = run
       /\ \A s \in Step : step[s] \in Over => step'[s] = step[s]
       /\ run' \in Ended => \A s \in Step : step'[s] \notin Open]_vars

\* One of the run's jobs failed as often as the queue delivers it.
GivenUp == \E k \in Key : job[k] = "dead"

\* A run that has not ended and whose jobs the queue still delivers is never
\* forgotten, whoever died in between: it has a job, an agent that is to tell it or
\* to continue it, or a running step on which the reaper has an eye
\* (maybeContinueParentWorkflow, reapStuckWorkflowSteps).  A run whose job died
\* between two steps for the last time has nobody: no sweep looks for one.
ActiveRunHasWork ==
    run \in Active =>
        \/ \E k \in Key : job[k] \in {"queued", "taken"}
        \/ \E c \in Letter : child[c] \in {"good", "owing"}
        \/ \E s \in Step : step[s] = "running" /\ (lease[s] # "none" \/ deadline[s] # "none")
        \/ GivenUp

\* A run ends, whatever its workers and its children do, unless a job of it is
\* dead-lettered.
RunEnds == <>[](run \in Ended \/ GivenUp)
=============================================================================
