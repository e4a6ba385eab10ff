--------------------------- MODULE WorkflowOverlap ---------------------------
(***************************************************************************)
(* The runs of one workflow installation and its overlap policy.           *)
(*                                                                         *)
(* A fire asks under the installation's lock whether it is admitted,       *)
(* withheld until a run ends, or skipped; the API's own dispatch of a      *)
(* trigger asks nobody.  A run that ends releases the oldest withheld one: *)
(* a cancellation in its own transaction, the executor in a second one,    *)
(* the other seams that end runs not at all.                               *)
(*                                                                         *)
(* Sources: packages/team-admin/src/workflow-concurrency.ts and            *)
(* workflow-run-start.ts, worker/src/control/workflow-trigger-run.ts and   *)
(* workflows.ts, worker/src/run/workflow-step-finish.ts, and               *)
(* workflow-run-controls.ts and trigger-dispatch-workflow.ts under         *)
(* api/src/services.                                                       *)
(***************************************************************************)
EXTENDS Naturals, FiniteSets

CONSTANTS
    Fires,     \* bound: fires of the installation, numbered in their order
    Limit,     \* the policy's limit
    OnOverlap, \* what it does at the limit
    Depth,     \* how many runs may be withheld
    Happens    \* what happens besides runs that the executor ends

Run == 1..Fires

\* "elsewhere": runs end with an asynchronous step.  "lost": a release fails.
ASSUME CountsAssumption == Fires \in Nat /\ Limit \in Nat \ {0} /\ Depth \in Nat
ASSUME PolicyAssumption == OnOverlap \in {"parallel", "queue", "skip"}
ASSUME HappensAssumption == Happens \subseteq {"elsewhere", "lost"}

VARIABLES
    status,    \* what became of every fire
    withheld,  \* pending runs that wait for a slot
    job,       \* the queue job that starts the run
    freeing,   \* ended runs whose executor has not released the slot yet
    missed     \* history: an end was not followed by a release

vars == <<status, withheld, job, freeing, missed>>

TypeOK ==
    /\ status \in [Run -> {"none", "skipped", "pending", "running", "ended"}]
    /\ withheld \subseteq Run
    /\ job \in [Run -> {"none", "queued", "nobody's", "done", "dead"}]
    /\ freeing \subseteq {r \in Run : status[r] = "ended"}
    /\ missed \in BOOLEAN

Init ==
    /\ status = [r \in Run |-> "none"]
    /\ withheld = {} /\ freeing = {} /\ missed = FALSE
    /\ job = [r \in Run |-> "none"]

\* An admitted run counts once its executor has started it, not before.
Active(st) == Cardinality({r \in Run : st[r] = "running"})

Room == OnOverlap = "parallel" \/ Active(status) < Limit

MayWait == OnOverlap = "queue" /\ Cardinality(withheld) < Depth

NextFire(r) == status[r] = "none" /\ \A q \in 1..(r - 1) : status[q] # "none"

Started(r) ==
    /\ status' = [status EXCEPT ![r] = "pending"]
    /\ job' = [job EXCEPT ![r] = "queued"]
    /\ UNCHANGED <<withheld, freeing, missed>>

Admit(r) == NextFire(r) /\ Room /\ Started(r)

\* The API's own dispatch of a trigger creates the run and its job with neither
\* the lock nor the policy.
AdmitUnasked(r) == NextFire(r) /\ Started(r)

Withhold(r) ==
    /\ NextFire(r) /\ ~Room /\ MayWait
    /\ status' = [status EXCEPT ![r] = "pending"]
    /\ withheld' = withheld \cup {r}
    /\ UNCHANGED <<job, freeing, missed>>

Skip(r) ==
    /\ NextFire(r) /\ ~Room /\ ~MayWait
    /\ status' = [status EXCEPT ![r] = "skipped"]
    /\ UNCHANGED <<withheld, job, freeing, missed>>

\* As if any withheld run could be released.
Oldest_Any(waiting) == waiting

Oldest(waiting) == {r \in waiting : \A q \in waiting : r <= q}

\* As if a cancellation released nobody.
Release_Nobody(st, waiting) == withheld' = waiting /\ UNCHANGED job

\* The released run's job names nobody as its actor.
Release(st, waiting) ==
    \/ /\ OnOverlap = "queue" /\ Active(st) < Limit
       /\ \E r \in Oldest(waiting) :
            /\ withheld' = waiting \ {r}
            /\ job' = [job EXCEPT ![r] = "nobody's"]
    \/ /\ OnOverlap # "queue" \/ Active(st) >= Limit \/ waiting = {}
       /\ withheld' = waiting /\ UNCHANGED job

Start(r) ==
    /\ job[r] = "queued" /\ job' = [job EXCEPT ![r] = "done"]
    /\ status' = [status EXCEPT ![r] = IF @ = "pending" THEN "running" ELSE @]
    /\ UNCHANGED <<withheld, freeing, missed>>

\* The payload of a released run does not parse, however often it is tried.
DeadLetter(r) ==
    /\ job[r] = "nobody's" /\ job' = [job EXCEPT ![r] = "dead"]
    /\ UNCHANGED <<status, withheld, freeing, missed>>

\* In the executor: at the end of the run, or because the job that starts it is
\* of another actor.
End(r) ==
    /\ \/ status[r] = "running" /\ UNCHANGED job
       \/ status[r] = "pending" /\ job[r] = "queued" /\ job' = [job EXCEPT ![r] = "done"]
    /\ status' = [status EXCEPT ![r] = "ended"]
    /\ freeing' = freeing \cup {r}
    /\ UNCHANGED <<withheld, missed>>

Free(r) ==
    /\ r \in freeing /\ freeing' = freeing \ {r}
    /\ Release(status, withheld)
    /\ UNCHANGED <<status, missed>>

LoseRelease(r) ==
    /\ "lost" \in Happens /\ r \in freeing /\ freeing' = freeing \ {r}
    /\ missed' = TRUE /\ UNCHANGED <<status, withheld, job>>

\* Where a child, an environment or the reaper finishes the last step.
EndElsewhere(r) ==
    /\ "elsewhere" \in Happens /\ status[r] = "running"
    /\ status' = [status EXCEPT ![r] = "ended"]
    /\ missed' = TRUE /\ UNCHANGED <<withheld, job, freeing>>

Cancel(r) ==
    /\ status[r] \in {"pending", "running"}
    /\ status' = [status EXCEPT ![r] = "ended"]
    /\ Release(status', withheld \ {r})
    /\ UNCHANGED <<freeing, missed>>

Fire(r) == Admit(r) \/ AdmitUnasked(r) \/ Withhold(r) \/ Skip(r)
Execute(r) == Start(r) \/ DeadLetter(r) \/ End(r) \/ Free(r) \/ LoseRelease(r)

Next == \E r \in Run : Fire(r) \/ Execute(r) \/ EndElsewhere(r) \/ Cancel(r)

Spec == Init /\ [][Next]_vars

-----------------------------------------------------------------------------
(* Properties.                                                              *)

\* A stalled installation does not accumulate withheld runs, whatever cancels,
\* releases and fires come in between.
DepthKept == Cardinality(withheld) <= Depth

\* Runs are released in the order of their fires.
FirstInFirstReleased ==
    [][\A r \in withheld \ withheld' : status'[r] = "pending" => \A q \in withheld' : r < q]_vars

\* A withheld run does not execute before it is released.
WithheldWaits == \A r \in withheld : status[r] = "pending" /\ job[r] = "none"

\* As long as every end was followed by a release, a withheld run waits for
\* somebody: a run whose end releases it, when it comes, or a release that is
\* under way.
SomebodyReleases ==
    withheld # {} /\ ~missed =>
        \/ freeing # {}
        \/ \E r \in Run \ withheld : status[r] \in {"pending", "running"}
=============================================================================
