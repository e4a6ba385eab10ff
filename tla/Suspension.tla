----------------------------- MODULE Suspension -----------------------------
(***************************************************************************)
(* One run that stops because a person owes it an answer: to a gated tool  *)
(* call (an approval) or to a card posted with `wait: true`.               *)
(*                                                                         *)
(* The worker asks, writes a checkpoint and parks the run, each a step of  *)
(* its own that it may die between; people answer, cancel and let requests *)
(* lapse at any moment, also before the run is parked; and the API's       *)
(* answer to an approval is two transactions, the claim and its effect.    *)
(*                                                                         *)
(* Sources: worker/src/run/execute (run-suspend.ts, card-suspend.ts,       *)
(* tool-approval-requests.ts) and api/src/services (approvals.ts,          *)
(* approval-resume.ts, agent-card-response.ts, agent-card-sweep.ts,        *)
(* run-resume-core.ts, runs.ts).                                           *)
(***************************************************************************)
EXTENDS Naturals

CONSTANTS
    Approvals,   \* approval requests the run may open, one per gated call
    Logins,      \* temporary browser-login cards it may post
    Cards,       \* its other cards: no expiry unless the model asks for one
    Nothing,     \* no request
    MaxExtras    \* bound: deaths of a worker or of an API process

ASSUME KindsAssumption ==
    Approvals \cap Logins = {} /\ Approvals \cap Cards = {} /\ Logins \cap Cards = {}
ASSUME NothingAssumption == Nothing \notin Approvals \cup Logins \cup Cards
ASSUME BoundAssumption == MaxExtras \in Nat

Card == Logins \cup Cards
Request == Approvals \cup Card

VARIABLES
    phase,       \* the run: its status, and while `running` where its worker is
    waitFor,     \* what the worker last asked for
    ckpt,        \* the run's checkpoint
    resumedBy,   \* the request whose answer brought the run back
    state,       \* every request's status
    late,        \* requests past their expiry
    linked,      \* cards whose waitRunId names the run
    effect,      \* each approval's follow-up transaction
    decided,     \* cards whose answer was queued as a message to decide on
    cancelling,  \* how far the cancellation got behind the status
    extras       \* deaths so far

vars == <<phase, waitFor, ckpt, resumedBy, state, late, linked, effect, decided,
          cancelling, extras>>

\* "working", "asked", "saved" and "linked" are all `running` in the database.
Running == {"working", "asked", "saved", "linked"}
Waiting == {"waiting_approval", "waiting_input"}
Terminal == {"completed", "failed", "cancelled"}

\* A request that is "open" is `pending` if an approval, `open` if a card.
Answered == {"approved", "rejected", "resolved", "expired", "cancelled"}

TypeOK ==
    /\ phase \in Running \cup Waiting \cup Terminal
    /\ waitFor \in Request \cup {Nothing}
    /\ ckpt \in {"none", "saved", "own", "taken"}
    /\ resumedBy \in Request \cup {Nothing}
    /\ state \in [Request -> {"none", "open"} \cup Answered]
    /\ late \subseteq Request
    /\ linked \subseteq Card
    /\ effect \in [Approvals -> {"none", "owed", "done", "lost"}]
    /\ decided \subseteq Card
    /\ cancelling \in {"no", "approvals", "cards", "done", "abandoned"}
    /\ extras \in 0..MaxExtras

Init ==
    /\ phase = "working" /\ waitFor = Nothing /\ ckpt = "none" /\ resumedBy = Nothing
    /\ state = [q \in Request |-> "none"]
    /\ late = {} /\ linked = {} /\ decided = {}
    /\ effect = [a \in Approvals |-> "none"]
    /\ cancelling = "no"
    /\ extras = 0

Extra == extras < MaxExtras /\ extras' = extras + 1

Become(q, status) == state' = [state EXCEPT ![q] = status]

runVars == <<phase, waitFor, ckpt, resumedBy>>
requestVars == <<state, late, linked, effect, decided>>

-----------------------------------------------------------------------------
(* The worker.                                                             *)

\* A call that asks again, in a redelivered run, is handed the row it opened
\* the first time, whatever became of it; a card is posted anew.
AskApproval(a) ==
    /\ phase = "working"
    /\ phase' = "asked" /\ waitFor' = a
    /\ state' = IF state[a] = "none" THEN [state EXCEPT ![a] = "open"] ELSE state
    /\ UNCHANGED <<ckpt, resumedBy, late, linked, effect, decided, cancelling, extras>>

PostCard(c) ==
    /\ phase = "working" /\ state[c] = "none"
    /\ phase' = "asked" /\ waitFor' = c
    /\ Become(c, "open")
    /\ UNCHANGED <<ckpt, resumedBy, late, linked, effect, decided, cancelling, extras>>

\* The upsert keeps whoever consumed the checkpoint.
SaveCheckpoint ==
    /\ phase = "asked"
    /\ phase' = "saved"
    /\ ckpt' = IF ckpt = "none" THEN "saved" ELSE ckpt
    /\ UNCHANGED <<waitFor, resumedBy, requestVars, cancelling, extras>>

\* The card learns which run waits for it, unless it was answered meanwhile.
LinkCard ==
    /\ phase = "saved" /\ waitFor \in Card
    /\ phase' = "linked"
    /\ linked' = IF state[waitFor] = "open" THEN linked \cup {waitFor} ELSE linked
    /\ UNCHANGED <<waitFor, ckpt, resumedBy, state, late, effect, decided,
                   cancelling, extras>>

Park ==
    /\ \/ phase = "saved" /\ waitFor \in Approvals /\ phase' = "waiting_approval"
       \/ phase = "linked" /\ phase' = "waiting_input"
    /\ UNCHANGED <<waitFor, ckpt, resumedBy, requestVars, cancelling, extras>>

\* The worker dies and the run is delivered again.  A run somebody is live in
\* finds its own checkpoint in its thread, and claims it.
Crash ==
    /\ phase \in Running
    /\ Extra
    /\ phase' = "working"
    /\ ckpt' \in IF ckpt = "saved" THEN {"saved", "own"} ELSE {ckpt}
    /\ UNCHANGED <<waitFor, resumedBy, requestVars, cancelling>>

Finish ==
    /\ phase = "working"
    /\ phase' \in Terminal
    /\ UNCHANGED <<waitFor, ckpt, resumedBy, requestVars, cancelling, extras>>

-----------------------------------------------------------------------------
(* Bringing the run back: in one transaction the parked run completes and   *)
(* its checkpoint goes to the continuation, or nothing happens.             *)

\* As if the parked status were not asserted again.
Resumable_AnyStatus(status) == phase \notin Running /\ ckpt = "saved"

Resumable(status) == phase = status /\ ckpt = "saved"

Resume(q) == phase' = "completed" /\ ckpt' = "taken" /\ resumedBy' = q /\ UNCHANGED waitFor

\* The run ends without its checkpoint being touched, if it is still parked.
Dismissed(status) ==
    /\ phase' = IF phase = "waiting_approval" THEN status ELSE phase
    /\ UNCHANGED <<waitFor, ckpt, resumedBy>>

-----------------------------------------------------------------------------
(* Approvals.                                                              *)

\* As if the sweep wrote over whatever it had read as pending.
Overdue_AnyStatus(a) == state[a] # "none" /\ a \in late

Overdue(a) == state[a] = "open" /\ a \in late

\* As if a fast approver could answer before the run is parked.
Claimable_BeforePark(a) == state[a] = "open"

\* The first answer to a request still pending wins, once its run is parked.
\* Expiry was checked when the request was read, which may be a while ago.
Claimable(a) == state[a] = "open" /\ phase = "waiting_approval"

Answer(a) ==
    /\ Claimable(a)
    /\ \/ Become(a, "approved")
       \/ Become(a, "rejected")
    /\ effect' = [effect EXCEPT ![a] = "owed"]
    /\ UNCHANGED <<runVars, late, linked, decided, cancelling, extras>>

\* An answer that comes late expires the request, and then closes its run.
AnswerLate(a) ==
    /\ Overdue(a)
    /\ Become(a, "expired")
    /\ effect' = [effect EXCEPT ![a] = "owed"]
    /\ UNCHANGED <<runVars, late, linked, decided, cancelling, extras>>

Outcome(a) == IF state[a] = "rejected" THEN "completed" ELSE "failed"

\* The effect of an answer; a resume that is refused is only noted.
Effect(a) ==
    /\ effect[a] = "owed"
    /\ effect' = [effect EXCEPT ![a] = "done"]
    /\ \/ state[a] = "approved" /\ Resumable("waiting_approval") /\ Resume(a)
       \/ state[a] = "approved" /\ ~Resumable("waiting_approval") /\ UNCHANGED runVars
       \/ state[a] # "approved" /\ Dismissed(Outcome(a))
    /\ UNCHANGED <<state, late, linked, decided, cancelling, extras>>

\* The process dies between the two transactions, or the second one fails and
\* only a note says so.
LoseEffect(a) ==
    /\ effect[a] = "owed"
    /\ Extra
    /\ effect' = [effect EXCEPT ![a] = "lost"]
    /\ UNCHANGED <<runVars, state, late, linked, decided, cancelling>>

\* As if the sweep looked for pending requests only.
Stranded_Pending(a) == FALSE

Stranded(a) == state[a] = "expired" /\ phase = "waiting_approval"

\* The claim and the end of the run share one transaction here; a request that
\* expired some other way, and left its run waiting, is picked up too.
SweepApproval(a) ==
    /\ Overdue(a) \/ Stranded(a)
    /\ Become(a, "expired")
    /\ Dismissed("failed")
    /\ UNCHANGED <<late, linked, effect, decided, cancelling, extras>>

-----------------------------------------------------------------------------
(* Cards.                                                                  *)

InTime(c) == state[c] = "open" /\ c \notin late

\* As if a press whose run cannot be resumed were kept all the same.
PressLinked_Kept(c) ==
    /\ InTime(c) /\ c \in linked
    /\ Become(c, "resolved")
    /\ \/ Resumable("waiting_input") /\ Resume(c)
       \/ ~Resumable("waiting_input") /\ UNCHANGED runVars
    /\ UNCHANGED <<late, linked, effect, decided, cancelling, extras>>

\* A press on a card that names its run brings the run back, or is rolled back
\* with everything it wrote.
PressLinked(c) ==
    /\ InTime(c) /\ c \in linked
    /\ Resumable("waiting_input")
    /\ Become(c, "resolved")
    /\ Resume(c)
    /\ UNCHANGED <<late, linked, effect, decided, cancelling, extras>>

\* The card was read before its run was recorded on it: the answer is a
\* message like any other.  A login cannot be answered that way.
PressUnlinked(c) ==
    /\ InTime(c) /\ c \in Cards
    /\ Become(c, "resolved")
    /\ decided' = decided \cup {c}
    /\ UNCHANGED <<runVars, late, linked, effect, cancelling, extras>>

\* The sweep of plain cards knows nothing of runs.
SweepCard(c) ==
    /\ c \in Cards /\ state[c] = "open" /\ c \in late
    /\ Become(c, "expired")
    /\ UNCHANGED <<runVars, late, linked, effect, decided, cancelling, extras>>

-----------------------------------------------------------------------------
(* Cancelling a parked run: its status, then the requests it leaves.        *)

Cancelled ==
    /\ phase' = "cancelled" /\ cancelling' = "approvals"
    /\ UNCHANGED <<waitFor, ckpt, resumedBy>>

Cancel ==
    /\ phase \in Waiting
    /\ Cancelled
    /\ UNCHANGED <<requestVars, extras>>

CancelApprovals ==
    /\ cancelling = "approvals"
    /\ cancelling' = "cards"
    /\ state' = [q \in Request |->
                    IF q \in Approvals /\ state[q] = "open" THEN "expired" ELSE state[q]]
    /\ UNCHANGED <<runVars, late, linked, effect, decided, extras>>

CancelCards ==
    /\ cancelling = "cards"
    /\ cancelling' = "done"
    /\ state' = [q \in Request |->
                    IF q \in linked /\ state[q] = "open" THEN "cancelled" ELSE state[q]]
    /\ UNCHANGED <<runVars, late, linked, effect, decided, extras>>

AbandonCancel ==
    /\ cancelling \in {"approvals", "cards"}
    /\ Extra
    /\ cancelling' = "abandoned"
    /\ UNCHANGED <<runVars, requestVars>>

\* A login that lapses is expired first; its run is cancelled next, parked on
\* whatever it may be by then, or by a later sweep that finds it still waiting
\* for input.
SweepLogin(c) ==
    /\ c \in linked /\ c \in Logins
    /\ state[c] = "open" /\ c \in late
    /\ Become(c, "expired")
    /\ UNCHANGED <<runVars, late, linked, effect, decided, cancelling, extras>>

Lapsed(c) == c \in linked /\ c \in Logins /\ state[c] = "expired"

FreeLogin(c) ==
    /\ Lapsed(c) /\ phase \in Waiting
    /\ Cancelled
    /\ UNCHANGED <<requestVars, extras>>

-----------------------------------------------------------------------------
\* Approvals and logins always expire; a plain card may.
Lapse(q) ==
    /\ state[q] = "open" /\ q \notin late
    /\ late' = late \cup {q}
    /\ UNCHANGED <<runVars, state, linked, effect, decided, cancelling, extras>>

Worker ==
    \/ \E a \in Approvals : AskApproval(a)
    \/ \E c \in Card : PostCard(c)
    \/ SaveCheckpoint \/ LinkCard \/ Park \/ Crash \/ Finish

ApprovalStep(a) ==
    Answer(a) \/ AnswerLate(a) \/ Effect(a) \/ LoseEffect(a) \/ SweepApproval(a)

CardStep(c) ==
    PressLinked(c) \/ PressUnlinked(c) \/ SweepCard(c) \/ SweepLogin(c) \/ FreeLogin(c)

Next ==
    \/ Worker
    \/ \E a \in Approvals : ApprovalStep(a)
    \/ \E c \in Card : CardStep(c)
    \/ Cancel \/ CancelApprovals \/ CancelCards \/ AbandonCancel
    \/ \E q \in Request : Lapse(q)

Spec == Init /\ [][Next]_vars

\* Time passes and the sweeps run every tick; a process that claimed an answer
\* goes on with its effect unless it dies.  Nobody has to answer anything.
Fairness ==
    /\ \A q \in Approvals \cup Logins : WF_vars(Lapse(q))
    /\ \A a \in Approvals : WF_vars(Effect(a)) /\ WF_vars(SweepApproval(a))
    /\ \A c \in Logins : WF_vars(SweepLogin(c)) /\ WF_vars(FreeLogin(c) /\ phase = "waiting_input")

FairSpec == Spec /\ Fairness

-----------------------------------------------------------------------------
(* Properties.                                                             *)

\* The run comes back on an answer that was given: the approval it names is
\* approved, not rejected or expired, the card resolved and linked to the run.
BackOnAnAnswer ==
    /\ resumedBy \in Approvals => state[resumedBy] = "approved"
    /\ resumedBy \in Card => state[resumedBy] = "resolved" /\ resumedBy \in linked

\* A run that ended stays as it ended, whatever effect, press or sweep was
\* still on its way: a cancelled run is not brought back by a late approval.
EndedStaysEnded ==
    [][(phase \in Terminal) => phase' = phase /\ resumedBy' = resumedBy]_vars

\* An answer whose effect cannot be carried out any more, and that nothing
\* looks at again: the effect was lost, or the redelivered run had claimed the
\* checkpoint the resume needs.
Unheeded(a) == effect[a] = "lost" \/ (effect[a] = "done" /\ ckpt = "own")

\* A run parked on an approval is parked on something that will still happen:
\* the request is pending, or expired and the sweep will find it, or answered
\* with its effect to come.  The guard on the run's status in the claim is
\* there for this ("a fast approver could mark it approved between request
\* creation and suspension, with no future effect invocation to resume it",
\* approvals.ts).
ParkedOnADecision ==
    phase = "waiting_approval" =>
        \/ state[waitFor] \in {"open", "expired"}
        \/ effect[waitFor] = "owed"
        \/ Unheeded(waitFor)

\* A press that was accepted reached somebody: the run it brought back, or the
\* agent, as a message.  A press that cannot resume its run is rolled back.
PressIsHeard ==
    \A c \in Card : state[c] = "resolved" => resumedBy = c \/ c \in decided

\* A run does not wait for an approval for ever, also when the request lapses
\* before the run is parked or between the two transactions of a late answer;
\* nor for a temporary login, although the sweep expires the card in one
\* transaction and cancels the run in another.
ApprovalWaitEnds ==
    phase = "waiting_approval" ~>
        phase # "waiting_approval" \/ Unheeded(waitFor)
LoginWaitEnds ==
    phase = "waiting_input" /\ waitFor \in Logins ~> phase # "waiting_input"
WaitsEnd == ApprovalWaitEnds /\ LoginWaitEnds

=============================================================================
