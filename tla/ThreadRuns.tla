----------------------------- MODULE ThreadRuns -----------------------------
(***************************************************************************)
(* The runs of one (agent, principal, thread): who may start one, what     *)
(* becomes of the messages that arrive while one is in flight, and how the *)
(* work of a run that stopped early is picked up again.                    *)
(*                                                                         *)
(* Claims, drains, restarts and continuations take the advisory lock of    *)
(* the tuple, so each is one atomic step; what interleaves is everything   *)
(* between them: decide jobs delivered more than once, workers that die    *)
(* after a commit, presses decided on a page read a while ago, and         *)
(* continuations that queue again behind whoever holds the slot.  A        *)
(* product's handoff takes no lock and starts its run beside another one.  *)
(*                                                                         *)
(* Sources: packages/db/src/thread-serialization.ts, the decide job in     *)
(* worker/src/run/orchestrate-dispatch.ts, continuation.ts and             *)
(* checkpoint.ts under worker/src/run/execute, and cancel, restart and     *)
(* continue, and integration-handoffs.ts, under api/src/services.          *)
(***************************************************************************)
EXTENDS Naturals, FiniteSets

CONSTANTS
    Messages,    \* messages, numbered in the order they arrive in the thread
    Alone,       \* those whose pending row drains alone
    Scheduled,   \* those of a schedule that carries a checklist
    MaxTries,    \* attempts of an automatic continuation (12 in the code)
    MaxStops,    \* bound: runs that stop early or park
    MaxExtras    \* bound: redeliveries, crashes, restarts and handoffs, together

ASSUME MessagesAssumption == Messages \in Nat /\ Messages > 0
ASSUME KindsAssumption == Alone \subseteq 1..Messages /\ Scheduled \subseteq 1..Messages
ASSUME BoundsAssumption ==
    MaxTries \in Nat /\ MaxTries > 0 /\ MaxStops \in Nat /\ MaxExtras \in Nat

Message == 1..Messages

\* Every run takes a message, follows a stop, a redelivery or a restart, or is
\* a handoff's.
MaxRuns == Messages + MaxStops + MaxExtras
Run == 1..MaxRuns

NoRun == 0
Kickoff == 0    \* the hidden message a drain writes for scheduled work
HandOver == Messages + 1    \* the message a product's handoff writes

Input == Message \cup {Kickoff, HandOver}

Attempt == 1..MaxTries

VARIABLES
    decide,      \* each message's decide job
    pend,        \* messages with a pending row
    run,         \* the runs, as rows
    made,        \* how many runs there are
    saved,       \* runs that left a resumable checkpoint
    consumer,    \* the run that claimed each run's checkpoint
    pressed,     \* runs somebody read as continuable, and may press Continue on
    tries,       \* each stopped run's automatic continuation, attempt by attempt
    extras       \* redeliveries, crashes, restarts and handoffs so far

vars == <<decide, pend, run, made, saved, consumer, pressed, tries, extras>>
resumeVars == <<saved, consumer, pressed, tries>>

\* "setup", "working" and "saved" are all `running` in the database; "waiting"
\* is waiting_approval or waiting_input; "unfinished" is failed or cancelled,
\* the two statuses a run may be restarted from.
Running == {"setup", "working", "saved"}
Terminal == {"completed", "unfinished"}
Active == {"pending", "waiting"} \cup Running
Status == {"none"} \cup Active \cup Terminal

NoSuchRun == [status |-> "none", trigger |-> Kickoff, fed |-> {}, continues |-> NoRun]

TypeOK ==
    /\ decide \in [Message -> {"none", "queued", "done"}]
    /\ pend \subseteq Message
    /\ run \in [Run -> [status : Status, trigger : Input,
                        fed : SUBSET Message, continues : Run \cup {NoRun}]]
    /\ made \in Run \cup {0}
    /\ saved \subseteq Run
    /\ consumer \in [Run -> Run \cup {NoRun}]
    /\ \A r \in Run : consumer[r] # NoRun => r \in saved
    /\ pressed \subseteq saved
    /\ tries \in [Run -> [Attempt -> {"none", "queued", "done"}]]
    /\ extras \in 0..MaxExtras

Init ==
    /\ decide = [m \in Message |-> "none"]
    /\ pend = {}
    /\ run = [r \in Run |-> NoSuchRun]
    /\ made = 0
    /\ saved = {}
    /\ consumer = [r \in Run |-> NoRun]
    /\ pressed = {}
    /\ tries = [r \in Run |-> [n \in Attempt |-> "none"]]
    /\ extras = 0

\* Something the design does not count on happened, within the bound.
Extra == extras < MaxExtras /\ extras' = extras + 1

-----------------------------------------------------------------------------
(* The slot.                                                               *)

\* As if parked runs did not hold the slot.
SlotBusy_Parked == \E r \in Run : run[r].status \in Active \ {"waiting"}

\* As if only a completed run gave the slot up.
SlotBusy_Unfinished == \E r \in Run : run[r].status \in Active \cup {"unfinished"}

\* What findActiveThreadRun answers, a handoff's run included.
SlotBusy == \E r \in Run : run[r].status \in Active

New(trigger, fed, continues) ==
    [status |-> "pending", trigger |-> trigger, fed |-> fed, continues |-> continues]

\* A new row; whoever takes the slot for it found it free.
Start(row) ==
    /\ made < MaxRuns
    /\ made' = made + 1
    /\ run' = [run EXCEPT ![made + 1] = row]

\* A product hands a person's wish to their assistant: the run is made without
\* the lock, whoever has the slot.
Handoff ==
    /\ Extra
    /\ Start(New(HandOver, {}, NoRun))
    /\ UNCHANGED <<decide, pend, resumeVars>>

\* Its lifecycle is the product's: nobody cancels, restarts or continues it.
HandoffManaged(r) == run[r].trigger = HandOver

Set(r, status) == run' = [run EXCEPT ![r].status = status]

-----------------------------------------------------------------------------
(* Deciding on a message: a claim of the slot, or a pending row.           *)

Arrive(m) ==
    /\ decide[m] = "none"
    /\ \A k \in Message : k < m => decide[k] # "none"
    /\ decide' = [decide EXCEPT ![m] = "queued"]
    /\ UNCHANGED <<pend, run, made, resumeVars, extras>>

\* The job is acknowledged, or its worker dies after the commit and it comes
\* again.
Acknowledged(m) ==
    \/ decide' = [decide EXCEPT ![m] = "done"] /\ UNCHANGED extras
    \/ Extra /\ UNCHANGED decide

\* As if only a run still in flight proved the delivery.
Delivered_InFlight(m) ==
    m \in pend \/ \E r \in Run : run[r].status \in Active /\ run[r].trigger = m

Delivered(m) == m \in pend \/ \E r \in Run : run[r].status # "none" /\ run[r].trigger = m

Decide(m) ==
    /\ decide[m] = "queued"
    /\ Acknowledged(m)
    /\ \/ Delivered(m) /\ UNCHANGED <<pend, run, made>>
       \/ ~Delivered(m) /\ SlotBusy /\ pend' = pend \cup {m} /\ UNCHANGED <<run, made>>
       \/ ~Delivered(m) /\ ~SlotBusy /\ Start(New(m, {m}, NoRun)) /\ UNCHANGED pend
    /\ UNCHANGED resumeVars

-----------------------------------------------------------------------------
(* Draining the pending rows into one follow-up run: after a terminal      *)
(* status, as far as the worker lives that long, and by a sweep.           *)

Before(m, rows) == \A k \in rows : m < k
First(rows) == {m \in rows : \A k \in rows : m <= k}

Batch(rows) ==
    LET ordinary == {m \in rows : Before(m, rows \cap Alone)}
    IN  IF ordinary # {} THEN ordinary ELSE First(rows)

Undrained_None(batch) == {}

\* As if the drain deleted every row of the thread.
Undrained(batch) == pend \ batch
Latest(batch) == CHOOSE m \in batch : \A k \in batch : k <= m

Trigger(batch) == IF batch \cap Scheduled # {} THEN Kickoff ELSE Latest(batch)

Drain ==
    /\ ~SlotBusy
    /\ pend # {}
    /\ Start(New(Trigger(Batch(pend)), Batch(pend), NoRun))
    /\ pend' = Undrained(Batch(pend))
    /\ UNCHANGED <<decide, resumeVars, extras>>

-----------------------------------------------------------------------------
(* A run's life, as far as the slot and the checkpoints see it.            *)

Begin(r) ==
    /\ run[r].status = "pending"
    /\ Set(r, "setup")
    /\ UNCHANGED <<decide, pend, made, resumeVars, extras>>

Unconsumed == {c \in saved : consumer[c] = NoRun}

HandedTo(r) == {c \in saved : consumer[c] = r}

\* Run setup resumes the checkpoint claimed for this run; without one, a
\* person's own turn claims the newest one left in the conversation that the
\* person may read.
LoadCheckpoint(r) ==
    /\ run[r].status = "setup"
    /\ Set(r, "working")
    /\ \/ UNCHANGED consumer
       \/ /\ HandedTo(r) = {}
          /\ \E c \in Unconsumed : consumer' = [consumer EXCEPT ![c] = r]
    /\ UNCHANGED <<decide, pend, made, saved, pressed, tries, extras>>

\* The checkpoint of a stop or of a suspension: an upsert of the run's row.
SaveCheckpoint(r) ==
    /\ run[r].status = "working"
    /\ Cardinality(saved \cup {r}) <= MaxStops
    /\ Set(r, "saved")
    /\ saved' = saved \cup {r}
    /\ UNCHANGED <<decide, pend, made, consumer, pressed, tries, extras>>

\* The worker dies; a redelivery of the job takes the run over.
Crash(r) ==
    /\ run[r].status \in {"working", "saved"}
    /\ Extra
    /\ Set(r, "setup")
    /\ UNCHANGED <<decide, pend, made, resumeVars>>

End(r) ==
    /\ \/ run[r].status = "working" /\ \E s \in Terminal : Set(r, s)
       \/ run[r].status = "setup" /\ Set(r, "unfinished")
    /\ UNCHANGED <<decide, pend, made, resumeVars, extras>>

\* A run stopped at a ceiling, after its checkpoint.  One nobody is live in
\* continues by itself: the first attempt is a call of the same worker.
Stop(r) ==
    /\ run[r].status = "saved"
    /\ \E s \in Terminal : Set(r, s)
    /\ \/ UNCHANGED tries
       \/ ~HandoffManaged(r) /\ tries' = [tries EXCEPT ![r][1] = "queued"]
    /\ UNCHANGED <<decide, pend, made, saved, consumer, pressed, extras>>

Park(r) ==
    /\ run[r].status = "saved"
    /\ Set(r, "waiting")
    /\ UNCHANGED <<decide, pend, made, resumeVars, extras>>

\* A rejected or expired request ends the run it parked.
Dismiss(r) ==
    /\ run[r].status = "waiting"
    /\ \E s \in Terminal : Set(r, s)
    /\ UNCHANGED <<decide, pend, made, resumeVars, extras>>

\* A queued or parked run is cancelled at once; a running one when its loop
\* sees the flag, which is End.
Cancel(r) ==
    /\ ~HandoffManaged(r)
    /\ run[r].status \in {"pending", "waiting"}
    /\ Set(r, "unfinished")
    /\ UNCHANGED <<decide, pend, made, resumeVars, extras>>

Restart(r) ==
    /\ ~HandoffManaged(r)
    /\ run[r].status = "unfinished"
    /\ ~SlotBusy
    /\ Extra
    /\ Start(New(run[r].trigger, {}, NoRun))
    /\ UNCHANGED <<decide, pend, resumeVars>>

-----------------------------------------------------------------------------
(* Picking up the work of a run that stopped.                              *)

\* As if the transaction trusted what was read before it.
Resumable_Read(r) == r \in saved

\* The checkpoint, if nobody claimed it yet, goes to a run made for it.
Resumable(r) == r \in saved /\ consumer[r] = NoRun

Continuation(r) ==
    /\ Resumable(r)
    /\ made < MaxRuns
    /\ consumer' = [consumer EXCEPT ![r] = made + 1]
    /\ UNCHANGED <<decide, pend, saved, pressed, extras>>

\* Continue is offered on what the page showed ...
OfferContinue(r) ==
    /\ ~HandoffManaged(r)
    /\ run[r].status \in Terminal
    /\ r \in saved /\ consumer[r] = NoRun
    /\ pressed' = pressed \cup {r}
    /\ UNCHANGED <<decide, pend, run, made, saved, consumer, tries, extras>>

\* ... and decided in a transaction that may come much later, or again.
PressContinue(r) ==
    /\ r \in pressed
    /\ ~SlotBusy
    /\ Continuation(r)
    /\ Start(New(run[r].trigger, {}, r))
    /\ UNCHANGED tries

\* An approval or a card press brings a parked run back: it ends, and its
\* continuation starts, in one transaction.
ResumeParked(r) ==
    /\ run[r].status = "waiting"
    /\ \A k \in Run \ {r} : run[k].status \notin Active
    /\ Continuation(r)
    /\ made' = made + 1
    /\ run' = [run EXCEPT ![r].status = "completed",
                          ![made + 1] = New(run[r].trigger, {}, r)]
    /\ UNCHANGED tries

\* As if the key did not name the attempt: only the first one is ever queued.
Requeue_OneKey(job, n) ==
    [job EXCEPT ![n] = "done",
                ![n + 1] = IF n = 1 /\ job[n + 1] = "none" THEN "queued" ELSE job[n + 1]]

\* The key of an attempt is taken once.
Requeue(job, n) ==
    [job EXCEPT ![n] = "done",
                ![n + 1] = IF job[n + 1] = "none" THEN "queued" ELSE job[n + 1]]

Done(r, n) == [tries EXCEPT ![r][n] = "done"]

\* Nothing is left to resume; or the slot is taken and the continuation
\* queues again, until its last attempt; or it starts.
AutoContinue(r, n) ==
    /\ tries[r][n] = "queued"
    /\ \/ /\ ~Resumable(r)
          /\ tries' = Done(r, n)
          /\ UNCHANGED <<decide, pend, run, made, saved, consumer, pressed, extras>>
       \/ /\ Resumable(r) /\ SlotBusy
          /\ tries' = IF n < MaxTries THEN [tries EXCEPT ![r] = Requeue(@, n)]
                                      ELSE Done(r, n)
          /\ UNCHANGED <<decide, pend, run, made, saved, consumer, pressed, extras>>
       \/ /\ ~SlotBusy
          /\ Continuation(r)
          /\ Start(New(run[r].trigger, {}, r))
          /\ tries' = Done(r, n)

\* The first attempt dies with its worker; a later one is a job, and a worker
\* that dies after the commit leaves it to be delivered again.
LoseFirstTry(r) ==
    /\ tries[r][1] = "queued"
    /\ tries' = Done(r, 1)
    /\ UNCHANGED <<decide, pend, run, made, saved, consumer, pressed, extras>>

RepeatTry(r, n) ==
    /\ n > 1
    /\ tries[r][n] = "done"
    /\ Extra
    /\ tries' = [tries EXCEPT ![r][n] = "queued"]
    /\ UNCHANGED <<decide, pend, run, made, saved, consumer, pressed>>

-----------------------------------------------------------------------------
RunStep(r) ==
    \/ Begin(r) \/ LoadCheckpoint(r) \/ SaveCheckpoint(r) \/ Crash(r)
    \/ End(r) \/ Stop(r) \/ Park(r)

Outside(r) ==
    \/ Dismiss(r) \/ Cancel(r) \/ Restart(r)
    \/ OfferContinue(r) \/ PressContinue(r) \/ ResumeParked(r)

Next ==
    \/ \E m \in Message : Arrive(m) \/ Decide(m)
    \/ Drain
    \/ Handoff
    \/ \E r \in Run : RunStep(r) \/ Outside(r) \/ LoseFirstTry(r)
    \/ \E r \in Run, n \in Attempt : AutoContinue(r, n) \/ RepeatTry(r, n)

Spec == Init /\ [][Next]_vars

\* The run that has the slot, as far as its worker takes it.
GoesOn == \E r \in Run : Begin(r) \/ LoadCheckpoint(r) \/ End(r) \/ Stop(r) \/ Park(r)

\* The sweep runs every ten seconds, the queue delivers, and a run that a
\* worker took ends or parks (RunExecution, EveryRunSettles).  Nothing says
\* that a person ever answers a parked run.
Fairness ==
    /\ WF_vars(Drain)
    /\ WF_vars(GoesOn)
    /\ WF_vars(\E r \in Run, n \in Attempt : AutoContinue(r, n))

FairSpec == Spec /\ Fairness

-----------------------------------------------------------------------------
(* Properties.                                                             *)

\* A run is made beside another one in flight, a parked one included, only by
\* a product's handoff: a decision, a drain, a restart, a press, a resumption
\* and an automatic continuation each find the slot free, of handoffs' runs
\* too (thread-serialization.ts, findActiveThreadRun under the advisory lock).
\* The invariant its header states, one run in flight, holds among these.
MadeByHandoff(r) == HandoffManaged(r) /\ run[r].continues = NoRun
OneActiveRun ==
    \A a, b \in Run :
        /\ a < b
        /\ run[a].status \in Active /\ run[b].status \in Active
        => MadeByHandoff(b)

\* A message whose decide job committed waits in a pending row or was taken by
\* a run, whatever worker died in between: the row is deleted only by the
\* transaction that creates the run which folds it in.
Taken(m) == \E r \in Run : m \in run[r].fed
NothingLost ==
    \A m \in Message : decide[m] = "done" => m \in pend \/ Taken(m)

\* A message is taken a second time only if the run that took it first was
\* triggered by another one, that is, behind a batch: the duplicate guard
\* looks at the trigger of the thread's runs and at pending rows, no further.
TakenAgainOnlyBehindBatch ==
    \A a, b \in Run, m \in Message :
        a < b /\ m \in run[a].fed /\ m \in run[b].fed => run[a].trigger # m

\* A run made to continue another one's work holds that one's checkpoint, so a
\* stopped run is continued once, however many presses, replies and automatic
\* attempts meet.
ContinuedOnce ==
    \A c \in Run :
        run[c].continues # NoRun => consumer[run[c].continues] = c

\* Every pended message is taken by a follow-up run, or its thread waits for a
\* person: again and again no row is left, or a run is parked.  The drain after
\* a terminal status may be lost, the sweep is not.
EveryPendedMessageRuns == []<>(pend = {} \/ \E r \in Run : run[r].status = "waiting")

\* A continuation that queued itself behind a taken slot goes on trying: in the
\* end each has been claimed or has used up its attempts
\* (startAutoContinuation).
Trying(r) == MaxTries > 1 /\ tries[r][2] # "none"
AutoContinuationKeepsTrying ==
    []<>(\A r \in Run :
            Trying(r) => consumer[r] # NoRun \/ tries[r][MaxTries] = "done")

=============================================================================
