# Nessie: a TLA+ development

Nessie runs AI agents for organizations. A person posts a message, an agent run
is created, and a fleet of identical worker processes executes such runs: they
ask language models, call tools with effects in the world, and post an answer.
Everything shared lives in Postgres. Workers crash, are drained on every deploy,
lose their locks and are taken over; people press, cancel and reply at any moment.
What makes the product correct is that a message is nevertheless taken up once, its
run is answered once, its tools take effect once, and no run is forgotten. That is
the part of the system this directory is about.

The modules were translated from the TypeScript source. `PROJECT.json` gives,
for every definition that models code, the file and lines it stands for.

| Module | What it models | Checked by | Proved in |
| --- | --- | --- | --- |
| `QueueContract` | what a job is to the handlers that consume it (abstract) | `MCJobQueue`, `MCRunExecution` | |
| `RunContract` | what a run is to the executions started for it (abstract) | `MCRunExecution` | |
| `JobQueue` | the durable queue, its consumers and the worker drain | `MCJobQueue` | `JobQueueProofs` |
| `RunExecution` | one run over all deliveries of its job | `MCRunExecution` | `RunExecutionProofs` |
| `ToolCalls` | the tool batches of one run over all its executions | `MCToolCalls` | `ToolCallsProofs` |
| `ThreadRuns` | the runs of one agent, principal and thread | `MCThreadRuns` | `ThreadRunsProofs` |
| `Suspension` | one run that waits for people: approvals and cards | `MCSuspension` | `SuspensionProofs` |
| `Budget` | admission of runs to one enforcing budget | `MCBudget`, `MCBudgetTotals` | `BudgetProofs` |
| `WorkflowRun` | one run of a workflow over all its jobs | `MCWorkflowRun` | `WorkflowRunProofs` |
| `WorkflowOverlap` | the runs of one workflow installation | `MCWorkflowOverlap` | `WorkflowOverlapProofs` |

To check a run: `tlc -config ToolCalls.cfg MCToolCalls`; to check the proofs of a
module: `tlapm ToolCallsProofs.tla`.

## 1. The system

### Components

| Component | State it keeps | Operations | Hard behaviour | What makes it correct |
| --- | --- | --- | --- | --- |
| Durable job queue (`packages/runtime/src/queue.ts`, `packages/db/src/queue.ts`) | `queue_jobs`: status, attempt, max_attempts, locked_until, enqueued_at; in memory the claimed job, its settle gate, renewal misses | keyed enqueue, claim with SKIP LOCKED, renew, acknowledge, nack, retry after, dead sweep | statements that land late, lost replies, lock expiry under a working handler | one holder per (id, attempt); only a holder settles; an ended job stays ended; every job ends |
| Worker drain (`worker/src/lifecycle.ts`) | stopping flag, drain deadline | stop claiming, wait, abandon, close transports, exit | a handler that ignores its signal; a settle in flight at the deadline | each claim is settled once; a drain ends |
| Run execution (`worker/src/run/execute/`) | `runs`: status, executor_token, executor_heartbeat_at, cancel_requested_at; in memory the fence | admission, claim, heartbeat, hand-back, success transaction and its readback, failure, cancellation, suspension, status writes | takeover of silent executors; stale snapshots; lost commit acknowledgements; failing cleanups | one answer; an answer is final; a superseded executor is harmless; no run is orphaned |
| Crash checkpoint (`crash-checkpoint.ts`) | `run_checkpoints.crash_state`: transcript, pending batch, tool results | write fenced on the token, load after the claim, clear | a writer that was taken over; a write that fails unnoticed | what was committed is not lost; a resume does not repeat a closed batch |
| Tool batches and effect ledger (`tool-batch.ts`, `loop-resume.ts`, `tool-effect-ledger.ts`) | `run_tool_effects` rows; the recorder's results; the chain of persists | prepare all, claim, dispatch, settle, withdraw, replay, persist | a crash between effect and record; overlapping calls; calls that outlive their timeout | a recorded call takes effect at most once |
| Agentic loop (`agentic-loop.ts`) | transcript, budgets, counters | boundary, inference, batch, compaction, stop | re-entry of a batch; a drain that abandons one | a saved turn takes effect under one id |
| Thread serialization (`thread-serialization.ts`) | pending rows of messages, the active run | claim the slot or pend, drain a batch into a follow-up run, sweep | decide jobs delivered again; a worker that dies between a terminal status and the drain | one run in flight per tuple, but for product handoffs; no message is lost; what pended is taken up |
| Stopped and restarted runs (`checkpoint.ts`, `continuation.ts`, `run-restart.ts`, `run-continue.ts`) | a run's checkpoint and who consumed it; the keyed attempts of a continuation | stop with a checkpoint, continue by itself, by a press or by a reply, restart | a press, a reply and an attempt at once; a slot that is taken; attempts delivered twice | a stopped run is continued once, and continuing it is not given up while attempts are left |
| Approvals and cards (`run-suspend.ts`, `card-suspend.ts`, `approvals.ts`, `agent-card-*.ts`, `run-resume-core.ts`) | parked runs, approval requests, cards and the run each names | ask, park, answer, expire, sweep, cancel, resume by a new run | an answer before the run is parked; two people at once; a claim whose effect is lost | a run comes back only on an answer that was given; an accepted press is heard; an approval or a login does not keep a run for ever |
| Budget reservations and gate (`budget.ts`, `budget-reservations.ts`, `budget-gate.ts`) | ledger, reservations per run | admit, reserve, record, release, sweep | admission while others record, release, end and die | reservations that had to fit pass the cap by less than one of them; ended runs hold nothing back |
| Completion follow-up and realtime (`completion-followup.ts`, `realtime*.ts`) | a keyed job per answer; a sequence per scope | replay, publish | replays and reordering | events of a scope appear in order |
| Trigger scheduler and sweeps (`trigger-scheduler.ts`, `worker-sweeps.ts`) | next firing times, sweep locks | fire, sweep | several replicas awake at once | a slot fires once |
| Workflow engine (`control/workflows.ts`, `run/workflows.ts`, `workflow-step-reaper.ts`, `workflow-run-controls.ts`) | workflow runs and their step rows: status, lease, deadline; the mail or environment of a step | start, work, suspend, continue, finish, reap, cancel, skip, block, unblock | rows read in one statement and written in another, unguarded; answers that come late or twice; workers that die in a step | steps are worked in order, tools once; a run that ended stays ended and has nothing left open; every run ends, unless its job was dead-lettered |
| Workflow overlap policy (`workflow-concurrency.ts`, `workflow-trigger-run.ts`) | pending runs that wait for a slot | admit, withhold, skip, release | an end and its release are two transactions; ends that release nobody | runs wait in order and bounded, and somebody releases them |
| Document sessions (`document-session-reaper.ts`) | sessions with a claim | claim, heartbeat, reap | reaper against a live holder | one holder per session |
| Push claims, rate-limit windows | one row each | conditional insert, upsert | two workers at once | one winner |
| Executor daemon (`executor/`) | durable command state on a person's machine | accept, run, report | restart between the two | a command runs at most once |
| API, applications, connectors, retrieval, knowledge | requests and projections | CRUD, calls of outside services | little concurrency of their own | authorization and presentation, outside this development |

### How they interact

A message becomes a keyed `orchestrate.decide` job. Its handler claims the slot of
the (agent, principal, thread) tuple, which inserts a `runs` row and a
`run.execute` job, or leaves a pending row behind the run that has the slot. The
queue delivers jobs to workers, numbering deliveries by `attempt`. The execution
asks the budget, reserves the run's ceiling, and claims the run by writing a fresh
`executor_token`; from then on every write it makes names that token, and a
heartbeat keeps others from claiming the run. It loads the crash checkpoint, if
there is one, and runs the loop: save, ask, save, dispatch a batch. Each effectful
call commits a ledger row before it is made. The end of the run is one fenced
transaction (success) or one fenced status write (anything else), behind which the
checkpoint and the effect rows are deleted and the tuple's pending rows are
drained into one follow-up run. If the execution stops in between, the queue
delivers the job again, and the next execution takes the run over once the
heartbeat is two minutes old.

A run that needs a person writes a checkpoint and parks. The answer ends the parked
run and starts a new one that was handed its checkpoint, in one transaction. A run
that reaches a ceiling stops with a checkpoint too, and is continued in the same
way, by itself, by a press or by the next reply. The checkpoint is claimed once.

A workflow run works its steps from jobs of its own. At an agent step it sends a
mail, whose delivery starts an agent run, and its job ends; the completion follow-up
of that run finishes the step and enqueues the job that goes on. A mail that an owner
posts and that names a step is delivered in the same way.

So three leases are stacked: the job's lock (five minutes, renewed), the run's
claim (two minutes, by heartbeat) and the effect rows (until the run ends). On top
of them stands the slot of the tuple, which a run holds from its insertion to its
terminal status. Each module takes one of these and reduces what lies below it to
what that guarantees:

* `QueueContract` is what the queue promises. `JobQueue` implements it, and the job
  row that `RunExecution` has beneath its executions does nothing it forbids. Both
  refinements are checked and proved, so the two modules agree on what a delivery
  and a settle are. It is no proof that any queue keeping the contract would do for the
  executions: the row assumes how long a lock and a retry-after delay last, of which
  the contract says nothing.
* `RunContract` is what a run promises the executions started for it. `RunExecution`
  implements it, and so does the run that `ToolCalls` has beneath its executions, where
  a takeover is one step and only the token's holder hands back or finishes. Both
  refinements are proved, the first is checked as well.
* `ThreadRuns` has a run as its status: a run that a worker took ends or parks,
  which is `EveryRunSettles` of `RunExecution` with the exceptions made there, and a
  crash puts it back into setup.
* `Suspension` is what happens inside the status `waiting` of `ThreadRuns`; its
  resume is there the step `ResumeParked`, its expiry and cancellation `Dismiss` and
  `Cancel`.
* `Budget` is the admission in front of the claim of `RunExecution`, where a refusal
  is one nondeterministic outcome.

## 2. The modules

### QueueContract

`job` is what the queue shows of a job (waiting, out, done or dead; the last
delivery; the allowance of deliveries), `hand` the delivery a consumer works on,
`completed` the deliveries whose work was completed. There is no clock, lock or
process. `Deliver` hands a job out under the next number, also when its last
delivery may only have been lost; `Settle` ends or returns the last delivery;
`LetGo` is a consumer that completes or drops what it holds, which may come with a
settle, before it or without it; `GiveUp` is the dead sweep.

### RunContract

`open` says that the run is neither over nor parked, `holder` is the last execution to
take it, until it gives it up, `fresh` the executions that have not taken it, `working`
those that have and are still at it. `Take` is a claim or a takeover, `Act` whatever an
execution at work does: with the run it may end it, park it or give it up, without it
only stop. `Retire` is an execution that never got the run, `Cancel` a person who ends
a run nobody has. There is no heartbeat: when a takeover is timely is
`HolderUndisturbed` of `RunExecution`.

### JobQueue

| State | Code |
| --- | --- |
| `row` | the `queue_jobs` table; `lock` and `due` are `locked_until` and `enqueued_at` against `now()` |
| `phase`, `claim`, `gate`, `misses` | a subscription's poll loop, its `QueueJobClaim`, `settleClaimed`, the renewal failures |
| `wire` | statements issued and not yet landed: a settle or renewal may land after its sender lost the row or died |
| `proc` | the life of the process: up, stopping, abandoned, down |
| `sent`, `finished` | histories: settles issued, claims whose handler completed |

Actions: `Enqueue`, `BecomeDue`, `LockExpires`, `DeadSweep` (the table and the
clock); `ClaimSend`, `ClaimLand`, `ClaimNothing`, `LoseClaimReply`, `StartHandler`
(claiming); `HandlerReturns`, `Settle`, `SettleLands`, `SettleFails`; `RenewSend`,
`RenewLands`, `RenewFails`; `Stop`, `Abandon`, `Exit`, `Crash`, `Restart`. Time is
abstract: a lock is live or expired, and every duration is possible. The mapping to
the contract reads a processing row as "out", a queued one as "waiting", and
`claim` as the hand.

### RunExecution

An execution is one delivery of the job, and its delivery number stands for the
token it mints. `run` is the `runs` row, `crash` whose crash state is stored,
`job` the queue's row, `fence` the claim an execution believes it holds, `phase`
and `plan` where its handler stands. The claim is two steps, `ClaimRead` and
`ClaimLand`, because its CTE reads the row without locking it. The success
transaction is `Commit`, whose acknowledgement may be lost and is then read back
by `ReadBack`; every other ending is `Stop` followed by `WriteStatus`, with
`StatusRefused` and `StatusFails` for a write that matches nothing or fails.
`HandBack` and `LeaveForRetry` are the ways out that keep the run for a later
delivery. `EndUnclaimed` is an attempt that ends the run before the claim, `Drop` one
that returns before it and leaves the run as it was.

### ToolCalls

`token` and `open` reduce the run to what matters here: who holds it and whether
it may still be resumed. `ckpt` is the stored checkpoint, reduced to the number of
turns its transcript has closed, the batch it carries and the results it holds;
`row` is the ledger. Each execution has a loop (`phase`, `turns`, `batch`), the
recorder's `results`, a place for each call (`step`) and the persists in flight
(`saving`). A call's id is the answer of the model that requested it together with
its position, so asking again mints new ids, as providers do.

A call goes: prepared (`Prepare`, or `Suspend`, which discards the batch), then,
once the whole batch is prepared, claimed in at most two rounds (`Claim`, `Read`),
run (`Execute`, the only step with an effect), and settled (`Settle`), interrupted
(`Interrupt`) or withdrawn (`Withdraw`); its result is kept and persisted
(`Keep`, `Persist`, `Persisted`). `Boundary` and `SaveBatch` are the loop's own
checkpoints, `CloseBatch` puts the results into the transcript, `Leave` is the
probe that finds the run taken over or a drain, `Finish` and `Clear` the end of
the run and the deletion behind it. A loop that left does not stop its calls:
they go on until the process dies.

A fatal tool error that rejects a batch is modelled as the loop leaving it, in
the drain's disjunct of `Leave`; which calls need a record is the constant
`Claimed`, for the ledger decides it by name alone.

### ThreadRuns

Every transaction that asks for the slot takes the advisory lock of the tuple, so each
is one step. `decide` is each message's job, `pend` the pending rows, `run` the rows
(status, trigger message, the messages folded into it, the run it continues),
`saved` and `consumer` the checkpoints and who claimed each, `pressed` the runs
somebody was offered to continue, `tries` the attempts of the automatic
continuation.

`Decide` takes the slot, pends, or recognises a duplicate by what
`claimThreadRunOrPend` looks at; its job may be delivered again. `Drain` turns a
batch of pending rows into one run, a row that drains alone being its own batch.
`Begin` to `Stop` are a run's life; `Crash` puts it back. `Continuation` is the
one-shot claim of a checkpoint, used by `PressContinue`, `ResumeParked` and
`AutoContinue`, while `LoadCheckpoint` is the claim a person's next turn makes in
run setup. `AutoContinue` queues its next attempt under a key of its own while the
slot is taken; its first attempt is a call of the worker, which may die with it
(`LoseFirstTry`). `Handoff` is a product (DeepTest, buildme.live, DeepWater) that makes a
run for a person's assistant without lock or slot. Such a run, told by the message that
triggered it, `HandOver`, is refused by cancel, restart and Continue, and otherwise
lives as the others do.

### Suspension

`phase` is the run with its worker's place, `waitFor` what it last asked for, `ckpt`
its checkpoint ("own" if the redelivered run claimed it itself), `state` the status
of each request, `late` those past their expiry, `linked` the cards that name the
run, `effect` the second transaction of each approval's answer, `cancelling` how
far a cancellation got.

The worker asks (`AskApproval`, `PostCard`), saves, links the card and parks, and
may die between any two. An approval is answered by a claim (`Answer`,
`AnswerLate`) and an effect (`Effect`, `LoseEffect`); a linked card by one
transaction that rolls back if the run cannot be resumed (`PressLinked`); a card
that is not linked becomes a message (`PressUnlinked`). `SweepApproval`,
`SweepCard`, `SweepLogin` and `FreeLogin` are the sweeps, `Cancel` and what follows
it the API's cancellation.

### Budget

One enforcing scope, with one amount that stands for dollars and tokens alike. An
admission (`Lock`, `ReadLedger`, `ReadReservations`, then `Admit` or `Refuse`)
holds the scope's lock but reads in two statements. An admitted run spends within
its ceiling, records (`Record`) and releases its reservation in the next statement
(`Release`); a task set asks again before each call (`AskAgain`). `Crash` rolls an
open admission back, loses some of the spend that was not recorded, and has the job
delivered again. `Sweep` deletes the reservations of ended runs, `NextPeriod` turns
the period.

### WorkflowRun

`run` and `step` are the statuses of the rows, `lease` and `deadline` what the
reaper looks at, `child` the mail or environment of a step with its child's way from
"asked" over "good" or "bad" to "told", `job` every queue job by its idempotency
key: the one that starts the run, one behind each step, and the operators', `tries` how
often each was delivered in vain. `at`,
`on`, `pick` and `new` are what an execution keeps between two statements: where it
is, its job, the step it chose, and that it read the run as `pending`.

An execution goes `Take`, `Prepare`, `StartRun`, then round the loop: `Look`, and
`SkipGuarded`, `Reject`, a step it works itself (`Begin`, `Work`, `End`), one it
suspends (`Mail` and `Queue`, or `Launch`), or `Close`. `Mismatch` is a job whose
actor or channel the run does not accept. `FinishStep` is the transition all of
them, the children (`Tell`) and the reaper (`Reap`) finish a step by. `Deliver`,
`ChildEnds`, `Tell`, `Continue` are a child's way; `TellingDies` is its follow-up
dying and, where there is a job for it, coming again. `Post` is a mail that somebody
sends through `POST /api/mailbox` and that names a step, one of `Posted`; it goes the
same way. A job whose execution died or threw is delivered again up to `MaxAttempts`
times and then "dead" (`GiveUp`). `Cancel` is one transaction;
`Intend` and `Intervene` are the check and the guarded write of skip, block and
unblock.

`Happens` names what an instance has besides the run itself: deaths, cancellations,
operators, and two kinds of concurrency. With "stale" a cancellation, an
intervention or a delivery may fall between a read of an execution and its write, and
heartbeats may be late; with "race" the reaper's selection and its write are two
steps. They are named apart because the writes in question are unguarded, and section 6
shows what follows.

### WorkflowOverlap

`status` is what became of each fire, `withheld` the pending runs whose summary says
that they wait, `job` the job that starts a run, "nobody's" when a release enqueued
it, `freeing` the runs whose end is written and whose slot is not released yet,
`missed` the history that some end was not followed by a release.
`Admit`, `Withhold` and `Skip` are the outcomes of a fire that asks, `AdmitUnasked` is one
that does not, the API's own dispatch of a trigger. `End` and `Free` the two
transactions by which the executor ends a run, `EndElsewhere` an end by a child, an
environment or the reaper, `Cancel` one with its release in it. `Release` frees the
oldest run if there is room.

## 3. What is checked

The constant `Faults` of `RunExecution` names what may go wrong in an instance, and
each of the `Scenarios` of `ToolCalls` does, with how many calls and answers of the
model it has. A property that fails under one fault for a reason given in section 6
is checked under the others, and proved for exactly the sets of faults it holds
for. Crashes are always possible.

| Run | Instance | Question |
| --- | --- | --- |
| `job_queue` | 2 workers, 1 job, 2 attempts, 1 drain, crash or retry-after; fairness | does any interleaving of statements, drains and crashes break claim, settle or contract? does a job end, a superseded worker learn of it, a drain end? |
| `run_execution` | 2 attempts and 1 retry; abandon, lock lost, write fails, straggler, dropped | is a run answered once and for good, is a live holder left alone, does the queue assumed here keep the queue's contract, and do the executions keep the run's? |
| `run_execution_live` | 3 and 1; lost claim replies, refusals, failing cleanups, fairness | is a run ever forgotten? |
| `run_execution_race` | 2 attempts, the race alone | section 6 |
| `tool_calls` | 2 executions; 1 batch of a recorded and an unrecorded call, or 2 batches of one recorded call with overdue calls | does a recorded call take effect twice, is a committed result lost, does a resume repeat a closed batch or a saved turn? |
| `thread_runs` | 3 messages, the second draining alone, the first of a schedule; 3 attempts, 1 stop, 1 extra; fairness | a run made beside another by anything but a handoff, a message lost, a stopped run continued twice, a pended message forgotten? |
| `suspension` | 2 approvals, 1 login, 1 card, 3 deaths; fairness | does a run come back without an answer, is a press unheard, a wait endless? |
| `budget` | 4 runs with ceilings 2, 1, 1, 1, one exempt, one a task set; cap 2, 2 periods, 1 death | how far can admitted runs pass the cap, is a silent run missed, does an ended run refuse another? |
| `budget_totals` | the same runs, 1 period, no death | section 6 |
| `workflow_run` | tool, agent, transform with a timeout, agent, guarded tool; 1 worker, 3 deliveries of a job, 5 deaths or cancellations; fairness | is a step worked out of order or a tool twice, is a run forgotten, is an ended run or step changed, a run ended with steps left open, does every run end whose jobs are delivered? |
| `workflow_people` | environment, transform with a timeout, guarded agent; 2 workers, 2 deliveries of a job, everything happens, a mail posted for the agent's step, 2 extras, 2 operators' jobs, one of them another admin's | does anything read as still to come behind a failed step? |
| `workflow_overlap` | 6 fires, limit 2, depth 2; ends elsewhere, lost releases | are runs released out of order, is one left without anybody to release it? |

### Bounds

* Two workers are a holder and whoever supersedes it. A third would be a second
  successor, which meets the first as the first met the holder; the proofs, which
  have no bound, cover it. One job: rows share no state, and a worker handles one
  at a time. `MaxAttempts = 2` has both a non-final and a final attempt.
  `MaxExtras` bounds drains, crashes and retries after a delay together: with 1 the
  survivor completes the job, or one attempt more is granted. Combinations of them are
  covered by the proofs.
* `RunExecution` runs two attempts and one retry-after, so up to three executions
  overlap; the liveness run has four, so that a lost claim reply and a crash still
  leave a delivery that completes.
* `ToolCalls`: two executions are a holder and its successor, and two calls make
  a batch whose persists overlap and whose barrier matters. A second execution and
  a second answer of the model are what a repeated turn needs. The two-round claim
  needs four executions to go wrong (section 6): there the check is of two
  executions, and the proof excludes the one step that leads there.
* `ThreadRuns`: three messages are the fewest that make a batch, one having the slot
  and two waiting. `MaxStops` bounds runs that stop or park, `MaxExtras`
  redeliveries, crashes, restarts and handoffs; with one of each a stopped run is
  continued by an attempt that is delivered again, restarted, crashes after it was
  handed a checkpoint, or meets a handoff's run in its slot; the proofs have any
  number of each. The bound on runs follows from these and never binds.
  `MaxTries = 3` stands for the twelve of the code: a first, a middle and a last one.
* `Suspension`: two approvals, so that one may be answered while the run waits for
  the other; three deaths, so that worker, API and cancellation can each die once.
* `Budget`: an exempt run, a task set that is admitted again, and a run whose ceiling
  is the whole cap, admitted over and over by a crash and by the turn of a period.
* `WorkflowRun`: five steps put an agent behind a tool and behind a transform, so that
  a continuation is needed twice and meets what the executor works itself. One worker makes the executions of a
  run follow each other, with every death and redelivery; two let a redelivered job,
  a continuation and an operator's job overlap. `MaxAttempts` is the code's three where
  what depends on the last delivery is asked, and two elsewhere. `MaxExtras` bounds what happens, so that
  disturbances meet in every order. `MaxOps = 2`: the jobs of the run's own admin and of
  another one, whose job the run does not accept; a further one would find what these
  found.
* `WorkflowOverlap`: with a limit and a depth of two, six fires fill both and leave two
  for slots that come free while runs wait. The depth of the code is ten.
* `CHECK_DEADLOCK FALSE` stands where every behaviour ends: a run that is over
  with its executions gone has no further step. `JobQueue` is checked for deadlock.

### Fairness

`JobQueue!FairSpec` asks that the database answers (a statement lands or fails,
and a claim issued again and again lands some time, strongly, since competing
statements may disable it), that the poll, renewal, drain and restart timers
fire, and that locks expire and delayed rows fall due. It asks nothing of
handlers. `EveryJobEnds` needs handlers that return and says so in its own
premise `HandlersEnd`; that a drain ends and a superseded worker is told hold with
handlers that hang.

`RunExecution!FairSpec` asks that a delivery goes on until it returns, which the
loop's budgets and timeouts bound, that the queue delivers, and that the heartbeat
of an execution that is no longer there goes stale. No fairness is asked of
`Heartbeat`, of cancellations or of faults.

`ThreadRuns!FairSpec` asks that the pending sweep runs (every ten seconds,
`worker-sweeps.ts`), that the run which has the slot goes on until it ends or
parks, and that some queued attempt is delivered. Nothing is asked of the drain that
follows a terminal status, which the sweep backs up, and nothing of people: a
parked run may stay parked, which `EveryPendedMessageRuns` says.

`Suspension!FairSpec` asks that approvals and logins lapse, that their sweeps tick,
and that an API process which claimed an answer goes on with its effect unless it
dies. Nobody has to answer, and nothing is asked of plain cards.

`WorkflowRun!FairSpec` asks that an execution goes on unless its worker dies and that
a queued job is delivered, that a child which ended tells its step and its
continuation is enqueued, that leases lapse and deadlines pass, and that the reaper
sweeps (every 15 seconds). Nothing makes a child end or a mail be delivered: `RunEnds`
holds because a suspended step has a deadline, and says itself what it makes an
exception of, a run one of whose jobs was dead-lettered. That a follow-up is told at all after
a death holds for completed agent runs only; the instance has no environment.

`WorkflowOverlap` has no liveness property, since a withheld run may wait for ever
(section 6), and neither has `Budget`: an admission that waits for the lock waits for a
transaction that ends.

### Properties

The properties are stated at the end of each module; each comment names the code it
is about. The ones a reader should know:

* of the queue, `ClaimIsExclusive`, `OneSettlePerClaim`, `HolderUndisturbed`,
  `ImplementsContract`, `EveryJobEnds`, `SupersededIsTold`, `DrainEnds`;
* of the run, `OneAnswer`, `AnsweredIsFinal`, `SupersededIsHarmless`,
  `HolderUndisturbed`, `ImplementsRunContract`, `OpenRunHasWork`,
  `RefusalMeansHeldOrOver`, `EveryRunSettles`;
* of the tool calls, `CallTakesEffectOnce`, `DurableIsKept`, `CheckpointFits`,
  `SavedTurnTakesEffectOnce`, `ImplementsRunContract`;
* of a thread, `OneActiveRun`, `NothingLost`, `TakenAgainOnlyBehindBatch`,
  `ContinuedOnce`, `EveryPendedMessageRuns`, `AutoContinuationKeepsTrying`;
* of a waiting run, `BackOnAnAnswer`, `ParkedOnADecision`, `PressIsHeard`,
  `EndedStaysEnded`, `WaitsEnd`;
* of the budget, `ReservationsBounded`, `CountedWhileSilent`, `RefusedForLiveWork`;
* of a workflow run, `ToolRunsOnce`, `InOrder`, `FailedRunHasNothingToCome`,
  `ActiveRunHasWork`, `EndedForGood`, `RunEnds`;
* of an installation, `FirstInFirstReleased`, `SomebodyReleases`, `DepthKept`,
  `WithheldWaits`.

A few of them are not checked by a run because they are proved, for every value of the
constants: the type invariants,
`ClaimIsExclusive`, `SupersededIsHarmless`, `DepthKept`, `WithheldWaits` and
`ImplementsRunContract` of `ToolCalls`.

## 4. What is proved

Every theorem holds for all values of the constants that satisfy the named
assumptions of its module, and for every set of faults unless it says otherwise.

| Module | Theorem | Assumes | Establishes |
| --- | --- | --- | --- |
| `JobQueueProofs` | `TypeCorrect` | | `TypeOK` |
| | `ClaimsAreExclusive`, `SettlesAreSingle` | | `ClaimIsExclusive`, `OneSettlePerClaim` |
| | `DoneIsEarned`, `BudgetIsRespected`, `EndsAreFinal` | | three parts of the contract, stated of the rows |
| | `HoldersAreUndisturbed` | | `HolderUndisturbed` |
| | `QueueKeepsContract` | | `ImplementsContract`: the queue refines `QueueContract` |
| `RunExecutionProofs` | `TypeCorrect` | | `TypeOK` |
| | `SupersededAreHarmless` | | `SupersededIsHarmless` |
| | `RunIsAnsweredOnce`, `HoldersAreUndisturbed` | no claim decides by a stale snapshot | `OneAnswer`, `HolderUndisturbed` |
| | `AnswersAreFinal` | nor is the run written without a claim | `AnsweredIsFinal` |
| | `ExecutionsKeepContract` (a lemma) | | `ImplementsContract`: the job row assumed here refines `QueueContract` |
| | `RunsKeepContract` | no stale snapshot, no write without a claim | `ImplementsRunContract`: the executions refine `RunContract` |
| | `NobodyComesBack` | the same | what follows: a closed run stays closed, and whoever takes an open one never had it |
| | `OpenRunsHaveWork`, `RefusalsAreRight` | one handler at a time, no stale snapshot, no failing status write, no job dropped before its claim (`Orderly`) | `OpenRunHasWork`, `RefusalMeansHeldOrOver` |
| `ToolCallsProofs` | `TypeCorrect` | | `TypeOK` |
| | `ClaimedCallsTakeEffectOnce` | no step `RunsUnclaimed` is taken | `CallTakesEffectOnce` |
| | `CallsTakeEffectOnce` | no call waits for a person | `CallTakesEffectOnce` |
| | `DurableResultsAreKept` | | `DurableIsKept` |
| | `CheckpointsFit` | | `CheckpointFits` |
| | `SavedTurnsTakeEffectOnce` | | `SavedTurnTakesEffectOnce` |
| | `RunsKeepContract` | | `ImplementsRunContract`: the run assumed here refines `RunContract` |
| `ThreadRunsProofs` | `TypeCorrect` | | `TypeOK` |
| | `OneRunIsActive` | | `OneActiveRun`, with handoffs among the steps |
| | `RunsAreContinuedOnce` | | `ContinuedOnce` |
| | `MessagesAreNotLost`, `TriggersAreTakenOnce` | | `NothingLost`, `TakenAgainOnlyBehindBatch` |
| `SuspensionProofs` | `TypeCorrect` | | `TypeOK` |
| | `EndedRunsStayEnded` | | `EndedStaysEnded` |
| | `RunsComeBackOnAnswers`, `PressesReachSomebody` | | `BackOnAnAnswer`, `PressIsHeard` |
| | `ParkedOnDecisions` | | `ParkedOnADecision` |
| `BudgetProofs` | `TypeCorrect` | | `TypeOK` |
| | `ReservationsStayBounded` | | `ReservationsBounded` |
| | `CapPassedByLessThanOne` | | the same in amounts: the sum is below the cap plus one run's ceiling |
| | `ReservedCapAdmitsNobody` | | nobody that can be refused is admitted while open reservations reach the cap |
| | `NoRefusalForTheEnded` | | `RefusedForLiveWork` |
| | `SilentRunsAreCounted` | | `CountedWhileSilent` |
| | `AdmissionsAreSerialised` | | no two admissions overlap |
| `WorkflowRunProofs` | `TypeCorrect` | | `TypeOK` |
| | `FailedRunsHaveNothingToCome` | | `FailedRunHasNothingToCome` |
| | `ToolsRunOnce` | one worker at a time on the run (`OneWorker`) | `ToolRunsOnce` |
| | `StepsAreInOrder`, `EndsAreForGood` | one worker at a time, no intervention but a cancellation, nothing stale, no foreign job, no posted mail, guards on tools and transforms only (`Plain`) | `InOrder`, `EndedForGood` |
| | `ActiveRunsHaveWork` | besides, no environment steps, and transforms have a timeout (`Followed`) | `ActiveRunHasWork`, unless a job was dead-lettered |
| `WorkflowOverlapProofs` | `TypeCorrect` | | `TypeOK` |
| | `WithheldRunsWait`, `DepthIsKept` | | `WithheldWaits`, `DepthKept` |
| | `ReleasesAreInOrder` | | `FirstInFirstReleased` |
| | `WithheldRunsHaveSomebody` | | `SomebodyReleases` |

**Queue.** The identity of a claim is (id, attempt). Exclusive claims are not
inductive alone: `IInv` adds that no claim in memory and no settle ever issued is
ahead of its row's attempt (`ClaimSound`, `SentSound`), that every acknowledgement
was sent by a handler that completed, and that a worker which has not decided yet
has sent nothing for its claim (`FreshGate`). A claim takes the next attempt, which
therefore nobody holds and nobody has settled. The action properties and the
refinement follow from the shapes a change of the table may have.

**Run.** `SupersededAreHarmless` needs only the type invariant: every write of an
execution is fenced on the token. `ClaimInv` says that an answered run is over and
has no token, that only an execution whose claim was answered commits or parks,
and that a run never claimed has no token. So a second commit has no token to
match, and nothing re-opens an answered run; a claim that decides by a stale
snapshot does, which is why that fault is assumed away. `AnswerInv` adds that an
execution about to write without a fence had parked the run before it was ever
answered. The refinement to the queue's contract needs `AheadIsNew`: a delivery the
queue has not made yet has not begun.

The refinement to `RunContract` uses all of these. A claim lands on an open run, and its
execution is fresh; a hand-back and a commit match the token; a status written without
a claim finds the run parked (`UnfencedIsParked`), so that it closes nothing; a
cancellation at once meets a run that is parked or without a token (`PendingIsFree`); a
delivery starts an execution that was new (`AheadIsNew`). That a parked run is
claimed by nobody again is what the comment in `updateRunStatus` (`lifecycle.ts:208-213`)
relies on. The three faults assumed away are the ones that break it: a claim that
decides by a stale snapshot re-opens a closed run (section 6), and a refusal before the
claim, or the failure path behind a claim whose reply was lost, writes the row
whatever it carries.

**Run, not orphaned.** While one handler at a time has the job (`SoleHandler`), an open
run was not acknowledged, whoever claimed it still holds it, and a fresh heartbeat is
that of the last delivery, whose job is leased, dead, or waits out the takeover window
(`OpenFits`, `BeatFits`). So a delivery meets no live heartbeat, its claim is refused
only when the run is over or parked, and every acknowledgement is one of such a run.
The premise `Orderly` names the faults under which the code does orphan a run
(section 6).

**Tool calls, once.** `Once(id)` says: a row that is "none" means nobody runs the call
or knows it to wait for a person, and it never took effect; while somebody does, it
has had no effect yet; and only one execution, the one that inserted the row, does. So
the row may return to "none" while the run is open, when a call that waits for a person
withdraws it: the inserter is alone at the call then, and nothing happened. Every other
deletion follows the end of the run (`EndingInv`). One step of the code breaks this,
and only that one: the claim that met a row in both of its rounds and finds it
withdrawn again runs the call without inserting one (`RunsUnclaimed`, section 6).
`ClaimedCallsTakeEffectOnce` is about every behaviour without it, suspensions
included. `CallsTakeEffectOnce` shows that where no call waits for a person
(`UnaskedInv`) the step cannot occur, as who met a row finds it (`MetInv`), and so
speaks of `Spec` itself.

**Tool calls, kept.** Only the holder writes the checkpoint, so what has to be shown
is that everything a holder may write covers what was committed before. `Holder`
says so of its memory and of the one snapshot that may be in flight. That there is
only one, and none once the batch has closed, follows from the chain of persists
and from the batch waiting for its calls; that a suspension cannot discard a call
whose persist is in flight follows from `BarrierInv`, for it is found before any
call of the batch runs. `FreshInv` starts a new holder off.

**Tool calls, one turn.** A loop knows the turn its batch belongs to, and a persist in
flight carries that batch (`Fits`); so every checkpoint written is where its writer
stands, and fits. The holder is never behind the stored checkpoint (`Covers`), since
it loaded it and only the holder writes. A batch that was sent is therefore the
checkpoint's own, or the checkpoint is past its turn (`Behind`), and what the holder
writes next keeps it so. A batch that is saved before it is sent is the first of its
turn, because everything sent before lies behind the checkpoint that carries it.

**Thread.** Each step is first reduced to one of five shapes (`Shape`): it makes no
run, or makes one that follows a run, by a decision, by a drain, or by a handoff; but
for the handoff a run is made only while none is active, and nothing that was over
becomes active again. So the later of two active runs is a handoff's, which together
with the single continuation follows from the shapes and the numbering of the rows. For the
messages, `MessageInv` adds that the message which triggered a run was taken by one
and is not pended. So a message that is decided again was taken behind another
trigger, or not at all.

**Suspension.** An answer once given stays (`AnswersStand`). While the worker is at
work no approval is answered, since an answer requires the parked status
(`UnansweredWhileRunning`); therefore a run parks on a request that is still open
or has expired. `HasCheckpoint` says that a parked run has a checkpoint that only a
resume takes, so that an effect which cannot resume its run is one of those
`Unheeded` names.

**Budget.** A run gives its reservation up only behind ledger rows of its own
(`ReleasedIsRecorded`), so one that has recorded nothing still has it: the sweep
takes those of ended runs, a crash takes none.

**Budget, bounded.** What an admission read of the reservations is not stale when it
decides: while it holds the lock only its own decision could open another one, and a
period starts with none (`OpenGrowsByAdmission`, `NoneFromTomorrow`), so what it read
covers what is open (`ReadCoversOpen`). A run that is let in therefore joins runs whose
ceilings are below the cap, and is the one left out (`OneMoreFits`); closing any
reservation keeps that (`FewerFit`). The sum of some runs' ceilings is the number of
units they are made of, a cardinality, so that what a sum does (`CeilingsAreNat`,
`CeilingsGrow`, `CeilingsAdd`) follows from facts about finite sets and needs no
induction. Of the constants this asks that the runs are finitely many.

**Workflow run.** `BaseInv` holds whatever happens: rows are created together and
before anything is done by them, a job in work is worked by one execution, only agents
and environments have children. A failing step skips what waits, and since there are
rows, nothing makes a new pending one behind it; that is all `FailInv` needs. With one
worker, a tool that did its work is running or over, and no execution stands at its
beginning (`ToolInv`): a redelivered job finds it running and ends. For the order,
`PlainInv` says where an execution and a child stand. A step that was picked is
pending, everything before it is completed or skipped, and nothing is running; a
running step is the only one (`RunningIsCurrent`). So failing the current step settles
the run (`FailSettles`), and completing it leaves the order (`GoodSettles`). The premise
`Plain` names what the code does not survive (section 6), and leaves out guards on agent
steps: one that is asked again behind a mail may answer otherwise, and skip a step whose
agent is at work.

**Workflow run, not forgotten.** Every running step has a lease or a deadline
(`Watched`), and whatever ends a job leaves one running, or has ended the run. What
needs care is a child that tells its step again: its continuation may have been
enqueued and done already. `HasWork` therefore counts only a child whose continuation
was not enqueued yet, and `JobsBehind` says that this is so for every step that is not
completed.

**Overlap.** A withheld run is pending without a job, every job belongs to a run, and
runs are withheld under the queue policy only (`WaitInv`). A run is withheld when fewer
than the depth wait, and by one step at most one. Whoever releases takes from the
oldest. And when a run is withheld, the installation is at its limit, so some run is
running; as long as every end released somebody, one such run stays.

Each of these invariants was first checked by TLC on the instances above.

Only model-checked are the liveness properties: fairness is outside what the proof
system handles. Every invariant and every action property that a passing run checks is
stated by a theorem.

## 5. Abstractions

* Times are not numbers. A lock, a heartbeat, an expiry or a due time is in one of
  two states and changes by a step of its own. The one relation between durations
  that matters, the five-minute lock outlasting the two-minute takeover window, is
  the guard `OutlivesTakeover`.
* Statements are atomic, except the claim of a run and the admission to a budget,
  which read more than one thing without locking it. A statement in flight is
  modelled where it can outlive its sender (`wire`, `saving`).
* Transactions that hold the tuple's advisory lock are one step each.
* A transcript is the number of turns closed in it; a result is the fact that it
  was recorded; a message is its number. Compaction, authorization and the texts of
  answers do not appear.
* A write that fails may have landed where the code cannot tell: a settle, a
  renewal, a claim of a run, a ledger insert and the success transaction.
* A transaction of the workflow engine is one step, except an operator's, whose check
  and write are two statements without a lock between them. The transition that
  finishes a step counts the steps that remain before it locks the run; an operator's
  skip in between only makes the continuation find nothing left. What a binding, a
  `when` guard or an expression evaluates to is a choice.
* Dollars and tokens of a budget are one amount, and a run never spends past its
  ceiling, which is what the loop's limits are for.
* Who may answer, press or continue is not modelled: everybody may.

## 6. Where code and text disagree

Checked by a run that violates one property (`findings` of `PROJECT.json`):

* `run_execution_race`: the claim tests status and heartbeat of its CTE's snapshot,
  not of the row its UPDATE locks. A claim that waits for another writer re-opens
  a run that was cancelled, or takes one that was just claimed. The comment above
  it (`lifecycle.ts:296-299`) says neither can happen.
* `budget_totals`: the admission lock does not cover the ledger. A run that records and
  releases between the two reads of an admission (`budget.ts:432`) is in neither sum, and
  another is admitted although the total never was below the cap, against
  `budget.ts:35-36`. `MCBudgetTotals` adds the memory of which admission met a total
  below the cap. `ReservationsBounded` holds all the same, for it is about reservations.

### Met while modelling

These are not runs of their own: the properties that would fail exclude the fault or
the case that leads there, or the instance does without it.

Run execution:

* A failure whose status write fails is rethrown without handing the claim back
  (`run-job.ts:676`); the redelivery meets a fresh heartbeat, is refused and
  acknowledges the job of a run nobody works on
  (`docs/plans/2026-09-09-review-followthrough/runtime.md:15,20` plans otherwise).
* A refusal before the claim updates the run by id alone (`lifecycle.ts:233`), so it
  may overwrite an answer committed since it read the run, against
  `docs/standards/horizontal-scaling/work-durability.md:410-411`. An execution whose
  claim landed and whose reply was lost goes the same way; the faults "refused" and
  "lost claim" are therefore assumed away where answers are proved final.
* A handler abandoned at the drain deadline is nacked while its claim is fresh, so
  the redelivery may be refused and acknowledged. The document knows this one
  (`work-durability.md:484-495`).
* An attempt may return before its claim and leave the run open, its job acknowledged
  (`Drop`). `run-job.ts:160-163` and `:209-211` return for a run whose task, agent or
  message is gone. And a fatal DeepWater error on an attempt that is not the last
  (`run-job.ts:289-302`) is to be retried: `run-failure-path.ts:71` rethrows it, its
  header (`:28`) speaks of the queue retry that owns it, and so does the comment at
  `run-job.ts:655`. But without a token `handBackRunExecutionForRetry` gives nothing
  back (`lifecycle.ts:106-107`), and `run-job.ts:665-669` takes that for another
  executor's run and returns. The run stays `pending` with its job done.
  `OpenRunHasWork`, `RefusalMeansHeldOrOver` and `EveryRunSettles` exclude the fault.
* An external conversation claims, heartbeats and ends its run by itself. If its last
  status write fails, that is swallowed (`external-conversation.ts:413-432`): the job is
  acknowledged and the run stays `running`.
* A drain on the final attempt dead-letters the job and leaves the run `running`
  (`run-job.ts:640`).
* The drain waits for the nack of an abandoned handler, for which there is no
  deadline (`worker/src/lifecycle.ts:135`).
* The failure notice is posted before the fenced write that would show that the run
  is another's (`failure.ts:143`), against `run-failure-path.ts:45-47`.
* The comment at `queue.ts:40-44` says that settles are not fenced. They are.

Tool calls:

* The ledger is described as the backstop for a checkpoint that was never written
  (`tool-effect-ledger.ts:34-36`). It is keyed by the provider's call id, and a
  resume without a checkpoint asks the model again: new ids, no row, a second effect.
* The deletion of the ledger's rows behind the end of a run is not fenced, on the
  ground that nothing can consult them any more (`tool-effect-ledger.ts:321-324`). A
  superseded execution that prepared a call before and claims it afterwards finds no
  row and makes the call again.
* With an overdue call, a persist that was in flight when its call timed out may
  commit after the loop's next checkpoint: the result committed meanwhile is lost,
  or the checkpoint re-enters a batch its transcript has closed. `loop-resume.ts`
  (138-140) says that the loop makes no progress until the persist has settled.
  `DurableIsKept` and `CheckpointFits` therefore hold up to the first overdue call.
* With four executions and two suspensions of one call, the second round of
  `dispatch` ends without a row of its own and runs the tool, which the comment
  above the loop (`tool-effect-ledger.ts:391-395`) rules out. This is the step
  `RunsUnclaimed` that the theorem leaves out; by the theorem nothing else in the
  protocol makes a call twice.
* The AbortSignal of a batch's timeout is not forwarded by the recorder and the
  ledger, whose `execute` takes no argument, so an overdue call is never told
  (`tool-batch.ts:60-67`).
* A settle that fails reports the failure of a tool that succeeded
  (`tool-effect-ledger.ts:442`); its row still answers "unknown" to a later execution.
* A tool call that outlived its timeout may checkpoint after the run failed or was
  cancelled, since those statuses keep the executor token and the write's fence is
  the token alone (`crash-checkpoint.ts:79`); `work-durability.md:388-389` says that
  no finished run leaves resumable state behind.

Threads and waiting runs:

* A product's handoff creates a `pending` run of the tuple with neither the advisory lock
  nor a look at the slot (`integration-handoffs.ts:108-172`), so it runs beside whichever
  run is in flight, against the invariant at `thread-serialization.ts:33`, "at most ONE
  in-flight run per (agent, thread)", and `runs.ts:277`, "every other run-creation path".
  Lines 48-50 of the former know that such runs "never touch this module", and count on
  stricter invariants of their own; DeepTest's and buildme.live's handoffs have none that
  looks at other runs. `OneActiveRun` says that nothing else does so.
* A decide job delivered again is recognised by a run that the message triggered or by
  its pending row. A message folded into a batch that a later one triggered has neither
  (`thread-serialization.ts:201`), so it gets a second run and a second answer, against
  `orchestrate-dispatch.ts:87-90`. `TakenAgainOnlyBehindBatch` says that this is the
  only way to be taken again.
* The claim of a checkpoint in a run's setup does not exclude the run's own
  (`checkpoint.ts:141-160`). A run that was redelivered after saving one claims it,
  parks again, and every later resume answers "already resumed"
  (`run-resume-core.ts:156-162`). `ParkedOnADecision` and `WaitsEnd` except
  this state, "own".
* An answer to an approval is a claim and then an effect. If the process dies in
  between, or the effect fails, nothing takes it up again and the run stays
  `waiting_approval` (`approvals.ts:283-287`). The same properties except it.
* A run parked on a plain card without an expiry waits until somebody presses it or
  cancels the run. `docs/plans/2026-09-01-agent-chat-cards.md:484-494` describes a
  backstop, `NESSIE_CARD_WAIT_BACKSTOP_MS`, that is not in the code.
* A run that was redelivered may ask for another approval than before. The first
  request stays open, and its answer ends or resumes the run that waits for the
  other.
* A cancellation flagged on a running run which then parks is not looked at any
  more; one whose process dies behind the status leaves the card open.
* The first attempt of an automatic continuation is a call of the worker behind the
  terminal status (`run-stop.ts:228-245`), and dies with it.

Workflows:

* The executor sets a run `running` by a status it loaded before
  (`run/workflows.ts:325`, and `:456` when it suspends a step), so a run cancelled in
  between is active again, against
  `docs/plans/2026-08-12-workflows-first-class.md:186`. `EndedForGood` is checked
  without "stale".
* A cancellation looks for the child of a running agent step in a column that no code
  writes and under one of the two names of its type (`workflow-run-controls.ts:119`), so
  the agent works on, against the same line; its answer finds the run ended.
* The reaper locks rows for its selection only (`workflow-step-reaper.ts:82`), and the
  transition is guarded on the run, not on the step. A step completed in between becomes
  failed, and its run with it; the comment above speaks of "a still-running step"
  (`:5-7`). `EndedForGood` is checked without "race".
* A workflow's job is delivered three times (`packages/db/src/queue.ts:32`; nobody who
  enqueues one asks for more) and then dead-lettered. If its worker died between two
  steps each time, the run is `running` without a running step: the reaper looks for
  steps that run (`workflow-step-reaper.ts:62-67`), no sweep for such runs, and nothing
  else continues it. It stays active until somebody cancels it, or unblocks or skips a
  step of it. `ActiveRunHasWork` and `RunEnds` except the runs one of whose jobs is dead.
* A mail sent through `POST /api/mailbox` that names a step marks it running while it is
  open, also a later one or a tool (`mailbox-delivery-run.ts:17-20`, `:120-148`), out of
  the order in which the executor works, which takes the first pending step of a run
  that has none running (`control/workflows.ts:761-767`). The end of the mail's run
  finishes the step by a transition that is guarded on the run alone, so it also rewrites
  one that is completed or skipped. `InOrder` and `EndedForGood` are checked and proved
  without such mails; `FailedRunHasNothingToCome` with them.
* A transform is worked in the executor without a lease (`control/workflows.ts:1040`)
  and, without a timeout, without a deadline. After a death nothing ends its run;
  `run/workflows.ts:334-336` says tools are the only steps the executor works. The
  transforms of the instances have a timeout.
* A job of another actor or channel fails the run (`control/workflows.ts:681`) and
  leaves its steps `pending`, against W7 of the delivery log. An admin's skip, unblock or
  retry of somebody else's run is such a job, and so is an agent step that names a
  channel other than the installation's. `FailedRunHasNothingToCome` excepts it.
* Only the executor and the cancellation release a withheld run. A run that ends with an
  agent, an environment or by the reaper does not (`workflow-step-finish.ts:38`), against
  `workflow-concurrency.ts:15-17`, nor is a release that failed tried again.
  `SomebodyReleases` holds as long as every end was followed by a release.
* The API's own dispatch of a trigger makes a run and its job with neither the lock nor
  the policy (`trigger-dispatch-workflow.ts:103-170`), so an installation that is to
  queue or skip at its limit is passed by (`AdmitUnasked`).
* A run counts when it is `running`, not when it is admitted
  (`workflow-concurrency.ts:124`), so two fires before the first start both run, against
  line 192 of the plan. That no more than `Limit` runs are active is therefore no
  property of the module.
* The job of a released run has no `actorContext` (`control/workflows.ts:616`), which the
  worker's schema requires (`schemas/src/jobs.ts:346`). It is dead-lettered, and the run
  stays `pending` until it is cancelled. `SomebodyReleases` counts on that end, too.
* Two jobs of one run may be handled at once, such as a redelivered one beside a
  continuation. Both may choose the same pending step, whose mark is unguarded
  (`run/workflows.ts:399`), and do its work twice. `ToolRunsOnce` and `InOrder` are
  checked with one execution at a time.
* That an environment is ready is told once. If the worker dies with it the step waits
  for its deadline, and if it dies behind the finished step nobody continues the run.
  `RunEnds` and `ActiveRunHasWork` are checked with agents.
* A death between the mail of an agent step and its mark makes the redelivered job
  violate the mail's unique key. The handler reads the first mail in the same
  transaction (`control/workflows.ts:416`), which PostgreSQL refuses after the error, so
  the step fails while its agent works.
* A run whose remaining steps are blocked is completed (`control/workflows.ts:768`), and
  they cannot be unblocked any more.

Budget:

* "Two runs that fit one at a time but not together can never both be admitted"
  (`budget.ts:36-37`): an admission compares the total without its own estimate, so
  the last one may pass the cap. `ReservationsBounded` says by how much.
* The reservation that a run made before it was redelivered counts against it.

## 7. What is not modelled

The queue, its drain, the execution of a run, its tool calls, the slot of a thread,
waiting for people and the budget are modelled: the path a message takes from its
arrival to an answer, with everything that holds it up. So are the runs of workflows
and their overlap. What is left:

* **Agentic loop: inference.** Retries, limits, compaction and the recovery of empty
  answers are local to one execution; what a crash may cut them into is in
  `ToolCalls`.
* **Trigger scheduler and document sessions.** A claim by a conditional update against
  a sweep under an advisory lock, as `Sweep` of `Budget` and the claim of
  `RunExecution` have it.
* **Completion follow-up and realtime.** A keyed job, which the queue's contract covers,
  and a sequence per scope under one locked transaction.
* **Push claim and rate-limit window.** One conditional insert and one upsert, with no
  state between statements.
* **Executor daemon.** A separate process on a person's machine with a durable state
  of its own.
* **Model providers, connectors, search, the HTTP API and the applications.**
  Authorization, projection and calls of outside services, without state that
  concurrent steps share beyond what is modelled above.

Partly modelled, with what is missing:

* the drain: the order in which transports close;
* run execution: the gates before the claim are one refusal; plans, delegations and
  publications do not appear, nor do external conversations, which claim and end their
  run themselves (`worker/src/run/external-conversation.ts`);
* the queue: a handler that releases its row's idempotency key, as the document
  trigger's does (`packages/db/src/queue.ts:25-27`);
* the crash checkpoint: its size and the compaction governor's state;
* approvals and cards: who may answer, standing rules that answer for a person,
  secrets, browser sessions and review cards;
* the workflow engine: versioned state and its writers, the tools' bodies, events and
  cards, drifted graphs, templates and their validation;
* the budget: runs that are parked, reservations released behind rows that cost nothing,
  degradation, alerts, budgets that only report, the choice of the
  governing scope and several scopes over one run.

## 8. Files

* `QueueContract.tla`, `RunContract.tla`, `JobQueue.tla`, `RunExecution.tla`, `ToolCalls.tla`,
  `ThreadRuns.tla`, `Suspension.tla`, `Budget.tla`, `WorkflowRun.tla`,
  `WorkflowOverlap.tla`: the components. An operator
  whose name ends in an underscore and a word is a mutant: the definition with a
  plausible mistake, used to see that a property notices it.
* `MC*.tla` and `*.cfg`: the instances. `*Proofs.tla`: the theorems.
* `PROJECT.json`: components, runs, the map from definitions to source lines,
  findings, hazards and theorems.
