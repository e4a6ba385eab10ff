----------------------------- MODULE ToolCalls -----------------------------
(***************************************************************************)
(* The tool calls of one agent run, across every execution of it:          *)
(* worker/src/run (agentic-loop.ts, loop-resume.ts, tool-batch.ts) and     *)
(* worker/src/run/execute (tool-effect-ledger.ts, crash-checkpoint.ts,     *)
(* terminal-cleanup.ts).                                                   *)
(*                                                                         *)
(* An execution asks the model, which answers with a batch of calls; it    *)
(* saves the batch, dispatches it, and asks again.  Two records outlive    *)
(* it: the crash checkpoint, fenced on the run's executor token, and the   *)
(* effect ledger, one row per call, fenced on nothing.  Who holds the run  *)
(* is module RunExecution's subject; here a takeover is one step.          *)
(***************************************************************************)
EXTENDS Naturals

CONSTANTS
    MaxExecs,   \* bound: executions of the run
    MaxAsks,    \* bound: inferences that request tools, over all executions
    Call,       \* the calls a batch may ask for, by position
    Claimed,    \* the calls that need an effect record
    Scenarios   \* what a run may meet: the calls of a batch, the inferences
                \* that request one, and what may go wrong, see Fault

Fault == {
    "silent",        \* a run is taken over from an execution that goes on
    "drain",         \* a loop stops and its batch goes on behind it
    "write fails",   \* a checkpoint is not written, a ledger statement fails
    "throws",        \* a tool throws, before or after it took effect
    "outlives",      \* an execution goes on after the run has ended
    "timeout",       \* a call outlives its timeout, and the batch
    "suspends"}      \* a call waits for a person

ASSUME BoundsAssumption == MaxExecs \in Nat /\ MaxAsks \in Nat
ASSUME ClaimedAssumption == Claimed \subseteq Call

Exec == 1..MaxExecs
Ask == 1..MaxAsks

ASSUME ScenariosAssumption ==
    Scenarios \subseteq [calls : SUBSET Call, asks : 0..MaxAsks, faults : SUBSET Fault]

None == 0
Id == Ask \X Call       \* a provider's tool-call id: each answer mints its own

NeedsRecord(id) == id[2] \in Claimed

VARIABLES
    scenario,   \* what this run meets; it never changes
    open,       \* the run is not terminal, not parked
    token,      \* runs.executor_token
    asked,      \* answers of the model that requested tools, so far
    turnOf,     \* history: the turn of the conversation each of them took
    ckpt,       \* crash_state: transcript, pendingToolCalls, toolResults
    row,        \* run_tool_effects, by call id
    phase,      \* where each execution's loop stands
    turns,      \* the batches closed in each execution's transcript
    batch,      \* inFlightToolCalls
    results,    \* the recorder's results
    step,       \* where each call of each execution stands
    saving,     \* persists of the recorder in flight
    effects,    \* history: how often each call took effect
    durable,    \* history: the calls whose recorded result was committed
    overdue,    \* history: a call outlived its timeout
    unsaved     \* history: a batch was dispatched without being saved

loopVars == <<phase, turns, batch>>
historyVars == <<scenario, turnOf, effects, durable, overdue, unsaved>>
vars == <<open, token, asked, ckpt, row, loopVars, results, step, saving,
          historyVars>>

BatchOf(n) == {id \in Id : id[1] = n /\ id[2] \in scenario.calls}

-----------------------------------------------------------------------------
Checkpoint == [turns : Nat, pending : Ask \cup {None}, results : SUBSET Id]

Blank == [turns |-> 0, pending |-> None, results |-> {}]    \* the prompt

\* A persist fixes the batch and the results when it starts; the transcript is
\* passed by reference and is read when the statement is built.
Snapshot == [id : Id, pending : Ask \cup {None}, results : SUBSET Id]

Steps == {"idle", "ready", "answered",             \* before the barrier
          "conflict", "retry", "conflict again",   \* claiming, two rounds
          "running", "returned", "threw", "asks",  \* the tool
          "recorded", "saving", "done", "waiting"} \* after it

TypeOK ==
    /\ scenario \in Scenarios
    /\ open \in BOOLEAN
    /\ token \in Exec \cup {None}
    /\ asked \in Ask \cup {0}
    /\ turnOf \in [Ask -> Nat]
    /\ ckpt \in Checkpoint
    /\ row \in [Id -> {"none", "dispatched", "settled", "interrupted"}]
    /\ phase \in [Exec -> {"new", "claimed", "loop", "ready", "asked", "batch",
                           "over", "ending", "left", "gone"}]
    /\ turns \in [Exec -> Nat]
    /\ batch \in [Exec -> Ask \cup {None}]
    /\ results \in [Exec -> SUBSET Id]
    /\ step \in [Exec -> [Id -> Steps]]
    /\ saving \in [Exec -> SUBSET Snapshot]
    /\ effects \in [Id -> Nat]
    /\ durable \subseteq Id
    /\ overdue \in BOOLEAN
    /\ unsaved \in BOOLEAN

Init ==
    /\ scenario \in Scenarios
    /\ open = TRUE
    /\ token = None
    /\ asked = 0
    /\ turnOf = [n \in Ask |-> 0]
    /\ ckpt = Blank
    /\ row = [id \in Id |-> "none"]
    /\ phase = [e \in Exec |-> "new"]
    /\ turns = [e \in Exec |-> 0]
    /\ batch = [e \in Exec |-> None]
    /\ results = [e \in Exec |-> {}]
    /\ step = [e \in Exec |-> [id \in Id |-> "idle"]]
    /\ saving = [e \in Exec |-> {}]
    /\ effects = [id \in Id |-> 0]
    /\ durable = {}
    /\ overdue = FALSE
    /\ unsaved = FALSE

May(f) == f \in scenario.faults

\* What an execution does once the run has ended is left out of most scenarios.
Goes(e, p) == phase[e] \in p /\ (open \/ May("outlives"))

Goto(e, p) == phase' = [phase EXCEPT ![e] = p]
StepTo(e, id, s) == step' = [step EXCEPT ![e][id] = s]

-----------------------------------------------------------------------------
(* The executions of the run.                                              *)

\* The run is free, its execution died, or it fell silent and goes on.
CanTake == (token # None /\ ~May("silent")) => phase[token] = "gone"

Take(e) ==
    /\ open
    /\ phase[e] = "new"
    /\ \A d \in Exec : d < e => phase[d] # "new"
    /\ CanTake
    /\ token' = e
    /\ Goto(e, "claimed")
    /\ UNCHANGED <<open, asked, ckpt, row, turns, batch, results, step, saving,
                   historyVars>>

\* The crash state is loaded once the run is held; none of it is the prompt.
Load(e) ==
    /\ Goes(e, {"claimed"})
    /\ turns' = [turns EXCEPT ![e] = ckpt.turns]
    /\ batch' = [batch EXCEPT ![e] = ckpt.pending]
    /\ results' = [results EXCEPT ![e] = ckpt.results]
    /\ Goto(e, IF ckpt.pending = None THEN "loop" ELSE "asked")
    /\ UNCHANGED <<open, token, asked, ckpt, row, step, saving, historyVars>>

\* The process dies with everything it was doing.
Crash(e) ==
    /\ phase[e] \notin {"new", "gone"}
    /\ Goto(e, "gone")
    /\ turns' = [turns EXCEPT ![e] = 0]
    /\ batch' = [batch EXCEPT ![e] = None]
    /\ results' = [results EXCEPT ![e] = {}]
    /\ step' = [step EXCEPT ![e] = [id \in Id |-> "idle"]]
    /\ saving' = [saving EXCEPT ![e] = {}]
    /\ UNCHANGED <<open, token, asked, ckpt, row, historyVars>>

\* Mutant: the checkpoint write is not fenced on the executor token.
Write_Unfenced(e, t, p, rs) ==
    \/ /\ ckpt' = [turns |-> t, pending |-> p, results |-> rs]
       /\ durable' = durable \cup rs
    \/ /\ May("write fails")
       /\ UNCHANGED <<ckpt, durable>>

Write(e, t, p, rs) ==
    \/ /\ token = e
       /\ ckpt' = [turns |-> t, pending |-> p, results |-> rs]
       /\ durable' = durable \cup rs
    \/ /\ token # e \/ May("write fails")
       /\ UNCHANGED <<ckpt, durable>>

\* The top of an iteration: the state is saved with no batch pending.  Whether
\* the save landed is nothing the loop asks.
Boundary(e) ==
    /\ Goes(e, {"loop"})
    /\ Write(e, turns[e], None, results[e])
    /\ batch' = [batch EXCEPT ![e] = None]
    /\ Goto(e, "ready")
    /\ UNCHANGED <<open, token, asked, row, turns, results, step, saving,
                   scenario, turnOf, effects, overdue, unsaved>>

\* The model requests a batch of tools, under ids of its own.
Infer(e) ==
    /\ Goes(e, {"ready"})
    /\ asked < scenario.asks
    /\ asked' = asked + 1
    /\ turnOf' = [turnOf EXCEPT ![asked + 1] = turns[e]]
    /\ batch' = [batch EXCEPT ![e] = asked + 1]
    /\ Goto(e, "asked")
    /\ UNCHANGED <<open, token, ckpt, row, turns, results, step, saving,
                   scenario, effects, durable, overdue, unsaved>>

\* The batch itself is saved, immediately before it is dispatched.
SaveBatch(e) ==
    /\ Goes(e, {"asked"})
    /\ Write(e, turns[e], batch[e], results[e])
    /\ Goto(e, "batch")
    /\ unsaved' = (unsaved \/ ckpt'.pending # batch[e])
    /\ UNCHANGED <<open, token, asked, row, turns, batch, results, step, saving,
                   scenario, turnOf, effects, overdue>>

-----------------------------------------------------------------------------
(* The calls of a batch.  They go on when the loop that sent them is gone, *)
(* until the process dies.                                                 *)

Alive(e) == Goes(e, {"claimed", "loop", "ready", "asked", "batch", "over", "ending", "left"})

\* Every call of a batch is prepared before one of them runs.
Prepared(e, id) == \A other \in BatchOf(id[1]) : step[e][other] # "idle"

Working(e, id, s) == Alive(e) /\ step[e][id] = s

LoopStays == UNCHANGED <<scenario, open, token, asked, turnOf, loopVars, overdue, unsaved>>

\* A recorded call answers from memory, a call with a row from its row; the
\* loop detector, the breaker or a failed preparation answer without running.
Prepare(e, id) ==
    /\ Goes(e, {"batch", "left"})
    /\ id \in BatchOf(batch[e])
    /\ step[e][id] = "idle"
    /\ \/ /\ id \notin results[e]
          /\ NeedsRecord(id) /\ row[id] # "none"
          /\ StepTo(e, id, "answered")
       \/ /\ id \notin results[e]
          /\ NeedsRecord(id) => row[id] = "none"
          /\ StepTo(e, id, "ready")
       \/ StepTo(e, id, "done")
    /\ LoopStays
    /\ UNCHANGED <<ckpt, row, results, saving, effects, durable>>

\* An approval found while preparing discards the whole batch.
Suspend(e, id) ==
    /\ May("suspends")
    /\ Goes(e, {"batch"})
    /\ id \in BatchOf(batch[e]) \ results[e]
    /\ step[e][id] = "idle"
    /\ NeedsRecord(id) => row[id] = "none"
    /\ step' = [step EXCEPT ![e] = [other \in Id |->
                   IF other \in BatchOf(batch[e]) THEN "done" ELSE @[other]]]
    /\ Goto(e, "over")
    /\ UNCHANGED <<open, token, asked, ckpt, row, turns, batch, results, saving,
                   historyVars>>

\* The recorder keeps a result and queues a persist.
Keep(e, id) ==
    /\ results' = [results EXCEPT ![e] = @ \cup {id}]
    /\ StepTo(e, id, "recorded")

Replay(e, id) ==
    /\ Working(e, id, "answered")
    /\ Prepared(e, id)
    /\ Keep(e, id)
    /\ LoopStays
    /\ UNCHANGED <<ckpt, row, saving, effects, durable>>

\* Mutant: a row that never settled does not stop a second dispatch.
ClaimDispatch_Retries(e, id) ==
    /\ row[id] \in {"none", "dispatched"}
    /\ row' = [row EXCEPT ![id] = "dispatched"]

\* INSERT ... ON CONFLICT DO NOTHING
ClaimDispatch(e, id) ==
    /\ row[id] = "none"
    /\ row' = [row EXCEPT ![id] = "dispatched"]

\* The reply of a failed statement is lost, whatever the statement did.
Claim(e, id) ==
    /\ Working(e, id, "ready") \/ Working(e, id, "retry")
    /\ Prepared(e, id)
    /\ \/ /\ ~NeedsRecord(id)
          /\ StepTo(e, id, "running")
          /\ UNCHANGED row
       \/ /\ NeedsRecord(id)
          /\ ClaimDispatch(e, id)
          /\ StepTo(e, id, "running")
       \/ /\ NeedsRecord(id) /\ row[id] # "none"
          /\ StepTo(e, id, IF step[e][id] = "ready" THEN "conflict" ELSE "conflict again")
          /\ UNCHANGED row
       \/ /\ NeedsRecord(id) /\ May("write fails")
          /\ ClaimDispatch(e, id) \/ UNCHANGED row
          /\ StepTo(e, id, "done")
    /\ LoopStays
    /\ UNCHANGED <<ckpt, results, saving, effects, durable>>

\* A row that conflicted answers.  One deleted since is claimed again, and
\* after two rounds the call runs.
Read(e, id) ==
    /\ Working(e, id, "conflict") \/ Working(e, id, "conflict again")
    /\ \/ /\ row[id] # "none"
          /\ StepTo(e, id, "answered")
       \/ /\ row[id] = "none"
          /\ StepTo(e, id, IF step[e][id] = "conflict" THEN "retry" ELSE "running")
       \/ /\ May("write fails")
          /\ StepTo(e, id, "done")
    /\ LoopStays
    /\ UNCHANGED <<ckpt, row, results, saving, effects, durable>>

\* A tool returns, throws or asks a person; a denied or failing one returns or
\* throws without having had its effect.
Execute(e, id) ==
    /\ Working(e, id, "running")
    /\ \/ /\ \/ StepTo(e, id, "returned")
             \/ May("throws") /\ StepTo(e, id, "threw")
          /\ \/ effects' = [effects EXCEPT ![id] = @ + 1]
             \/ UNCHANGED effects
       \/ /\ May("suspends") /\ StepTo(e, id, "asks")
          /\ UNCHANGED effects
    /\ LoopStays
    /\ UNCHANGED <<ckpt, row, results, saving, durable>>

\* UPDATE or DELETE ... WHERE state = 'dispatched'
FromDispatched(id, to) ==
    row' = IF NeedsRecord(id) /\ row[id] = "dispatched"
           THEN [row EXCEPT ![id] = to] ELSE row

\* A settle that fails turns a tool that returned into one that threw.
Settle(e, id) ==
    /\ Working(e, id, "returned")
    /\ \/ /\ FromDispatched(id, "settled")
          /\ Keep(e, id)
       \/ /\ NeedsRecord(id) /\ May("write fails")
          /\ StepTo(e, id, "done")
          /\ UNCHANGED <<row, results>>
    /\ LoopStays
    /\ UNCHANGED <<ckpt, saving, effects, durable>>

\* A throw settles the claim as an unknown outcome, if it can.
Interrupt(e, id) ==
    /\ Working(e, id, "threw")
    /\ FromDispatched(id, "interrupted") \/ (May("write fails") /\ UNCHANGED row)
    /\ StepTo(e, id, "done")
    /\ LoopStays
    /\ UNCHANGED <<ckpt, results, saving, effects, durable>>

\* A call that waits for a person was never made: its claim is withdrawn.
Withdraw(e, id) ==
    /\ Working(e, id, "asks")
    /\ FromDispatched(id, "none") \/ (May("write fails") /\ UNCHANGED row)
    /\ StepTo(e, id, "waiting")
    /\ LoopStays
    /\ UNCHANGED <<ckpt, results, saving, effects, durable>>

\* Mutant: the persists of overlapping calls are not chained.
PersistFree_Always(e) == TRUE

PersistFree(e) == saving[e] = {}

Persist(e, id) ==
    /\ Working(e, id, "recorded")
    /\ PersistFree(e)
    /\ saving' = [saving EXCEPT ![e] = @ \cup
                    {[id |-> id, pending |-> batch[e], results |-> results[e]]}]
    /\ StepTo(e, id, "saving")
    /\ LoopStays
    /\ UNCHANGED <<ckpt, row, results, effects, durable>>

Persisted(e) ==
    /\ Alive(e)
    /\ \E s \in saving[e] :
          /\ Write(e, turns[e], s.pending, s.results)
          /\ saving' = [saving EXCEPT ![e] = @ \ {s}]
          /\ StepTo(e, s.id, "done")
    /\ LoopStays
    /\ UNCHANGED <<row, results, effects>>

-----------------------------------------------------------------------------
(* The end of a batch and of the run.                                      *)

\* Mutant: the batch does not wait for the persist of a result.
Answered_Unsaved(e, id) == step[e][id] \in {"recorded", "saving", "done", "waiting"}

Answered(e, id) == step[e][id] \in {"done", "waiting"}

\* The results enter the transcript, or a call that waits for a person parks the
\* run.  A call that outlives its timeout is answered for, and goes on.
CloseBatch(e) ==
    LET mine == BatchOf(batch[e])
        answered == \A id \in mine : Answered(e, id)
        waits == \E id \in mine : step[e][id] = "waiting"
    IN  /\ Goes(e, {"batch"})
        /\ \A id \in mine : Prepared(e, id)
        /\ answered \/ May("timeout")
        /\ \/ /\ waits
              /\ Goto(e, "over")
              /\ UNCHANGED <<turns, batch>>
           \/ /\ ~waits
              /\ Goto(e, "loop")
              /\ turns' = [turns EXCEPT ![e] = @ + 1]
              /\ batch' = [batch EXCEPT ![e] = None]
        /\ overdue' = (overdue \/ ~answered)
        /\ UNCHANGED <<open, token, asked, ckpt, row, results, step, saving,
                       scenario, turnOf, effects, durable, unsaved>>

\* A hand-back clears the token of the execution that hands back.
Released(e) == IF token = e THEN None ELSE token

\* The iteration probe finds the run taken over; or a drain ends the loop, which
\* hands the run back and leaves its batch to the rest of the process's life.
Leave(e) ==
    /\ \/ Goes(e, {"loop"}) /\ token # e
       \/ Goes(e, {"loop", "ready", "batch"}) /\ May("drain")
    /\ token' = Released(e)
    /\ Goto(e, "left")
    /\ UNCHANGED <<open, asked, ckpt, row, turns, batch, results, step, saving,
                   historyVars>>

\* The model answers without tools, the loop stops, or the run parks: a fenced
\* status write.
Finish(e) ==
    /\ Goes(e, {"loop", "ready", "over"})
    /\ IF token = e THEN open' = FALSE /\ Goto(e, "ending")
                    ELSE UNCHANGED open /\ Goto(e, "left")
    /\ UNCHANGED <<token, asked, ckpt, row, turns, batch, results, step, saving,
                   historyVars>>

\* Behind it the crash state and every claim of the run are shed.
Clear(e) ==
    /\ phase[e] = "ending"
    /\ ckpt' = Blank
    /\ row' = [id \in Id |-> "none"]
    /\ Goto(e, "left")
    /\ UNCHANGED <<open, token, asked, turns, batch, results, step, saving,
                   historyVars>>

-----------------------------------------------------------------------------
LoopStep(e) ==
    \/ Take(e) \/ Load(e) \/ Crash(e) \/ Boundary(e) \/ Infer(e) \/ SaveBatch(e)
    \/ CloseBatch(e) \/ Leave(e) \/ Finish(e) \/ Clear(e) \/ Persisted(e)

CallStep(e, id) ==
    \/ Prepare(e, id) \/ Suspend(e, id) \/ Replay(e, id) \/ Claim(e, id) \/ Read(e, id)
    \/ Execute(e, id) \/ Settle(e, id) \/ Interrupt(e, id) \/ Withdraw(e, id)
    \/ Persist(e, id)

Next == \E e \in Exec : LoopStep(e) \/ \E id \in Id : CallStep(e, id)

Spec == Init /\ [][Next]_vars

-----------------------------------------------------------------------------
(* Properties.                                                             *)

\* While the run may still be resumed, a call that needs an effect record takes
\* effect at most once, however many executions reach it and however they stop
\* (tool-effect-ledger.ts: the claim is committed before the dispatch, and every
\* row that exists answers).
CallTakesEffectOnce ==
    open => \A id \in Id : NeedsRecord(id) => effects[id] <= 1

\* A recorded result that reached storage is still there, and the execution that
\* holds the run knows it (loop-resume.ts: the persists are serialised and
\* fenced; the state is loaded after the claim) - unless a call outlived its
\* timeout.
DurableIsKept ==
    open /\ ~overdue =>
        /\ durable \subseteq ckpt.results
        /\ token # None /\ phase[token] \notin {"claimed", "gone"}
              => durable \subseteq results[token]

\* A checkpoint that carries a batch carries the transcript that ends in the
\* request of that batch (agentic-loop.ts, markDispatchBoundary): a resume never
\* re-enters a batch whose results the transcript already has.
CheckpointFits ==
    ~overdue /\ ckpt.pending # None => ckpt.turns = turnOf[ckpt.pending]

\* The calls of one turn of the conversation take effect under one id only.
TurnTakesEffectOnce ==
    open => \A c \in Claimed : \A m, n \in Ask :
        m # n /\ m <= asked /\ n <= asked /\ turnOf[m] = turnOf[n]
            => effects[<<m, c>>] = 0 \/ effects[<<n, c>>] = 0

\* It holds as long as every batch was saved before it was dispatched
\* (agentic-loop.ts, the checkpoint immediately before dispatch).
SavedTurnTakesEffectOnce == ~unsaved /\ ~overdue => TurnTakesEffectOnce

-----------------------------------------------------------------------------
(* What is assumed here of the run and its takeovers is no more than module *)
(* RunExecution provides: both keep one contract.                           *)

Fresh == {e \in Exec : phase[e] = "new"}

AtWork == {e \in Exec : phase[e] \notin {"new", "left", "gone"}}

Run == INSTANCE RunContract
    WITH Execution <- Exec, Nobody <- None,
         open <- open, holder <- token, fresh <- Fresh, working <- AtWork

\* Takeovers, crashes, hand-backs and ends of this module are steps the contract
\* of the run allows (lifecycle.ts).
ImplementsRunContract == Run!Spec
=============================================================================
