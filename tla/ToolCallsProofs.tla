-------------------------- MODULE ToolCallsProofs --------------------------
(***************************************************************************)
(* Proofs about ToolCalls, for any number of executions, inferences and     *)
(* calls, and whatever a run meets unless a theorem assumes a fault away:    *)
(* TypeCorrect, ClaimedCallsTakeEffectOnce (by EffectInv: who may run a     *)
(* call) and CallsTakeEffectOnce, which follows from it, and                *)
(* DurableResultsAreKept (by StoredInv: what the holder of the run knows).  *)
(***************************************************************************)
EXTENDS ToolCalls, TLAPS

Phases == {"new", "claimed", "loop", "ready", "asked", "batch", "over", "ending",
           "left", "gone"}
RowStates == {"none", "dispatched", "settled", "interrupted"}

ScenarioTyped == scenario \in Scenarios
RunTyped == open \in BOOLEAN /\ token \in Exec \cup {None}
AsksTyped == asked \in Ask \cup {0} /\ turnOf \in [Ask -> Nat]
CkptTyped == ckpt \in Checkpoint /\ durable \subseteq Id
RowTyped == row \in [Id -> RowStates]
PhaseTyped == phase \in [Exec -> Phases]
LoopTyped == turns \in [Exec -> Nat] /\ batch \in [Exec -> Ask \cup {None}]
ResultsTyped == results \in [Exec -> SUBSET Id]
StepTyped == step \in [Exec -> [Id -> Steps]]
SavingTyped == saving \in [Exec -> SUBSET Snapshot]
EffectsTyped == effects \in [Id -> Nat]
FlagsTyped == overdue \in BOOLEAN /\ unsaved \in BOOLEAN

LEMMA TypeParts ==
    TypeOK <=> /\ RunTyped /\ AsksTyped /\ CkptTyped /\ RowTyped /\ PhaseTyped
               /\ LoopTyped /\ ResultsTyped /\ StepTyped /\ SavingTyped
               /\ EffectsTyped /\ FlagsTyped /\ ScenarioTyped
BY DEF TypeOK, ScenarioTyped, RunTyped, AsksTyped, CkptTyped, RowTyped, PhaseTyped, LoopTyped,
       ResultsTyped, StepTyped, SavingTyped, EffectsTyped, FlagsTyped, Phases, RowStates

LEMMA TypePartsNext ==
    TypeOK' <=> /\ RunTyped' /\ AsksTyped' /\ CkptTyped' /\ RowTyped' /\ PhaseTyped'
                /\ LoopTyped' /\ ResultsTyped' /\ StepTyped' /\ SavingTyped'
                /\ EffectsTyped' /\ FlagsTyped' /\ ScenarioTyped'
BY DEF TypeOK, ScenarioTyped, RunTyped, AsksTyped, CkptTyped, RowTyped, PhaseTyped, LoopTyped,
       ResultsTyped, StepTyped, SavingTyped, EffectsTyped, FlagsTyped, Phases, RowStates

-----------------------------------------------------------------------------
(* What the helpers of the actions keep. *)

LEMMA GotoTyped ==
    ASSUME PhaseTyped, NEW e \in Exec, NEW p \in Phases, Goto(e, p)
    PROVE  PhaseTyped'
BY DEF PhaseTyped, Goto

LEMMA StepToTyped ==
    ASSUME StepTyped, NEW e \in Exec, NEW id \in Id, NEW s \in Steps, StepTo(e, id, s)
    PROVE  StepTyped'
BY DEF StepTyped, StepTo

LEMMA KeepTyped ==
    ASSUME StepTyped, ResultsTyped, NEW e \in Exec, NEW id \in Id, Keep(e, id)
    PROVE  StepTyped' /\ ResultsTyped'
<1>1. StepTyped'
  BY StepToTyped DEF Keep, Steps
<1>2. ResultsTyped'
  BY DEF Keep, ResultsTyped
<1> QED BY <1>1, <1>2

LEMMA FromDispatchedTyped ==
    ASSUME RowTyped, NEW id \in Id, NEW to \in RowStates, FromDispatched(id, to)
    PROVE  RowTyped'
BY DEF RowTyped, FromDispatched

LEMMA ClaimDispatchTyped ==
    ASSUME RowTyped, NEW e \in Exec, NEW id \in Id, ClaimDispatch(e, id)
    PROVE  RowTyped'
BY DEF RowTyped, ClaimDispatch, RowStates

LEMMA WriteTyped ==
    ASSUME CkptTyped, NEW e, NEW t \in Nat, NEW p \in Ask \cup {None},
           NEW rs \in SUBSET Id, Write(e, t, p, rs)
    PROVE  CkptTyped'
<1>1. [turns |-> t, pending |-> p, results |-> rs] \in Checkpoint
  BY DEF Checkpoint
<1>2. durable \cup rs \subseteq Id
  BY DEF CkptTyped
<1>3. CASE UNCHANGED <<ckpt, durable>>
  BY <1>3 DEF CkptTyped
<1>4. CASE /\ ckpt' = [turns |-> t, pending |-> p, results |-> rs]
           /\ durable' = durable \cup rs
  BY <1>1, <1>2, <1>4 DEF CkptTyped
<1> QED BY <1>3, <1>4 DEF Write

LEMMA BlankTyped == Blank \in Checkpoint
BY DEF Blank, Checkpoint, None

\* Batches are numbered from 1; None is not one of them.
LEMMA NextAskTyped ==
    ASSUME ScenarioTyped, AsksTyped, asked < scenario.asks
    PROVE  asked + 1 \in Ask
<1>1. scenario.asks \in 0..MaxAsks
  BY ScenariosAssumption DEF ScenarioTyped
<1> QED BY <1>1, BoundsAssumption DEF AsksTyped, Ask

-----------------------------------------------------------------------------
(* Type correctness. *)

LEMMA InitTyped == Init => TypeOK
<1> SUFFICES ASSUME Init PROVE TypeOK
  OBVIOUS
<1>1. ScenarioTyped /\ RunTyped /\ AsksTyped /\ RowTyped /\ PhaseTyped /\ LoopTyped
  BY DEF Init, ScenarioTyped, RunTyped, AsksTyped, RowTyped, PhaseTyped, LoopTyped, RowStates, Phases, None
<1>2. CkptTyped /\ ResultsTyped /\ StepTyped /\ SavingTyped /\ EffectsTyped /\ FlagsTyped
  BY BlankTyped DEF Init, CkptTyped, ResultsTyped, StepTyped, SavingTyped, EffectsTyped,
                    FlagsTyped, Steps
<1> QED BY <1>1, <1>2, TypeParts

\* The parts a step does not name stay as they are.
LEMMA UnchangedTyped ==
    /\ ScenarioTyped /\ UNCHANGED scenario => ScenarioTyped'
    /\ RunTyped /\ UNCHANGED <<open, token>> => RunTyped'
    /\ AsksTyped /\ UNCHANGED <<asked, turnOf>> => AsksTyped'
    /\ CkptTyped /\ UNCHANGED <<ckpt, durable>> => CkptTyped'
    /\ RowTyped /\ UNCHANGED row => RowTyped'
    /\ PhaseTyped /\ UNCHANGED phase => PhaseTyped'
    /\ LoopTyped /\ UNCHANGED <<turns, batch>> => LoopTyped'
    /\ ResultsTyped /\ UNCHANGED results => ResultsTyped'
    /\ StepTyped /\ UNCHANGED step => StepTyped'
    /\ SavingTyped /\ UNCHANGED saving => SavingTyped'
    /\ EffectsTyped /\ UNCHANGED effects => EffectsTyped'
    /\ FlagsTyped /\ UNCHANGED <<overdue, unsaved>> => FlagsTyped'
BY DEF ScenarioTyped, RunTyped, AsksTyped, CkptTyped, RowTyped, PhaseTyped, LoopTyped,
       ResultsTyped, StepTyped, SavingTyped, EffectsTyped, FlagsTyped


LEMMA LoopStepTyped ==
    ASSUME TypeOK, NEW e \in Exec, LoopStep(e)
    PROVE  TypeOK'
<1> USE TypeParts, TypePartsNext, UnchangedTyped
<1> USE DEF historyVars
<1>1. CASE Take(e)
  <2>1. RunTyped' /\ PhaseTyped'
    BY <1>1, GotoTyped DEF Take, RunTyped, Phases
  <2> QED BY <1>1, <2>1 DEF Take
<1>2. CASE Load(e)
  <2>1. ckpt.turns \in Nat /\ ckpt.pending \in Ask \cup {None} /\ ckpt.results \in SUBSET Id
    BY DEF CkptTyped, Checkpoint
  <2>2. LoopTyped' /\ ResultsTyped'
    BY <1>2, <2>1 DEF Load, LoopTyped, ResultsTyped
  <2>3. PhaseTyped'
    BY <1>2, GotoTyped DEF Load, Phases
  <2> QED BY <1>2, <2>2, <2>3 DEF Load
<1>3. CASE Crash(e)
  <2>1. PhaseTyped'
    BY <1>3, GotoTyped DEF Crash, Phases
  <2>2. LoopTyped' /\ ResultsTyped'
    BY <1>3 DEF Crash, LoopTyped, ResultsTyped
  <2>3. StepTyped' /\ SavingTyped'
    BY <1>3 DEF Crash, StepTyped, SavingTyped, Steps
  <2> QED BY <1>3, <2>1, <2>2, <2>3 DEF Crash
<1>4. CASE Boundary(e)
  <2>1. turns[e] \in Nat /\ None \in Ask \cup {None} /\ results[e] \in SUBSET Id
    BY DEF LoopTyped, ResultsTyped
  <2>2. CkptTyped'
    BY <1>4, <2>1, WriteTyped DEF Boundary
  <2>3. LoopTyped' /\ PhaseTyped'
    BY <1>4, GotoTyped DEF Boundary, LoopTyped, Phases
  <2> QED BY <1>4, <2>2, <2>3 DEF Boundary
<1>5. CASE Infer(e)
  <2>1. asked + 1 \in Ask
    BY <1>5, NextAskTyped DEF Infer
  <2>2. turns[e] \in Nat
    BY DEF LoopTyped
  <2>3. AsksTyped'
    BY <1>5, <2>1, <2>2 DEF Infer, AsksTyped
  <2>4. LoopTyped' /\ PhaseTyped'
    BY <1>5, <2>1, GotoTyped DEF Infer, LoopTyped, Phases
  <2> QED BY <1>5, <2>3, <2>4 DEF Infer
<1>6. CASE SaveBatch(e)
  <2>1. turns[e] \in Nat /\ batch[e] \in Ask \cup {None} /\ results[e] \in SUBSET Id
    BY DEF LoopTyped, ResultsTyped
  <2>2. CkptTyped'
    BY <1>6, <2>1, WriteTyped DEF SaveBatch
  <2>3. PhaseTyped' /\ FlagsTyped'
    BY <1>6, GotoTyped DEF SaveBatch, FlagsTyped, Phases
  <2> QED BY <1>6, <2>2, <2>3 DEF SaveBatch
<1>7. CASE CloseBatch(e)
  <2>1. LoopTyped'
    BY <1>7 DEF CloseBatch, LoopTyped
  <2>2. PhaseTyped' /\ FlagsTyped'
    BY <1>7, GotoTyped DEF CloseBatch, FlagsTyped, Phases
  <2> QED BY <1>7, <2>1, <2>2 DEF CloseBatch
<1>8. CASE Leave(e)
  <2>1. RunTyped' /\ PhaseTyped'
    BY <1>8, GotoTyped DEF Leave, Released, RunTyped, Phases
  <2> QED BY <1>8, <2>1 DEF Leave
<1>9. CASE Finish(e)
  <2>1. RunTyped' /\ PhaseTyped'
    BY <1>9, GotoTyped DEF Finish, RunTyped, Phases
  <2> QED BY <1>9, <2>1 DEF Finish
<1>10. CASE Clear(e)
  <2>1. CkptTyped' /\ RowTyped' /\ PhaseTyped'
    BY <1>10, GotoTyped, BlankTyped DEF Clear, CkptTyped, RowTyped, RowStates, Phases
  <2> QED BY <1>10, <2>1 DEF Clear
<1>11. CASE Persisted(e)
  <2>1. PICK s \in saving[e] : /\ Write(e, turns[e], s.pending, s.results)
                              /\ saving' = [saving EXCEPT ![e] = @ \ {s}]
                              /\ StepTo(e, s.id, "done")
    BY <1>11 DEF Persisted
  <2>2. s.id \in Id /\ s.pending \in Ask \cup {None} /\ s.results \in SUBSET Id
    BY DEF SavingTyped, Snapshot
  <2>3. turns[e] \in Nat
    BY DEF LoopTyped
  <2>4. CkptTyped'
    BY <2>1, <2>2, <2>3, WriteTyped
  <2>5. SavingTyped' /\ StepTyped'
    BY <2>1, <2>2, StepToTyped DEF SavingTyped, Steps
  <2> QED BY <1>11, <2>4, <2>5 DEF Persisted, LoopStays, loopVars
<1> QED BY <1>1, <1>2, <1>3, <1>4, <1>5, <1>6, <1>7, <1>8, <1>9, <1>10, <1>11 DEF LoopStep

LEMMA CallStepTyped ==
    ASSUME TypeOK, NEW e \in Exec, NEW id \in Id, CallStep(e, id)
    PROVE  TypeOK'
<1> USE TypeParts, TypePartsNext, UnchangedTyped
<1> USE DEF LoopStays, loopVars
<1>1. CASE Prepare(e, id)
  <2>1. StepTyped'
    BY <1>1, StepToTyped DEF Prepare, Steps
  <2> QED BY <1>1, <2>1 DEF Prepare
<1>2. CASE Suspend(e, id)
  <2>1. StepTyped'
    BY <1>2 DEF Suspend, StepTyped, Steps
  <2>2. PhaseTyped'
    BY <1>2, GotoTyped DEF Suspend, Phases
  <2> QED BY <1>2, <2>1, <2>2 DEF Suspend, historyVars
<1>3. CASE Replay(e, id)
  BY <1>3, KeepTyped DEF Replay
<1>4. CASE Claim(e, id)
  <2>1. StepTyped'
    BY <1>4, StepToTyped DEF Claim, Steps
  <2>2. RowTyped'
    BY <1>4, ClaimDispatchTyped DEF Claim
  <2> QED BY <1>4, <2>1, <2>2 DEF Claim
<1>5. CASE Read(e, id)
  <2>1. StepTyped'
    BY <1>5, StepToTyped DEF Read, Steps
  <2> QED BY <1>5, <2>1 DEF Read
<1>6. CASE Execute(e, id)
  <2>1. StepTyped'
    BY <1>6, StepToTyped DEF Execute, Steps
  <2>2. EffectsTyped'
    BY <1>6 DEF Execute, EffectsTyped
  <2> QED BY <1>6, <2>1, <2>2 DEF Execute
<1>7. CASE Settle(e, id)
  <2>1. StepTyped' /\ ResultsTyped'
    BY <1>7, StepToTyped, KeepTyped DEF Settle, Steps
  <2>2. RowTyped'
    BY <1>7, FromDispatchedTyped DEF Settle, RowStates
  <2> QED BY <1>7, <2>1, <2>2 DEF Settle
<1>8. CASE Interrupt(e, id)
  <2>1. StepTyped'
    BY <1>8, StepToTyped DEF Interrupt, Steps
  <2>2. RowTyped'
    BY <1>8, FromDispatchedTyped DEF Interrupt, RowStates
  <2> QED BY <1>8, <2>1, <2>2 DEF Interrupt
<1>9. CASE Withdraw(e, id)
  <2>1. StepTyped'
    BY <1>9, StepToTyped DEF Withdraw, Steps
  <2>2. RowTyped'
    BY <1>9, FromDispatchedTyped DEF Withdraw, RowStates
  <2> QED BY <1>9, <2>1, <2>2 DEF Withdraw
<1>10. CASE Persist(e, id)
  <2>1. [id |-> id, pending |-> batch[e], results |-> results[e]] \in Snapshot
    BY DEF Snapshot, LoopTyped, ResultsTyped
  <2>2. SavingTyped'
    BY <1>10, <2>1 DEF Persist, SavingTyped
  <2>3. StepTyped'
    BY <1>10, StepToTyped DEF Persist, Steps
  <2> QED BY <1>10, <2>2, <2>3 DEF Persist
<1> QED BY <1>1, <1>2, <1>3, <1>4, <1>5, <1>6, <1>7, <1>8, <1>9, <1>10 DEF CallStep

LEMMA NextTyped == TypeOK /\ [Next]_vars => TypeOK'
<1> SUFFICES ASSUME TypeOK, [Next]_vars PROVE TypeOK'
  OBVIOUS
<1>1. CASE UNCHANGED vars
  BY <1>1, TypeParts, TypePartsNext, UnchangedTyped DEF vars, loopVars, historyVars
<1>2. CASE Next
  BY <1>2, LoopStepTyped, CallStepTyped DEF Next
<1> QED BY <1>1, <1>2

\* Every variable keeps its type: an execution is in one of the phases of the
\* loop, a row of the ledger in one of its four states, and a checkpoint never
\* names a batch nobody asked for (agentic-loop.ts, tool-effect-ledger.ts).
THEOREM TypeCorrect == Spec => []TypeOK
<1>1. Init => TypeOK
  BY InitTyped
<1>2. TypeOK /\ [Next]_vars => TypeOK'
  BY NextTyped
<1> QED BY <1>1, <1>2, PTL DEF Spec


-----------------------------------------------------------------------------
(* A call takes effect once.  The execution that inserted the row of a call   *)
(* is the only one at it, and only that execution withdraws the row, before   *)
(* the call took effect; a run that has ended is cleared.  What spoils it is  *)
(* the way out of the claim's two rounds, which runs a call that has no row.  *)

\* The places of a call that the execution which inserted its row goes through
\* before the call takes effect, or is known to wait for a person.
Hot == {"running", "asks"}

Once(id) ==
    /\ effects[id] <= 1
    /\ row[id] = "none" => effects[id] = 0 /\ \A e \in Exec : step[e][id] \notin Hot
    /\ \A e \in Exec : step[e][id] \in Hot => effects[id] = 0
    /\ \A d, e \in Exec : step[d][id] \in Hot /\ step[e][id] \in Hot => d = e

OnceInv == open => \A id \in Id : NeedsRecord(id) => Once(id)

\* The run has ended before its rows are cleared.
EndingInv == \A e \in Exec : phase[e] = "ending" => ~open

EffectInv == TypeOK /\ OnceInv /\ EndingInv

\* A call that met a row twice and found it gone twice runs without one.
RunsUnclaimed ==
    \E e \in Exec, id \in Id :
        /\ open /\ NeedsRecord(id)
        /\ Working(e, id, "conflict again") /\ row[id] = "none"
        /\ StepTo(e, id, "running")

\* A step that claims nothing and has no effect keeps what Once says.
LEMMA QuietKeepsOnce ==
    ASSUME OnceInv, open' => open, effects' = effects,
           \A id \in Id : row'[id] = "none" => row[id] = "none",
           \A e \in Exec, id \in Id : step'[e][id] \in Hot => step'[e][id] = step[e][id]
    PROVE  OnceInv'
<1> SUFFICES ASSUME open', NEW id \in Id, NeedsRecord(id) PROVE Once(id)'
  BY DEF OnceInv, NeedsRecord
<1>1. Once(id)
  BY DEF OnceInv
<1>2. effects'[id] <= 1
  BY <1>1 DEF Once
<1>3. row'[id] = "none" => effects'[id] = 0 /\ \A e \in Exec : step'[e][id] \notin Hot
  BY <1>1 DEF Once
<1>4. \A e \in Exec : step'[e][id] \in Hot => step[e][id] \in Hot
  OBVIOUS
<1>5. \A e \in Exec : step'[e][id] \in Hot => effects'[id] = 0
  BY <1>1, <1>4 DEF Once
<1>6. \A d, e \in Exec : step'[d][id] \in Hot /\ step'[e][id] \in Hot => d = e
  BY <1>1, <1>4 DEF Once
<1> QED BY <1>2, <1>3, <1>5, <1>6 DEF Once

\* One call moves to s; every other stays where it is.
LEMMA StepToElsewhere ==
    ASSUME StepTyped, NEW e \in Exec, NEW id \in Id, NEW s, StepTo(e, id, s)
    PROVE  /\ step'[e][id] = s
           /\ \A d \in Exec, other \in Id :
                 d # e \/ other # id => step'[d][other] = step[d][other]
BY DEF StepTyped, StepTo

LEMMA StepToQuiet ==
    ASSUME StepTyped, NEW e \in Exec, NEW id \in Id, NEW s, s \notin Hot, StepTo(e, id, s)
    PROVE  \A d \in Exec, other \in Id :
              step'[d][other] \in Hot => step'[d][other] = step[d][other]
BY StepToElsewhere

\* A row that settles does not come back.
LEMMA FromDispatchedQuiet ==
    ASSUME RowTyped, NEW id \in Id, NEW to, to # "none", FromDispatched(id, to)
    PROVE  \A other \in Id : row'[other] = "none" => row[other] = "none"
BY DEF RowTyped, FromDispatched

LEMMA ClaimDispatchQuiet ==
    ASSUME RowTyped, NEW e, NEW id \in Id, ClaimDispatch(e, id)
    PROVE  /\ row[id] = "none" /\ row'[id] # "none"
           /\ \A other \in Id : row'[other] = "none" => row[other] = "none"
BY DEF RowTyped, ClaimDispatch

LEMMA InitEffect == Init => EffectInv
<1> SUFFICES ASSUME Init PROVE EffectInv
  OBVIOUS
<1>1. \A id \in Id : Once(id)
  BY DEF Init, Once, Hot
<1>2. EndingInv
  BY DEF Init, EndingInv
<1> QED BY <1>1, <1>2, InitTyped DEF EffectInv, OnceInv

LEMMA LoopStepOnce ==
    ASSUME EffectInv, NEW e \in Exec, LoopStep(e)
    PROVE  OnceInv'
<1> USE DEF EffectInv, historyVars
<1>0. TypeOK /\ RowTyped /\ StepTyped /\ SavingTyped
  BY TypeParts
<1>1. CASE Take(e)
  BY <1>1, QuietKeepsOnce DEF Take
<1>2. CASE Load(e)
  BY <1>2, QuietKeepsOnce DEF Load
<1>3. CASE Crash(e)
  <2>1. \A d \in Exec, id \in Id : step'[d][id] \in Hot => step'[d][id] = step[d][id]
    BY <1>0, <1>3 DEF Crash, StepTyped, Hot
  <2> QED BY <1>3, <2>1, QuietKeepsOnce DEF Crash
<1>4. CASE Boundary(e)
  BY <1>4, QuietKeepsOnce DEF Boundary
<1>5. CASE Infer(e)
  BY <1>5, QuietKeepsOnce DEF Infer
<1>6. CASE SaveBatch(e)
  BY <1>6, QuietKeepsOnce DEF SaveBatch
<1>7. CASE CloseBatch(e)
  BY <1>7, QuietKeepsOnce DEF CloseBatch
<1>8. CASE Leave(e)
  BY <1>8, QuietKeepsOnce DEF Leave
<1>9. CASE Finish(e)
  BY <1>9, QuietKeepsOnce DEF Finish
<1>10. CASE Clear(e)
  BY <1>10 DEF Clear, EndingInv, OnceInv
<1>11. CASE Persisted(e)
  <2>1. PICK s \in saving[e] : StepTo(e, s.id, "done")
    BY <1>11 DEF Persisted
  <2>2. s.id \in Id
    BY <1>0 DEF SavingTyped, Snapshot
  <2>3. \A d \in Exec, id \in Id : step'[d][id] \in Hot => step'[d][id] = step[d][id]
    BY <1>0, <2>1, <2>2, StepToQuiet DEF Hot
  <2> QED BY <1>11, <2>3, QuietKeepsOnce DEF Persisted, LoopStays
<1> QED BY <1>1, <1>2, <1>3, <1>4, <1>5, <1>6, <1>7, <1>8, <1>9, <1>10, <1>11 DEF LoopStep

\* The insert that takes the row of a call lets one execution run it, once.
LEMMA ClaimOnce ==
    ASSUME EffectInv, NEW e \in Exec, NEW id \in Id, Claim(e, id)
    PROVE  OnceInv'
<1>0. RowTyped /\ StepTyped /\ EffectsTyped /\ OnceInv
  BY TypeParts DEF EffectInv
<1>1. open' = open /\ effects' = effects
  BY DEF Claim, LoopStays
<1>2. \A other \in Id : row'[other] = "none" => row[other] = "none"
  BY <1>0, ClaimDispatchQuiet DEF Claim
<1>3. CASE \E s \in {"done", "conflict", "conflict again"} : StepTo(e, id, s)
  <2>1. PICK s \in {"done", "conflict", "conflict again"} : StepTo(e, id, s)
    BY <1>3
  <2>2. s \notin Hot
    BY DEF Hot
  <2> QED BY <1>0, <1>1, <1>2, <2>1, <2>2, StepToQuiet, QuietKeepsOnce
<1>4. CASE StepTo(e, id, "running")
  <2> SUFFICES ASSUME open, NEW other \in Id, NeedsRecord(other) PROVE Once(other)'
    BY <1>1 DEF OnceInv, NeedsRecord
  <2>1. Once(other)
    BY <1>0 DEF OnceInv
  <2>2. CASE other # id
    <3>1. \A d \in Exec : step'[d][other] = step[d][other]
      BY <1>0, <1>4, <2>2, StepToElsewhere
    <3> QED BY <1>1, <1>2, <2>1, <3>1 DEF Once
  <2>3. CASE other = id
    <3>1. ClaimDispatch(e, id)
      <4>1. step'[e][id] = "running"
        BY <1>0, <1>4, StepToElsewhere
      <4>2. ASSUME NEW s \in {"done", "conflict", "conflict again"}, StepTo(e, id, s) PROVE FALSE
        BY <1>0, <4>1, <4>2, StepToElsewhere
      <4> QED BY <2>3, <4>2 DEF Claim
    <3>2. row[id] = "none" /\ row'[id] # "none"
      BY <1>0, <3>1, ClaimDispatchQuiet
    <3>3. effects'[id] = 0 /\ \A d \in Exec : step[d][id] \notin Hot
      BY <1>1, <2>1, <2>3, <3>2 DEF Once
    <3>4. \A d \in Exec : step'[d][id] \in Hot => d = e
      BY <1>0, <1>4, <3>3, StepToElsewhere
    <3> QED BY <2>3, <3>2, <3>3, <3>4 DEF Once
  <2> QED BY <2>2, <2>3
<1> QED BY <1>3, <1>4 DEF Claim

\* The execution that runs a call leaves "running" with its one effect, or finds
\* that the call waits for a person.
LEMMA ExecuteOnce ==
    ASSUME EffectInv, NEW e \in Exec, NEW id \in Id, Execute(e, id)
    PROVE  OnceInv'
<1>0. RowTyped /\ StepTyped /\ EffectsTyped /\ OnceInv
  BY TypeParts DEF EffectInv
<1>1. open' = open /\ row' = row /\ step[e][id] \in Hot
  BY DEF Execute, LoopStays, Working, Hot
<1>2. PICK s \in {"returned", "threw", "asks"} : StepTo(e, id, s)
  BY DEF Execute
<1>3. \/ effects' = effects
      \/ s # "asks" /\ effects' = [effects EXCEPT ![id] = @ + 1]
  <2>1. step'[e][id] = s
    BY <1>0, <1>2, StepToElsewhere
  <2>2. StepTo(e, id, "returned") => step'[e][id] = "returned"
    BY <1>0, StepToElsewhere
  <2>3. StepTo(e, id, "threw") => step'[e][id] = "threw"
    BY <1>0, StepToElsewhere
  <2> QED BY <2>1, <2>2, <2>3 DEF Execute
<1> SUFFICES ASSUME open, NEW other \in Id, NeedsRecord(other) PROVE Once(other)'
  BY <1>1 DEF OnceInv, NeedsRecord
<1>4. Once(other)
  BY <1>0 DEF OnceInv
<1>5. CASE other # id
  <2>1. \A d \in Exec : step'[d][other] = step[d][other]
    BY <1>0, <1>2, <1>5, StepToElsewhere
  <2>2. effects'[other] = effects[other]
    BY <1>0, <1>3, <1>5 DEF EffectsTyped
  <2> QED BY <1>1, <1>4, <2>1, <2>2 DEF Once
<1>6. CASE other = id
  <2>1. effects[id] = 0 /\ row[id] # "none" /\ \A d \in Exec : step[d][id] \in Hot => d = e
    BY <1>1, <1>4, <1>6 DEF Once
  <2>2. effects'[id] <= 1
    BY <1>0, <1>3, <2>1 DEF EffectsTyped
  <2>3. \A d \in Exec : step'[d][id] \in Hot => d = e /\ s = "asks"
    BY <1>0, <1>2, <2>1, StepToElsewhere DEF Hot
  <2>4. \A d \in Exec : step'[d][id] \in Hot => effects'[id] = 0
    BY <1>3, <2>1, <2>3
  <2> QED BY <1>1, <1>6, <2>1, <2>2, <2>3, <2>4 DEF Once
<1> QED BY <1>5, <1>6

\* Who withdraws a row was the only one at the call, which took no effect.
LEMMA WithdrawOnce ==
    ASSUME EffectInv, NEW e \in Exec, NEW id \in Id, Withdraw(e, id)
    PROVE  OnceInv'
<1>0. RowTyped /\ StepTyped /\ OnceInv
  BY TypeParts DEF EffectInv
<1>1. open' = open /\ effects' = effects /\ step[e][id] \in Hot /\ StepTo(e, id, "waiting")
  BY DEF Withdraw, LoopStays, Working, Hot
<1>2. \A other \in Id : other # id => row'[other] = row[other]
  BY <1>0 DEF Withdraw, FromDispatched, RowTyped
<1> SUFFICES ASSUME open, NEW other \in Id, NeedsRecord(other) PROVE Once(other)'
  BY <1>1 DEF OnceInv, NeedsRecord
<1>3. Once(other)
  BY <1>0 DEF OnceInv
<1>4. CASE other # id
  <2>1. \A d \in Exec : step'[d][other] = step[d][other]
    BY <1>0, <1>1, <1>4, StepToElsewhere
  <2> QED BY <1>1, <1>2, <1>3, <1>4, <2>1 DEF Once
<1>5. CASE other = id
  <2>1. effects[id] = 0 /\ \A d \in Exec : step[d][id] \in Hot => d = e
    BY <1>1, <1>3, <1>5 DEF Once
  <2>2. \A d \in Exec : step'[d][id] \notin Hot
    BY <1>0, <1>1, <2>1, StepToElsewhere DEF Hot
  <2> QED BY <1>1, <1>5, <2>1, <2>2 DEF Once
<1> QED BY <1>4, <1>5

LEMMA CallStepOnce ==
    ASSUME EffectInv, ~RunsUnclaimed, NEW e \in Exec, NEW id \in Id, CallStep(e, id)
    PROVE  OnceInv'
<1> USE DEF EffectInv, LoopStays
<1>0. RowTyped /\ StepTyped
  BY TypeParts
<1>1. CASE Prepare(e, id)
  BY <1>0, <1>1, StepToQuiet, QuietKeepsOnce DEF Prepare, Hot
<1>2. CASE Suspend(e, id)
  <2>1. \A d \in Exec, other \in Id :
           step'[d][other] \in Hot => step'[d][other] = step[d][other]
    BY <1>0, <1>2 DEF Suspend, StepTyped, Hot
  <2> QED BY <1>2, <2>1, QuietKeepsOnce DEF Suspend, historyVars
<1>3. CASE Replay(e, id)
  BY <1>0, <1>3, StepToQuiet, QuietKeepsOnce DEF Replay, Keep, Hot
<1>4. CASE Claim(e, id)
  BY <1>4, ClaimOnce
<1>5. CASE Read(e, id)
  <2> SUFFICES ASSUME open' PROVE OnceInv'
    BY DEF OnceInv
  <2>1. PICK s \in {"answered", "retry", "running", "done"} : StepTo(e, id, s)
    BY <1>5 DEF Read
  <2>2. CASE s # "running"
    BY <1>0, <1>5, <2>1, <2>2, StepToQuiet, QuietKeepsOnce DEF Read, Hot
  <2>3. CASE s = "running" /\ NeedsRecord(id)
    <3>1. step'[e][id] = "running"
      BY <1>0, <2>1, <2>3, StepToElsewhere
    <3>2. ASSUME NEW t \in {"answered", "retry", "done"}, StepTo(e, id, t) PROVE FALSE
      BY <1>0, <3>1, <3>2, StepToElsewhere
    <3>3. open /\ row[id] = "none" /\ Working(e, id, "conflict again")
      BY <1>5, <3>2 DEF Read, Working
    <3> QED BY <2>1, <2>3, <3>3 DEF RunsUnclaimed
  <2>4. CASE ~NeedsRecord(id)
    <3> SUFFICES ASSUME open', NEW other \in Id, NeedsRecord(other) PROVE Once(other)'
      BY DEF OnceInv, NeedsRecord
    <3>1. Once(other)
      BY <1>5 DEF Read, OnceInv
    <3>2. \A d \in Exec : step'[d][other] = step[d][other]
      BY <1>0, <2>1, <2>4, StepToElsewhere
    <3> QED BY <1>5, <3>1, <3>2 DEF Read, Once
  <2> QED BY <2>2, <2>3, <2>4
<1>6. CASE Execute(e, id)
  BY <1>6, ExecuteOnce
<1>7. CASE Settle(e, id)
  <2>1. \A other \in Id : row'[other] = "none" => row[other] = "none"
    BY <1>0, <1>7, FromDispatchedQuiet DEF Settle
  <2> QED BY <1>0, <1>7, <2>1, StepToQuiet, QuietKeepsOnce DEF Settle, Keep, Hot
<1>8. CASE Interrupt(e, id)
  <2>1. \A other \in Id : row'[other] = "none" => row[other] = "none"
    BY <1>0, <1>8, FromDispatchedQuiet DEF Interrupt
  <2> QED BY <1>0, <1>8, <2>1, StepToQuiet, QuietKeepsOnce DEF Interrupt, Hot
<1>9. CASE Withdraw(e, id)
  BY <1>9, WithdrawOnce
<1>10. CASE Persist(e, id)
  BY <1>0, <1>10, StepToQuiet, QuietKeepsOnce DEF Persist, Hot
<1> QED BY <1>1, <1>2, <1>3, <1>4, <1>5, <1>6, <1>7, <1>8, <1>9, <1>10 DEF CallStep

\* A run that has ended stays so, and an overdue call is not forgotten.
LEMMA NextLatches ==
    ASSUME Next
    PROVE  (open' => open) /\ (overdue => overdue')
<1>1. ASSUME NEW e \in Exec, LoopStep(e) PROVE open' => open
  BY <1>1 DEF LoopStep, Take, Load, Crash, Boundary, Infer, SaveBatch, CloseBatch,
       Leave, Finish, Clear, Persisted, LoopStays
<1>2. ASSUME NEW e \in Exec, NEW id \in Id, CallStep(e, id) PROVE open' => open
  BY <1>2 DEF CallStep, Prepare, Suspend, Replay, Claim, Read, Execute, Settle,
       Interrupt, Withdraw, Persist, LoopStays
<1>3. ASSUME NEW e \in Exec, LoopStep(e) PROVE overdue => overdue'
  BY <1>3 DEF LoopStep, Take, Load, Crash, Boundary, Infer, SaveBatch, CloseBatch,
       Leave, Finish, Clear, Persisted, LoopStays, historyVars
<1>4. ASSUME NEW e \in Exec, NEW id \in Id, CallStep(e, id) PROVE overdue => overdue'
  BY <1>4 DEF CallStep, Prepare, Suspend, Replay, Claim, Read, Execute, Settle,
       Interrupt, Withdraw, Persist, LoopStays, historyVars
<1> QED BY <1>1, <1>2, <1>3, <1>4 DEF Next

LEMMA NextEnding == TypeOK /\ EndingInv /\ Next => EndingInv'
<1> SUFFICES ASSUME TypeOK, EndingInv, Next, NEW d \in Exec, phase'[d] = "ending" PROVE ~open'
  BY DEF EndingInv
<1>0. PhaseTyped
  BY TypeParts
<1>1. open' => open
  BY NextLatches
<1>2. phase[d] = "ending" \/ ~open'
  <2>1. ASSUME NEW e \in Exec, LoopStep(e) PROVE phase[d] = "ending" \/ ~open'
    BY <1>0, <2>1 DEF LoopStep, Take, Load, Crash, Boundary, Infer, SaveBatch, CloseBatch,
         Leave, Finish, Clear, Persisted, LoopStays, loopVars, Goto, PhaseTyped
  <2>2. ASSUME NEW e \in Exec, NEW id \in Id, CallStep(e, id) PROVE phase[d] = "ending"
    BY <1>0, <2>2 DEF CallStep, Prepare, Suspend, Replay, Claim, Read, Execute, Settle,
         Interrupt, Withdraw, Persist, LoopStays, loopVars, Goto, PhaseTyped
  <2> QED BY <2>1, <2>2 DEF Next
<1> QED BY <1>0, <1>1, <1>2 DEF EndingInv

LEMMA NextEffect == EffectInv /\ [Next /\ ~RunsUnclaimed]_vars => EffectInv'
<1> SUFFICES ASSUME EffectInv, [Next /\ ~RunsUnclaimed]_vars PROVE EffectInv'
  OBVIOUS
<1>0. TypeOK'
  BY NextTyped DEF EffectInv
<1>1. CASE Next /\ ~RunsUnclaimed
  <2>1. OnceInv'
    BY <1>1, LoopStepOnce, CallStepOnce DEF Next
  <2> QED BY <1>0, <1>1, <2>1, NextEnding DEF EffectInv
<1>2. CASE UNCHANGED vars
  <2>1. open' = open /\ row' = row /\ phase' = phase /\ step' = step /\ effects' = effects
    BY <1>2 DEF vars, loopVars, historyVars
  <2>2. OnceInv'
    BY <2>1, QuietKeepsOnce DEF EffectInv
  <2> QED BY <1>0, <2>1, <2>2 DEF EffectInv, EndingInv
<1> QED BY <1>1, <1>2

\* Whatever crashes, takeovers, drains, lost replies, overlong calls and calls that
\* wait for people do, a call that needs an effect record takes effect at most once
\* while the run may be resumed, unless the claim gives up behind its second round
\* and runs it without a row (tool-effect-ledger.ts, dispatch).
THEOREM ClaimedCallsTakeEffectOnce ==
    Init /\ [][Next /\ ~RunsUnclaimed]_vars => []CallTakesEffectOnce
<1>1. Init => EffectInv
  BY InitEffect
<1>2. EffectInv /\ [Next /\ ~RunsUnclaimed]_vars => EffectInv'
  BY NextEffect
<1>3. EffectInv => CallTakesEffectOnce
  BY DEF EffectInv, OnceInv, Once, CallTakesEffectOnce
<1> QED BY <1>1, <1>2, <1>3, PTL

-----------------------------------------------------------------------------
(* It does not come to that where no call waits for a person: a row is never  *)
(* withdrawn then, so who met one in the first round finds it in the second.  *)

\* No call waits for a person.
UnaskedInv == \A e \in Exec, id \in Id : step[e][id] # "asks"

\* No run meets one that does.
NothingSuspends == \A s \in Scenarios : "suspends" \notin s.faults

\* Who met a row may read it.
MetInv ==
    open => \A e \in Exec, id \in Id :
        NeedsRecord(id) /\ step[e][id] \in {"conflict", "conflict again"} => row[id] # "none"

LEMMA NextUnasked ==
    ASSUME NothingSuspends, TypeOK, UnaskedInv, Next
    PROVE  UnaskedInv'
<1>0. StepTyped /\ SavingTyped /\ UnaskedInv /\ ~May("suspends")
  BY TypeParts DEF ScenarioTyped, NothingSuspends, May
<1>1. ASSUME NEW e \in Exec, LoopStep(e) PROVE UnaskedInv'
  <2>1. CASE Crash(e)
    BY <1>0, <2>1 DEF Crash, UnaskedInv, StepTyped
  <2>2. CASE Persisted(e)
    <3>1. PICK s \in saving[e] : StepTo(e, s.id, "done")
      BY <2>2 DEF Persisted
    <3>2. s.id \in Id
      BY <1>0 DEF SavingTyped, Snapshot
    <3> QED BY <1>0, <3>1, <3>2, StepToElsewhere DEF UnaskedInv
  <2>3. CASE ~Crash(e) /\ ~Persisted(e)
    <3>1. step' = step
      BY <1>1, <2>3 DEF LoopStep, Take, Load, Boundary, Infer, SaveBatch, CloseBatch,
           Leave, Finish, Clear
    <3> QED BY <1>0, <3>1 DEF UnaskedInv
  <2> QED BY <2>1, <2>2, <2>3
<1>2. ASSUME NEW e \in Exec, NEW id \in Id, CallStep(e, id) PROVE UnaskedInv'
  <2>1. CASE Suspend(e, id)
    BY <1>0, <2>1 DEF Suspend
  <2>2. CASE ~Suspend(e, id)
    <3>1. PICK s \in Steps \ {"asks"} : StepTo(e, id, s)
      BY <1>0, <1>2, <2>2 DEF CallStep, Prepare, Replay, Claim, Read, Execute, Settle, Interrupt,
           Withdraw, Persist, Keep, Steps
    <3> QED BY <1>0, <3>1, StepToElsewhere DEF UnaskedInv
  <2> QED BY <2>1, <2>2
<1> QED BY <1>1, <1>2 DEF Next

\* A call is moved to another place by its own steps, or goes with the others.
LEMMA StepToMoves ==
    ASSUME StepTyped, NEW e \in Exec, NEW id \in Id, NEW s, StepTo(e, id, s),
           NEW d \in Exec, NEW other \in Id, step'[d][other] # step[d][other]
    PROVE  d = e /\ other = id /\ step'[d][other] = s
BY DEF StepTyped, StepTo

LEMMA LoopMoves ==
    ASSUME StepTyped, SavingTyped, NEW e \in Exec, LoopStep(e),
           NEW d \in Exec, NEW other \in Id, step'[d][other] # step[d][other]
    PROVE  step'[d][other] \in {"idle", "done"}
<1>1. CASE Crash(e)
  BY <1>1 DEF Crash, StepTyped
<1>2. CASE Persisted(e)
  <2>1. PICK s \in saving[e] : StepTo(e, s.id, "done")
    BY <1>2 DEF Persisted
  <2>2. s.id \in Id
    BY DEF SavingTyped, Snapshot
  <2> QED BY <2>1, <2>2, StepToMoves
<1>3. CASE UNCHANGED step
  BY <1>3
<1> QED BY <1>1, <1>2, <1>3 DEF LoopStep, Take, Load, Boundary, Infer, SaveBatch, CloseBatch,
        Leave, Finish, Clear

LEMMA SuspendMoves ==
    ASSUME StepTyped, NEW e \in Exec, NEW id \in Id, Suspend(e, id),
           NEW d \in Exec, NEW other \in Id, step'[d][other] # step[d][other]
    PROVE  step'[d][other] = "done"
BY DEF Suspend, StepTyped

\* Only a claim that finds a row tells of a conflict.
LEMMA ConflictMoves ==
    ASSUME StepTyped, NEW e \in Exec, NEW id \in Id, CallStep(e, id),
           NEW d \in Exec, NEW other \in Id, step'[d][other] # step[d][other],
           step'[d][other] \in {"conflict", "conflict again"}
    PROVE  other = id /\ UNCHANGED row /\ row[id] # "none"
<1>0. ASSUME NEW s \in Steps, StepTo(e, id, s) PROVE other = id /\ s = step'[d][other]
  BY <1>0 DEF StepTyped, StepTo
<1>1. ~Suspend(e, id)
  BY SuspendMoves
<1>2. CASE Claim(e, id)
  <2>1. /\ ~StepTo(e, id, "running")
        /\ ~StepTo(e, id, "done")
    BY <1>0 DEF Steps
  <2>2. other = id
    BY <1>0, <1>2 DEF Claim, Steps
  <2> QED BY <1>2, <2>1, <2>2 DEF Claim
<1>3. CASE ~Claim(e, id)
  <2>1. PICK s \in Steps \ {"conflict", "conflict again"} : StepTo(e, id, s)
    BY <1>1, <1>3 DEF CallStep, Prepare, Replay, Read, Execute, Settle, Interrupt, Withdraw,
         Persist, Keep, Steps
  <2> QED BY <1>0, <2>1
<1> QED BY <1>2, <1>3

\* No row is withdrawn, and who is told of a conflict met a row.
LEMMA NextMet ==
    ASSUME TypeOK, EndingInv, UnaskedInv, MetInv, Next
    PROVE  MetInv'
<1>0. RowTyped /\ StepTyped /\ SavingTyped
  BY TypeParts
<1> SUFFICES ASSUME open', NEW d \in Exec, NEW met \in Id, NeedsRecord(met),
                    step'[d][met] \in {"conflict", "conflict again"}
             PROVE  row'[met] # "none"
  BY DEF MetInv, NeedsRecord
<1>1. open
  BY NextLatches
<1>2. step'[d][met] = step[d][met] => row[met] # "none"
  BY <1>1 DEF MetInv
<1>3. ASSUME NEW e \in Exec, LoopStep(e) PROVE row'[met] # "none"
  <2>1. row' = row
    BY <1>1, <1>3 DEF Clear, EndingInv, LoopStep, Take, Load, Crash, Boundary, Infer,
         SaveBatch, CloseBatch, Leave, Finish, Persisted
  <2>2. step'[d][met] = step[d][met]
    BY <1>0, <1>3, LoopMoves
  <2> QED BY <1>2, <2>1, <2>2
<1>4. ASSUME NEW e \in Exec, NEW id \in Id, CallStep(e, id) PROVE row'[met] # "none"
  <2>1. row'[met] = "none" => row[met] = "none"
    <3>1. CASE Claim(e, id)
      BY <1>0, <3>1, ClaimDispatchQuiet DEF Claim
    <3>2. CASE Settle(e, id)
      BY <1>0, <3>2, FromDispatchedQuiet DEF Settle
    <3>3. CASE Interrupt(e, id)
      BY <1>0, <3>3, FromDispatchedQuiet DEF Interrupt
    <3>4. CASE Withdraw(e, id)
      BY <3>4 DEF Withdraw, Working, UnaskedInv
    <3>5. CASE UNCHANGED row
      BY <3>5
    <3> QED BY <1>4, <3>1, <3>2, <3>3, <3>4, <3>5
            DEF CallStep, Prepare, Suspend, Replay, Read, Execute, Persist
  <2>2. CASE step'[d][met] = step[d][met]
    BY <1>2, <2>1, <2>2
  <2>3. CASE step'[d][met] # step[d][met]
    <3>1. met = id /\ UNCHANGED row /\ row[id] # "none"
      BY <1>0, <1>4, <2>3, ConflictMoves, Zenon
    <3> QED BY <3>1
  <2> QED BY <2>2, <2>3
<1> QED BY <1>3, <1>4 DEF Next

\* Where no call waits for a person, a call that needs an effect record takes effect
\* at most once while the run may be resumed: nobody runs it unclaimed
\* (tool-effect-ledger.ts: a withdrawn claim is the one deletion of a row under an
\* open run).
THEOREM CallsTakeEffectOnce ==
    ASSUME NothingSuspends
    PROVE  Spec => []CallTakesEffectOnce
<1> DEFINE Inv == EffectInv /\ UnaskedInv /\ MetInv
<1>1. Init => Inv
  BY InitEffect DEF Init, UnaskedInv, MetInv
<1>2. ASSUME Inv, Next PROVE ~RunsUnclaimed
  <2> SUFFICES ASSUME RunsUnclaimed PROVE FALSE
    OBVIOUS
  <2>1. PICK e \in Exec, id \in Id :
            open /\ NeedsRecord(id) /\ Working(e, id, "conflict again") /\ row[id] = "none"
    BY DEF RunsUnclaimed
  <2> QED BY <1>2, <2>1 DEF MetInv, Working
<1>3. Inv /\ [Next]_vars => Inv'
  <2> SUFFICES ASSUME Inv, [Next]_vars PROVE Inv'
    OBVIOUS
  <2>1. CASE Next
    BY <1>2, <2>1, NextEffect, NextUnasked, NextMet DEF EffectInv
  <2>2. CASE UNCHANGED vars
    <3>1. EffectInv'
      BY <2>2, NextEffect
    <3>2. open' = open /\ row' = row /\ step' = step
      BY <2>2 DEF vars
    <3> QED BY <3>1, <3>2 DEF UnaskedInv, MetInv, NeedsRecord
  <2> QED BY <2>1, <2>2
<1>4. Inv => CallTakesEffectOnce
  BY DEF EffectInv, OnceInv, Once, CallTakesEffectOnce
<1> QED BY <1>1, <1>3, <1>4, PTL DEF Spec


-----------------------------------------------------------------------------
(* A recorded result that was committed stays.  Only the holder writes the    *)
(* checkpoint, and whatever it may write - what it has in memory at the       *)
(* boundaries, or the one snapshot its recorder has in flight - covers what   *)
(* was committed before.  A snapshot is in flight only during the batch that  *)
(* made it: the batch does not close before its calls are answered, and no    *)
(* call of it runs before all of them were prepared.                          *)

\* The places of a call nothing is going on for.
Cold == {"idle", "done", "waiting"}

Holder(e) ==
    /\ phase[e] \notin {"new", "ending", "left"}
    /\ phase[e] \notin {"claimed", "gone"} => durable \subseteq results[e]
    /\ \A id \in Id : step[e][id] \notin Cold => phase[e] = "batch" /\ id[1] = batch[e]
    /\ \A s \in saving[e] : /\ saving[e] = {s}
                            /\ step[e][s.id] = "saving"
                            /\ durable \subseteq s.results
                            /\ s.results \subseteq results[e]

DurableInv ==
    open /\ ~overdue => /\ durable \subseteq ckpt.results
                        /\ token # None => Holder(token)

\* An execution that has not started does nothing.
FreshInv ==
    \A e \in Exec : phase[e] = "new" =>
        saving[e] = {} /\ \A id \in Id : step[e][id] = "idle"

\* No call of a batch runs before all of them were prepared.
BarrierInv ==
    \A e \in Exec, id \in Id :
        step[e][id] \in {"idle", "ready", "answered", "done"} \/ Prepared(e, id)

\* Only calls the batches ask for are worked on.
ScopeInv ==
    /\ \A e \in Exec, id \in Id : step[e][id] # "idle" => id[2] \in scenario.calls
    /\ \A e \in Exec : \A w \in saving[e] : w.id[2] \in scenario.calls

StoredInv == TypeOK /\ DurableInv /\ EndingInv /\ FreshInv /\ BarrierInv /\ ScopeInv

LEMMA InitStored == Init => StoredInv
<1> SUFFICES ASSUME Init PROVE StoredInv
  OBVIOUS
<1>1. DurableInv
  BY DEF Init, DurableInv
<1>2. EndingInv /\ FreshInv /\ BarrierInv /\ ScopeInv
  BY DEF Init, EndingInv, FreshInv, BarrierInv, ScopeInv
<1> QED BY <1>1, <1>2, InitTyped DEF StoredInv

\* What a run meets is settled when it starts.
LEMMA NextScenario == Next => UNCHANGED scenario
<1>1. ASSUME NEW e \in Exec, LoopStep(e) PROVE UNCHANGED scenario
  BY <1>1 DEF LoopStep, Take, Load, Crash, Boundary, Infer, SaveBatch, CloseBatch, Leave,
       Finish, Clear, Persisted, LoopStays, historyVars
<1>2. ASSUME NEW e \in Exec, NEW id \in Id, CallStep(e, id) PROVE UNCHANGED scenario
  BY <1>2 DEF CallStep, Prepare, Suspend, Replay, Claim, Read, Execute, Settle, Interrupt,
       Withdraw, Persist, LoopStays, historyVars
<1> QED BY <1>1, <1>2 DEF Next

LEMMA NextScope == TypeOK /\ ScopeInv /\ Next => ScopeInv'
<1> SUFFICES ASSUME TypeOK, ScopeInv, Next PROVE ScopeInv'
  OBVIOUS
<1>0. StepTyped /\ SavingTyped /\ UNCHANGED scenario
  BY TypeParts, NextScenario
<1>1. ASSUME NEW e \in Exec, Crash(e) PROVE ScopeInv'
  BY <1>0, <1>1 DEF Crash, ScopeInv, StepTyped, SavingTyped
<1>2. ASSUME NEW e \in Exec, Persisted(e) PROVE ScopeInv'
  <2>1. PICK s \in saving[e] : /\ saving' = [saving EXCEPT ![e] = @ \ {s}]
                              /\ StepTo(e, s.id, "done")
    BY <1>2 DEF Persisted
  <2>2. s.id \in Id /\ s.id[2] \in scenario.calls
    BY <1>0 DEF SavingTyped, Snapshot, ScopeInv
  <2>3. \A d \in Exec, id \in Id : step'[d][id] # "idle" => id[2] \in scenario.calls
    BY <1>0, <2>1, <2>2, StepToElsewhere DEF ScopeInv
  <2>4. \A d \in Exec : saving'[d] \subseteq saving[d]
    BY <1>0, <2>1 DEF SavingTyped
  <2> QED BY <1>0, <2>3, <2>4 DEF ScopeInv
<1>3. ASSUME NEW e \in Exec, LoopStep(e), ~Crash(e), ~Persisted(e) PROVE ScopeInv'
  <2>1. step' = step /\ saving' = saving
    BY <1>3 DEF LoopStep, Take, Load, Boundary, Infer, SaveBatch, CloseBatch, Leave, Finish,
         Clear
  <2> QED BY <1>0, <2>1 DEF ScopeInv
<1>4. ASSUME NEW e \in Exec, NEW id \in Id, Suspend(e, id) PROVE ScopeInv'
  <2>1. saving' = saving
    BY <1>4 DEF Suspend
  <2>2. \A d \in Exec, other \in Id :
           step'[d][other] = step[d][other] \/ other \in BatchOf(batch[e])
    BY <1>0, <1>4 DEF Suspend, StepTyped
  <2> QED BY <1>0, <2>1, <2>2 DEF ScopeInv, BatchOf
<1>5. ASSUME NEW e \in Exec, NEW id \in Id, CallStep(e, id), ~Suspend(e, id)
      PROVE  ScopeInv'
  <2>1. PICK s \in Steps \ {"idle"} : StepTo(e, id, s)
    BY <1>5 DEF CallStep, Prepare, Replay, Claim, Read, Execute, Settle, Interrupt, Withdraw,
         Persist, Keep, Steps
  <2>2. id[2] \in scenario.calls
    <3>1. CASE Prepare(e, id)
      BY <3>1 DEF Prepare, BatchOf
    <3>2. CASE ~Prepare(e, id)
      <4>1. step[e][id] # "idle"
        BY <1>5, <3>2 DEF CallStep, Replay, Claim, Read, Execute, Settle, Interrupt,
             Withdraw, Persist, Working
      <4> QED BY <4>1 DEF ScopeInv
    <3> QED BY <3>1, <3>2
  <2>3. \A d \in Exec, other \in Id : step'[d][other] # "idle" => other[2] \in scenario.calls
    BY <1>0, <2>1, <2>2, StepToElsewhere DEF ScopeInv
  <2>4. \A d \in Exec : \A w \in saving'[d] : w \in saving[d] \/ w.id = id
    <3>1. CASE Persist(e, id)
      BY <1>0, <3>1 DEF Persist, SavingTyped
    <3>2. CASE ~Persist(e, id)
      BY <1>5, <3>2 DEF CallStep, Prepare, Replay, Claim, Read, Execute, Settle, Interrupt,
           Withdraw
    <3> QED BY <3>1, <3>2
  <2> QED BY <1>0, <2>2, <2>3, <2>4 DEF ScopeInv
<1> QED BY <1>1, <1>2, <1>3, <1>4, <1>5 DEF Next

\* A call that was prepared stays prepared until its process dies.
LEMMA NextBarrier == TypeOK /\ BarrierInv /\ Next => BarrierInv'
<1> SUFFICES ASSUME TypeOK, BarrierInv, Next PROVE BarrierInv'
  OBVIOUS
<1>0. StepTyped /\ SavingTyped /\ UNCHANGED scenario
  BY TypeParts, NextScenario
<1>1. ASSUME NEW e \in Exec, NEW id \in Id, NEW s \in Steps \ {"idle"}, StepTo(e, id, s),
             s \in {"ready", "answered", "done"} \/ Prepared(e, id)
      PROVE  BarrierInv'
  <2>1. \A d \in Exec, other \in Id : step'[d][other] = "idle" => step[d][other] = "idle"
    BY <1>0, <1>1, StepToElsewhere
  <2>2. \A d \in Exec, other \in Id : Prepared(d, other) => Prepared(d, other)'
    BY <1>0, <2>1 DEF Prepared, BatchOf
  <2>3. ASSUME NEW d \in Exec, NEW other \in Id
        PROVE  step'[d][other] \in {"idle", "ready", "answered", "done"} \/ Prepared(d, other)'
    <3>1. CASE d = e /\ other = id
      <4>1. step'[d][other] = s
        BY <1>0, <1>1, <3>1, StepToElsewhere
      <4> QED BY <1>1, <2>2, <3>1, <4>1
    <3>2. CASE ~(d = e /\ other = id)
      <4>1. step'[d][other] = step[d][other]
        BY <1>0, <1>1, <3>2, StepToElsewhere
      <4> QED BY <2>2, <4>1 DEF BarrierInv
    <3> QED BY <3>1, <3>2
  <2> QED BY <2>3 DEF BarrierInv
<1>2. CASE step' = step
  BY <1>0, <1>2 DEF BarrierInv, Prepared, BatchOf
<1>3. ASSUME NEW e \in Exec, Crash(e) PROVE BarrierInv'
  BY <1>0, <1>3 DEF Crash, BarrierInv, StepTyped, Prepared, BatchOf
<1>4. ASSUME NEW e \in Exec, Persisted(e) PROVE BarrierInv'
  <2>1. PICK s \in saving[e] : StepTo(e, s.id, "done")
    BY <1>4 DEF Persisted
  <2>2. s.id \in Id
    BY <1>0 DEF SavingTyped, Snapshot
  <2> QED BY <1>1, <2>1, <2>2 DEF Steps
<1>5. ASSUME NEW e \in Exec, NEW id \in Id, Suspend(e, id) PROVE BarrierInv'
  <2>1. \A d \in Exec, other \in Id :
           step'[d][other] = step[d][other] \/ step'[d][other] = "done"
    BY <1>0, <1>5 DEF Suspend, StepTyped
  <2>2. \A d \in Exec, other \in Id : Prepared(d, other) => Prepared(d, other)'
    BY <1>0, <2>1 DEF Prepared, BatchOf
  <2> QED BY <2>1, <2>2 DEF BarrierInv
<1>6. ASSUME NEW e \in Exec, LoopStep(e), ~Crash(e), ~Persisted(e) PROVE BarrierInv'
  <2>1. step' = step
    BY <1>6 DEF LoopStep, Take, Load, Boundary, Infer, SaveBatch, CloseBatch, Leave, Finish,
         Clear
  <2> QED BY <1>2, <2>1
<1>7. ASSUME NEW e \in Exec, NEW id \in Id, CallStep(e, id), ~Suspend(e, id)
      PROVE  BarrierInv'
  <2>1. PICK s \in Steps \ {"idle"} : StepTo(e, id, s)
    BY <1>7 DEF CallStep, Prepare, Replay, Claim, Read, Execute, Settle, Interrupt, Withdraw,
         Persist, Keep, Steps
  <2>2. step'[e][id] = s
    BY <1>0, <2>1, StepToElsewhere
  <2>3. step[e][id] \in {"idle", "ready", "answered", "done"} \/ Prepared(e, id)
    BY DEF BarrierInv
  <2>4. s \in {"ready", "answered", "done"} \/ Prepared(e, id)
    <3>1. CASE Prepare(e, id)
      BY <1>0, <2>2, <3>1, StepToElsewhere DEF Prepare
    <3>2. CASE Replay(e, id) \/ Claim(e, id)
      BY <3>2 DEF Replay, Claim
    <3>3. CASE Read(e, id) \/ Execute(e, id) \/ Settle(e, id) \/ Interrupt(e, id)
               \/ Withdraw(e, id) \/ Persist(e, id)
      BY <2>3, <3>3 DEF Read, Execute, Settle, Interrupt, Withdraw, Persist, Working
    <3> QED BY <1>7, <3>1, <3>2, <3>3 DEF CallStep
  <2> QED BY <1>1, <2>1, <2>4
<1> QED BY <1>3, <1>4, <1>5, <1>6, <1>7 DEF Next

LEMMA NextFresh == TypeOK /\ FreshInv /\ Next => FreshInv'
<1> SUFFICES ASSUME TypeOK, FreshInv, Next, NEW d \in Exec, phase'[d] = "new"
             PROVE  saving'[d] = {} /\ \A id \in Id : step'[d][id] = "idle"
  BY DEF FreshInv
<1>0. PhaseTyped /\ StepTyped /\ SavingTyped
  BY TypeParts
<1>1. ASSUME NEW e \in Exec, LoopStep(e)
      PROVE  phase[d] = "new" /\ saving'[d] = saving[d] /\ step'[d] = step[d]
  <2>1. phase[d] = "new"
    BY <1>0, <1>1 DEF LoopStep, Take, Load, Crash, Boundary, Infer, SaveBatch, CloseBatch,
         Leave, Finish, Clear, Persisted, LoopStays, loopVars, Goto, PhaseTyped
  <2>2. CASE Crash(e)
    <3>1. d # e
      BY <2>1, <2>2 DEF Crash
    <3> QED BY <1>0, <2>1, <2>2, <3>1 DEF Crash, SavingTyped, StepTyped
  <2>3. CASE Persisted(e)
    <3>1. d # e
      BY <2>1, <2>3 DEF Persisted, Alive, Goes
    <3>2. PICK s : saving' = [saving EXCEPT ![e] = @ \ {s}] /\ StepTo(e, s.id, "done")
      BY <2>3 DEF Persisted
    <3> QED BY <1>0, <2>1, <3>1, <3>2 DEF StepTo, SavingTyped, StepTyped
  <2>4. CASE ~Crash(e) /\ ~Persisted(e)
    BY <1>1, <2>1, <2>4 DEF LoopStep, Take, Load, Boundary, Infer, SaveBatch, CloseBatch,
         Leave, Finish, Clear
  <2> QED BY <2>2, <2>3, <2>4
<1>2. ASSUME NEW e \in Exec, NEW id \in Id, CallStep(e, id)
      PROVE  phase[d] = "new" /\ saving'[d] = saving[d] /\ step'[d] = step[d]
  <2>1. phase[d] = "new" /\ phase[e] # "new"
    BY <1>0, <1>2 DEF CallStep, Prepare, Suspend, Replay, Claim, Read, Execute, Settle,
         Interrupt, Withdraw, Persist, LoopStays, loopVars, Goto, PhaseTyped, Working,
         Alive, Goes
  <2>2. d # e
    BY <2>1
  <2>3. saving'[d] = saving[d]
    BY <1>0, <1>2, <2>2 DEF CallStep, Prepare, Suspend, Replay, Claim, Read, Execute, Settle,
         Interrupt, Withdraw, Persist, SavingTyped
  <2>4. step'[d] = step[d]
    <3>1. CASE Suspend(e, id)
      BY <1>0, <2>2, <3>1 DEF Suspend, StepTyped
    <3>2. CASE ~Suspend(e, id)
      <4>1. PICK s : StepTo(e, id, s)
        BY <1>2, <3>2 DEF CallStep, Prepare, Replay, Claim, Read, Execute, Settle, Interrupt,
             Withdraw, Persist, Keep
      <4> QED BY <1>0, <2>2, <4>1 DEF StepTo, StepTyped
    <3> QED BY <3>1, <3>2
  <2> QED BY <2>1, <2>3, <2>4
<1> QED BY <1>1, <1>2 DEF Next, FreshInv


\* What another execution does leaves the holder and the checkpoint alone.
LEMMA ElsewhereKeepsDurable ==
    ASSUME DurableInv, NEW e \in Exec, token \in Exec \cup {None}, e # token,
           UNCHANGED <<token, ckpt, durable>>, open' => open, overdue => overdue',
           \A d \in Exec :
              d # e => UNCHANGED <<phase[d], batch[d], results[d], step[d], saving[d]>>
    PROVE  DurableInv'
<1> SUFFICES ASSUME open', ~overdue'
             PROVE  durable' \subseteq ckpt'.results /\ (token' # None => Holder(token)')
  BY DEF DurableInv
<1>1. durable' \subseteq ckpt'.results
  BY DEF DurableInv
<1>2. ASSUME token # None PROVE Holder(token)'
  <2>1. Holder(token)
    BY <1>2 DEF DurableInv
  <2>2. UNCHANGED <<phase[token], batch[token], results[token], step[token], saving[token]>>
    BY <1>2
  <2> QED BY <2>1, <2>2 DEF Holder
<1> QED BY <1>1, <1>2

\* A holder outside a batch has no call going on and no persist in flight.
LEMMA HolderIsQuiet ==
    ASSUME NEW e \in Exec, Holder(e), phase[e] # "batch",
           \A s \in saving[e] : s.id \in Id
    PROVE  saving[e] = {} /\ \A id \in Id : step[e][id] \in Cold
BY DEF Holder, Cold

\* So it may move between the phases of its loop, if it knows what was committed.
LEMMA QuietHolder ==
    ASSUME NEW e \in Exec, saving'[e] = {}, \A id \in Id : step'[e][id] \in Cold,
           phase'[e] \notin {"new", "ending", "left"},
           phase'[e] \notin {"claimed", "gone"} => durable' \subseteq results'[e]
    PROVE  Holder(e)'
BY DEF Holder

\* A write of the holder that covers what was committed keeps it.
LEMMA WriteKeepsDurable ==
    ASSUME NEW e, NEW t, NEW p, NEW rs, Write(e, t, p, rs),
           durable \subseteq ckpt.results, durable \subseteq rs
    PROVE  durable' \subseteq ckpt'.results /\ durable' \subseteq rs
<1>1. CASE UNCHANGED <<ckpt, durable>>
  BY <1>1
<1>2. CASE ckpt' = [turns |-> t, pending |-> p, results |-> rs] /\ durable' = durable \cup rs
  <2>1. ckpt'.results = rs
    BY <1>2
  <2> QED BY <1>2, <2>1
<1> QED BY <1>1, <1>2 DEF Write

\* A call of the holder's batch may move, unless its persist is in flight.
LEMMA MoveKeepsHolder ==
    ASSUME NEW e \in Exec, Holder(e), StepTyped, NEW id \in Id, NEW s, StepTo(e, id, s),
           phase[e] = "batch", id[1] = batch[e], step[e][id] # "saving",
           \A w \in saving[e] : w.id \in Id,
           UNCHANGED <<phase, batch, saving, durable>>, results[e] \subseteq results'[e]
    PROVE  Holder(e)'
<1>1. step'[e][id] = s /\ \A other \in Id : other # id => step'[e][other] = step[e][other]
  BY StepToElsewhere
<1>2. \A other \in Id : step'[e][other] \notin Cold => phase'[e] = "batch" /\ other[1] = batch'[e]
  BY <1>1 DEF Holder
<1>3. \A w \in saving[e] : w.id # id
  BY DEF Holder
<1>4. \A w \in saving'[e] : /\ saving'[e] = {w}
                            /\ step'[e][w.id] = "saving"
                            /\ durable' \subseteq w.results
                            /\ w.results \subseteq results'[e]
  BY <1>1, <1>3 DEF Holder
<1>5. durable' \subseteq results'[e]
  BY DEF Holder
<1> QED BY <1>2, <1>4, <1>5 DEF Holder

\* The run is taken by an execution that has not started.
LEMMA TakeKeepsDurable ==
    ASSUME StoredInv, NEW e \in Exec, Take(e)
    PROVE  DurableInv'
<1>0. PhaseTyped
  BY TypeParts DEF StoredInv
<1> SUFFICES ASSUME open', ~overdue'
             PROVE  durable' \subseteq ckpt'.results /\ (token' # None => Holder(token)')
  BY DEF DurableInv
<1>1. durable' \subseteq ckpt'.results
  BY DEF StoredInv, DurableInv, Take, historyVars
<1>2. saving'[e] = {} /\ \A id \in Id : step'[e][id] \in Cold
  BY DEF StoredInv, FreshInv, Take, Cold
<1>3. phase'[e] = "claimed" /\ token' = e
  BY <1>0 DEF Take, Goto, PhaseTyped
<1>4. Holder(e)'
  BY <1>2, <1>3, QuietHolder
<1> QED BY <1>1, <1>3, <1>4

LEMMA LoopStepKeepsDurable ==
    ASSUME StoredInv, NEW e \in Exec, token = e, LoopStep(e), open', ~overdue', ~Take(e)
    PROVE  durable' \subseteq ckpt'.results /\ (token' # None => Holder(token)')
<1>0. PhaseTyped /\ StepTyped /\ SavingTyped /\ ResultsTyped /\ CkptTyped
  BY TypeParts DEF StoredInv
<1>1. open /\ ~overdue
  BY NextLatches DEF Next
<1>2. e # None
  BY DEF Exec, None
<1>3. durable \subseteq ckpt.results /\ Holder(e)
  BY <1>1, <1>2 DEF StoredInv, DurableInv
<1>4. \A s \in saving[e] : s.id \in Id
  BY <1>0 DEF SavingTyped, Snapshot
<1>5. phase[e] # "batch" => saving[e] = {} /\ \A id \in Id : step[e][id] \in Cold
  BY <1>3, <1>4, HolderIsQuiet
<1>6. phase[e] \notin {"claimed", "gone"} => durable \subseteq results[e]
  BY <1>3 DEF Holder
<1>7. CASE Load(e)
  <2>1. saving'[e] = {} /\ \A id \in Id : step'[e][id] \in Cold
    BY <1>5, <1>7 DEF Load, Goes
  <2>2. durable' \subseteq results'[e]
    BY <1>0, <1>3, <1>7 DEF Load, ResultsTyped, historyVars
  <2>3. phase'[e] \in {"loop", "asked"}
    BY <1>0, <1>7 DEF Load, Goto, PhaseTyped
  <2>4. Holder(e)'
    BY <2>1, <2>2, <2>3, QuietHolder
  <2> QED BY <1>3, <1>7, <2>4 DEF Load, historyVars
<1>8. CASE Crash(e)
  <2>1. saving'[e] = {} /\ \A id \in Id : step'[e][id] \in Cold
    BY <1>0, <1>8 DEF Crash, SavingTyped, StepTyped, Cold
  <2>2. phase'[e] = "gone"
    BY <1>0, <1>8 DEF Crash, Goto, PhaseTyped
  <2>3. Holder(e)'
    BY <2>1, <2>2, QuietHolder
  <2> QED BY <1>3, <1>8, <2>3 DEF Crash, historyVars
<1>9. CASE Boundary(e)
  <2>1. phase[e] = "loop" /\ Write(e, turns[e], None, results[e])
    BY <1>9 DEF Boundary, Goes
  <2>2. durable' \subseteq ckpt'.results /\ durable' \subseteq results[e]
    BY <1>3, <1>6, <2>1, WriteKeepsDurable
  <2>3. phase'[e] = "ready"
    BY <1>0, <1>9 DEF Boundary, Goto, PhaseTyped
  <2>4. Holder(e)'
    BY <1>5, <1>9, <2>1, <2>2, <2>3, QuietHolder DEF Boundary
  <2> QED BY <1>9, <2>2, <2>4 DEF Boundary
<1>10. CASE Infer(e)
  <2>1. phase[e] = "ready" /\ phase'[e] = "asked"
    BY <1>0, <1>10 DEF Infer, Goes, Goto, PhaseTyped
  <2>2. Holder(e)'
    BY <1>5, <1>6, <1>10, <2>1, QuietHolder DEF Infer
  <2> QED BY <1>3, <1>10, <2>2 DEF Infer
<1>11. CASE SaveBatch(e)
  <2>1. phase[e] = "asked" /\ Write(e, turns[e], batch[e], results[e])
    BY <1>11 DEF SaveBatch, Goes
  <2>2. durable' \subseteq ckpt'.results /\ durable' \subseteq results[e]
    BY <1>3, <1>6, <2>1, WriteKeepsDurable
  <2>3. phase'[e] = "batch"
    BY <1>0, <1>11 DEF SaveBatch, Goto, PhaseTyped
  <2>4. Holder(e)'
    BY <1>5, <1>11, <2>1, <2>2, <2>3, QuietHolder DEF SaveBatch
  <2> QED BY <1>11, <2>2, <2>4 DEF SaveBatch
<1>12. CASE CloseBatch(e)
  <2>1. phase[e] = "batch" /\ phase'[e] \in {"loop", "over"}
    BY <1>0, <1>12 DEF CloseBatch, Goes, Goto, PhaseTyped
  <2>2. \A id \in BatchOf(batch[e]) : step[e][id] \in Cold
    BY <1>12 DEF CloseBatch, Answered, Cold
  <2>3. \A id \in Id : step[e][id] \in Cold
    BY <1>3, <2>2 DEF Holder, BatchOf, Cold, StoredInv, ScopeInv
  <2>4. saving[e] = {}
    BY <1>3, <1>4, <2>3 DEF Holder, Cold
  <2>5. Holder(e)'
    BY <1>6, <1>12, <2>1, <2>3, <2>4, QuietHolder DEF CloseBatch
  <2> QED BY <1>3, <1>12, <2>5 DEF CloseBatch
<1>13. CASE Leave(e)
  BY <1>3, <1>13 DEF Leave, Released, historyVars
<1>14. CASE Finish(e)
  BY <1>14 DEF Finish
<1>15. CASE Clear(e)
  BY <1>1, <1>15 DEF Clear, StoredInv, EndingInv
<1>16. CASE Persisted(e)
  <2>1. PICK s \in saving[e] : /\ Write(e, turns[e], s.pending, s.results)
                              /\ saving' = [saving EXCEPT ![e] = @ \ {s}]
                              /\ StepTo(e, s.id, "done")
    BY <1>16 DEF Persisted
  <2>2. /\ saving[e] = {s}
        /\ step[e][s.id] = "saving"
        /\ durable \subseteq s.results
        /\ s.results \subseteq results[e]
    BY <1>3, <2>1 DEF Holder
  <2>3. s.id \in Id
    BY <1>4, <2>1
  <2>4. phase[e] = "batch"
    BY <2>2, <2>3, <1>3 DEF Holder, Cold
  <2>5. durable' \subseteq ckpt'.results /\ durable' \subseteq results[e]
    BY <1>3, <2>1, <2>2, WriteKeepsDurable
  <2>6. saving'[e] = {}
    BY <1>0, <2>1, <2>2 DEF SavingTyped
  <2>7. \A id \in Id : step'[e][id] \notin Cold => step[e][id] \notin Cold
    BY <1>0, <2>1, <2>3, StepToElsewhere DEF Cold
  <2>8. UNCHANGED <<token, phase, batch, results>>
    BY <1>16 DEF Persisted, LoopStays, loopVars
  <2>9. Holder(e)'
    BY <1>3, <2>4, <2>5, <2>6, <2>7, <2>8 DEF Holder
  <2> QED BY <2>5, <2>8, <2>9
<1> QED BY <1>7, <1>8, <1>9, <1>10, <1>11, <1>12, <1>13, <1>14, <1>15, <1>16 DEF LoopStep


LEMMA CallStepKeepsDurable ==
    ASSUME StoredInv, NEW e \in Exec, token = e, NEW id \in Id, CallStep(e, id),
           open', ~overdue'
    PROVE  durable' \subseteq ckpt'.results /\ (token' # None => Holder(token)')
<1>0. PhaseTyped /\ StepTyped /\ SavingTyped /\ ResultsTyped
  BY TypeParts DEF StoredInv
<1>1. open /\ ~overdue
  BY NextLatches DEF Next
<1>2. e # None
  BY DEF Exec, None
<1>3. durable \subseteq ckpt.results /\ Holder(e)
  BY <1>1, <1>2 DEF StoredInv, DurableInv
<1>4. \A w \in saving[e] : w.id \in Id
  BY <1>0 DEF SavingTyped, Snapshot
<1>5. UNCHANGED <<token, batch, ckpt, durable>>
  BY DEF CallStep, Prepare, Suspend, Replay, Claim, Read, Execute, Settle, Interrupt,
       Withdraw, Persist, LoopStays, loopVars, historyVars
<1>6. SUFFICES Holder(e)'
  BY <1>3, <1>5
<1>7. CASE Suspend(e, id)
  <2>1. /\ phase[e] = "batch" /\ id \in BatchOf(batch[e]) /\ step[e][id] = "idle"
        /\ UNCHANGED <<saving, results>>
    BY <1>7 DEF Suspend, Goes
  <2>2. phase'[e] = "over"
    BY <1>0, <1>7 DEF Suspend, Goto, PhaseTyped
  <2>3. \A other \in Id : step'[e][other] =
           IF other \in BatchOf(batch[e]) THEN "done" ELSE step[e][other]
    BY <1>0, <1>7 DEF Suspend, StepTyped
  <2>4. \A other \in Id : step'[e][other] \in Cold
    BY <1>3, <2>3 DEF Holder, BatchOf, Cold, StoredInv, ScopeInv
  <2>5. saving[e] = {}
    <3> SUFFICES ASSUME NEW w \in saving[e] PROVE FALSE
      OBVIOUS
    <3>1. w.id \in Id /\ step[e][w.id] = "saving"
      BY <1>3, <1>4 DEF Holder
    <3>2. w.id[1] = batch[e]
      BY <1>3, <3>1 DEF Holder, Cold
    <3>3. Prepared(e, w.id)
      BY <3>1 DEF StoredInv, BarrierInv
    <3> QED BY <2>1, <3>2, <3>3 DEF Prepared
  <2>6. durable' \subseteq results'[e]
    BY <1>3, <1>5, <2>1 DEF Holder
  <2> QED BY <2>1, <2>2, <2>4, <2>5, <2>6, QuietHolder
<1>8. CASE Prepare(e, id)
  <2>1. /\ phase[e] = "batch" /\ id[1] = batch[e] /\ step[e][id] # "saving"
        /\ UNCHANGED <<phase, saving, results>>
    BY <1>3, <1>8 DEF Prepare, Goes, Holder, BatchOf, LoopStays, loopVars
  <2>2. PICK s : StepTo(e, id, s)
    BY <1>8 DEF Prepare
  <2> QED BY <1>0, <1>3, <1>4, <1>5, <2>1, <2>2, MoveKeepsHolder
<1>9. CASE \/ Replay(e, id) \/ Claim(e, id) \/ Read(e, id) \/ Execute(e, id)
           \/ Settle(e, id) \/ Interrupt(e, id) \/ Withdraw(e, id)
  <2>1. step[e][id] \notin Cold /\ step[e][id] # "saving"
    BY <1>9 DEF Replay, Claim, Read, Execute, Settle, Interrupt, Withdraw, Working, Cold
  <2>2. phase[e] = "batch" /\ id[1] = batch[e]
    BY <1>3, <2>1 DEF Holder
  <2>3. PICK s : StepTo(e, id, s)
    BY <1>9 DEF Replay, Claim, Read, Execute, Settle, Interrupt, Withdraw, Keep
  <2>4. UNCHANGED <<phase, saving>>
    BY <1>9 DEF Replay, Claim, Read, Execute, Settle, Interrupt, Withdraw, LoopStays, loopVars
  <2>5. results[e] \subseteq results'[e]
    BY <1>0, <1>9 DEF Replay, Claim, Read, Execute, Settle, Interrupt, Withdraw, Keep,
         ResultsTyped
  <2> QED BY <1>0, <1>3, <1>4, <1>5, <2>1, <2>2, <2>3, <2>4, <2>5, MoveKeepsHolder
<1>10. CASE Persist(e, id)
  <2> DEFINE w == [id |-> id, pending |-> batch[e], results |-> results[e]]
  <2>1. step[e][id] = "recorded" /\ saving[e] = {} /\ UNCHANGED <<phase, results>>
    BY <1>10 DEF Persist, Working, PersistFree, LoopStays, loopVars
  <2>2. phase[e] = "batch" /\ id[1] = batch[e]
    BY <1>3, <2>1 DEF Holder, Cold
  <2>3. saving'[e] = {w}
    BY <1>0, <1>10, <2>1 DEF Persist, SavingTyped
  <2>4. /\ step'[e][id] = "saving"
        /\ \A other \in Id : other # id => step'[e][other] = step[e][other]
    BY <1>0, <1>10, StepToElsewhere DEF Persist
  <2>5. durable \subseteq results[e]
    BY <1>3, <2>2 DEF Holder
  <2>6. \A other \in Id : step'[e][other] \notin Cold =>
           phase'[e] = "batch" /\ other[1] = batch'[e]
    BY <1>3, <1>5, <2>1, <2>2, <2>4 DEF Holder
  <2>7. w.id = id /\ w.results = results[e]
    OBVIOUS
  <2> HIDE DEF w
  <2> QED BY <1>5, <2>1, <2>2, <2>3, <2>4, <2>5, <2>6, <2>7 DEF Holder
<1> QED BY <1>7, <1>8, <1>9, <1>10 DEF CallStep

\* An execution touches its own state and its calls', nobody else's.
LEMMA OthersStay ==
    ASSUME TypeOK, NEW e \in Exec, NEW d \in Exec, d # e,
           LoopStep(e) \/ \E id \in Id : CallStep(e, id)
    PROVE  UNCHANGED <<phase[d], turns[d], batch[d], results[d], step[d], saving[d]>>
<1>0. PhaseTyped /\ LoopTyped /\ StepTyped /\ SavingTyped /\ ResultsTyped
  BY TypeParts
<1>1. CASE LoopStep(e)
  <2>1. phase'[d] = phase[d]
    BY <1>0, <1>1 DEF LoopStep, Take, Load, Crash, Boundary, Infer, SaveBatch, CloseBatch,
         Leave, Finish, Clear, Persisted, LoopStays, loopVars, Goto, PhaseTyped
  <2>2. batch'[d] = batch[d] /\ turns'[d] = turns[d]
    BY <1>0, <1>1 DEF LoopStep, Take, Load, Crash, Boundary, Infer, SaveBatch, CloseBatch,
         Leave, Finish, Clear, Persisted, LoopStays, loopVars, LoopTyped
  <2>3. results'[d] = results[d]
    BY <1>0, <1>1 DEF LoopStep, Take, Load, Crash, Boundary, Infer, SaveBatch, CloseBatch,
         Leave, Finish, Clear, Persisted, ResultsTyped
  <2>4. step'[d] = step[d] /\ saving'[d] = saving[d]
    BY <1>0, <1>1 DEF LoopStep, Take, Load, Crash, Boundary, Infer, SaveBatch, CloseBatch,
         Leave, Finish, Clear, Persisted, StepTo, StepTyped, SavingTyped
  <2> QED BY <2>1, <2>2, <2>3, <2>4
<1>2. ASSUME NEW id \in Id, CallStep(e, id)
      PROVE  UNCHANGED <<phase[d], turns[d], batch[d], results[d], step[d], saving[d]>>
  <2>1. phase'[d] = phase[d] /\ batch'[d] = batch[d] /\ turns'[d] = turns[d]
    BY <1>0, <1>2 DEF CallStep, Prepare, Suspend, Replay, Claim, Read, Execute, Settle,
         Interrupt, Withdraw, Persist, LoopStays, loopVars, Goto, PhaseTyped
  <2>2. results'[d] = results[d] /\ saving'[d] = saving[d]
    BY <1>0, <1>2 DEF CallStep, Prepare, Suspend, Replay, Claim, Read, Execute, Settle,
         Interrupt, Withdraw, Persist, Keep, ResultsTyped, SavingTyped
  <2>3. step'[d] = step[d]
    BY <1>0, <1>2 DEF CallStep, Prepare, Suspend, Replay, Claim, Read, Execute, Settle,
         Interrupt, Withdraw, Persist, Keep, StepTo, StepTyped
  <2> QED BY <2>1, <2>2, <2>3
<1> QED BY <1>1, <1>2

LEMMA OthersKeepDurable ==
    ASSUME StoredInv, NEW e \in Exec, e # token, ~Take(e),
           LoopStep(e) \/ \E id \in Id : CallStep(e, id)
    PROVE  DurableInv'
<1>0. TypeOK /\ token \in Exec \cup {None}
  BY TypeParts DEF StoredInv, RunTyped
<1>1. (open' => open) /\ (overdue => overdue')
  BY NextLatches DEF Next
<1>2. \A d \in Exec :
         d # e => UNCHANGED <<phase[d], batch[d], results[d], step[d], saving[d]>>
  BY <1>0, OthersStay
<1> SUFFICES UNCHANGED <<token, ckpt, durable>> \/ ~open'
  BY <1>0, <1>1, <1>2, ElsewhereKeepsDurable DEF StoredInv, DurableInv
<1>3. ASSUME LoopStep(e) PROVE UNCHANGED <<token, ckpt, durable>> \/ ~open'
  <2>1. CASE Clear(e)
    BY <1>1, <2>1 DEF Clear, StoredInv, EndingInv
  <2>2. CASE ~Clear(e)
    BY <1>3, <2>2 DEF LoopStep, Load, Crash, Boundary, Infer, SaveBatch, CloseBatch, Leave, Released,
         Finish, Persisted, LoopStays, historyVars, Write
  <2> QED BY <2>1, <2>2
<1>4. ASSUME NEW id \in Id, CallStep(e, id) PROVE UNCHANGED <<token, ckpt, durable>>
  BY <1>4 DEF CallStep, Prepare, Suspend, Replay, Claim, Read, Execute, Settle, Interrupt,
       Withdraw, Persist, LoopStays, historyVars
<1> QED BY <1>3, <1>4

LEMMA NextStored == StoredInv /\ [Next]_vars => StoredInv'
<1> SUFFICES ASSUME StoredInv, [Next]_vars PROVE StoredInv'
  OBVIOUS
<1>0. TypeOK'
  BY NextTyped DEF StoredInv
<1>1. CASE Next
  <2>1. DurableInv'
    <3>1. PICK e \in Exec : LoopStep(e) \/ \E id \in Id : CallStep(e, id)
      BY <1>1 DEF Next
    <3>2. CASE Take(e)
      BY <3>2, TakeKeepsDurable
    <3>3. CASE ~Take(e) /\ e = token
      BY <3>1, <3>3, LoopStepKeepsDurable, CallStepKeepsDurable DEF DurableInv
    <3>4. CASE ~Take(e) /\ e # token
      BY <3>1, <3>4, OthersKeepDurable
    <3> QED BY <3>2, <3>3, <3>4
  <2> QED BY <1>0, <1>1, <2>1, NextEnding, NextFresh, NextBarrier, NextScope DEF StoredInv
<1>2. CASE UNCHANGED vars
  <2>1. UNCHANGED <<scenario, open, overdue, token, ckpt, durable, phase, batch, results,
                    step, saving>>
    BY <1>2 DEF vars, loopVars, historyVars
  <2>2. DurableInv'
    BY <2>1 DEF StoredInv, DurableInv, Holder
  <2>3. EndingInv' /\ FreshInv' /\ BarrierInv' /\ ScopeInv'
    BY <2>1 DEF StoredInv, EndingInv, FreshInv, BarrierInv, Prepared, BatchOf, ScopeInv
  <2> QED BY <1>0, <2>2, <2>3 DEF StoredInv
<1> QED BY <1>1, <1>2

\* A recorded result that was committed is never lost while the run may be
\* resumed, and the execution that holds the run always knows it, whatever fails
\* and whoever takes the run over (loop-resume.ts: persists are chained;
\* crash-checkpoint.ts: writes are fenced on the executor token).
THEOREM DurableResultsAreKept == Spec => []DurableIsKept
<1>1. Init => StoredInv
  BY InitStored
<1>2. StoredInv /\ [Next]_vars => StoredInv'
  BY NextStored
<1>3. StoredInv => DurableIsKept
  <2> SUFFICES ASSUME StoredInv, open, ~overdue
               PROVE  /\ durable \subseteq ckpt.results
                      /\ token # None /\ phase[token] \notin {"claimed", "gone"}
                            => durable \subseteq results[token]
    BY DEF DurableIsKept
  <2> QED BY DEF StoredInv, DurableInv, Holder
<1> QED BY <1>1, <1>2, <1>3, PTL DEF Spec

-----------------------------------------------------------------------------
(* What the checkpoint says of the turn of the conversation it was written *)
(* in.  A checkpoint fits the batch it carries (FitInv); the execution     *)
(* that holds the run is never behind it (CoverInv); a batch that was sent *)
(* is the checkpoint's or lies behind it (SentInv), so that no turn is     *)
(* sent twice under two ids.                                               *)

\* The loop knows which turn its batch belongs to; a call is at work only in the
\* batch of its execution, and a persist in flight carries that batch.
Fits(e) ==
    /\ batch[e] # None => batch[e] <= asked /\ turnOf[batch[e]] = turns[e]
    /\ phase[e] \in {"loop", "ready"} => batch[e] = None
    /\ \A id \in Id : step[e][id] \notin Cold => phase[e] \in {"batch", "left"} /\ id[1] = batch[e]
    /\ \A s \in saving[e] : /\ saving[e] = {s}
                            /\ step[e][s.id] = "saving"
                            /\ s.pending = batch[e]

CkptFits == ckpt.pending # None => ckpt.pending <= asked /\ turnOf[ckpt.pending] = ckpt.turns

FitInv == ~overdue => CkptFits /\ \A e \in Exec : Fits(e)

TurnsInv == TypeOK /\ EndingInv /\ BarrierInv /\ ScopeInv /\ FitInv

-----------------------------------------------------------------------------
(* A checkpoint fits its batch. *)

\* An execution outside its batch has no call going on and no persist in flight.
LEMMA FitIsQuiet ==
    ASSUME NEW e \in Exec, Fits(e), phase[e] \notin {"batch", "left"},
           \A s \in saving[e] : s.id \in Id
    PROVE  saving[e] = {} /\ \A id \in Id : step[e][id] \in Cold
BY DEF Fits, Cold

\* So it may move between the phases of its loop.
LEMMA QuietFits ==
    ASSUME NEW e \in Exec, saving'[e] = {}, \A id \in Id : step'[e][id] \in Cold,
           batch'[e] # None => batch'[e] <= asked' /\ turnOf'[batch'[e]] = turns'[e],
           phase'[e] \in {"loop", "ready"} => batch'[e] = None
    PROVE  Fits(e)'
BY DEF Fits

\* A batch that was asked for keeps its turn.
LEMMA AskedStays ==
    ASSUME TypeOK, NEW e \in Exec, LoopStep(e) \/ \E id \in Id : CallStep(e, id)
    PROVE  /\ asked \in Nat /\ asked' \in Nat /\ asked <= asked'
           /\ \A n \in Ask : n <= asked => turnOf'[n] = turnOf[n]
<1>0. AsksTyped /\ asked \in Nat
  BY TypeParts DEF AsksTyped, Ask
<1>1. CASE Infer(e)
  BY <1>0, <1>1 DEF Infer, AsksTyped, Ask
<1>2. CASE ~Infer(e)
  <2>1. UNCHANGED <<asked, turnOf>>
    <3>1. CASE LoopStep(e)
      BY <1>2, <3>1 DEF LoopStep, Take, Load, Crash, Boundary, SaveBatch, CloseBatch, Leave,
           Finish, Clear, Persisted, LoopStays, historyVars
    <3>2. ASSUME NEW id \in Id, CallStep(e, id) PROVE UNCHANGED <<asked, turnOf>>
      BY <3>2 DEF CallStep, Prepare, Suspend, Replay, Claim, Read, Execute, Settle,
           Interrupt, Withdraw, Persist, LoopStays, historyVars
    <3> QED BY <3>1, <3>2
  <2> QED BY <1>0, <2>1
<1> QED BY <1>1, <1>2

\* What an execution does not touch goes on fitting.
LEMMA OthersFit ==
    ASSUME TypeOK, NEW e \in Exec, NEW d \in Exec, d # e, Fits(d),
           LoopStep(e) \/ \E id \in Id : CallStep(e, id)
    PROVE  Fits(d)'
<1>1. batch[d] \in Ask \cup {None}
  BY TypeParts DEF LoopTyped
<1>2. UNCHANGED <<phase[d], turns[d], batch[d], step[d], saving[d]>>
  BY OthersStay
<1>3. batch[d] # None => batch[d] <= asked' /\ turnOf'[batch[d]] = turns[d]
  BY <1>1, AskedStays DEF Fits, Ask
<1> QED BY <1>2, <1>3 DEF Fits

\* A call of an execution's batch may move, unless its persist is in flight.
LEMMA MoveKeepsFit ==
    ASSUME NEW e \in Exec, Fits(e), StepTyped, NEW id \in Id, NEW s, StepTo(e, id, s),
           phase[e] \in {"batch", "left"}, id[1] = batch[e], step[e][id] # "saving",
           \A w \in saving[e] : w.id \in Id,
           UNCHANGED <<phase, turns, batch, saving, asked, turnOf>>
    PROVE  Fits(e)'
<1>1. step'[e][id] = s /\ \A other \in Id : other # id => step'[e][other] = step[e][other]
  BY StepToElsewhere
<1>2. \A other \in Id : step'[e][other] \notin Cold =>
         phase'[e] \in {"batch", "left"} /\ other[1] = batch'[e]
  BY <1>1 DEF Fits
<1>3. \A w \in saving'[e] : /\ saving'[e] = {w}
                            /\ step'[e][w.id] = "saving"
                            /\ w.pending = batch'[e]
  BY <1>1 DEF Fits
<1> QED BY <1>2, <1>3 DEF Fits

LEMMA CallStepFits ==
    ASSUME TypeOK, BarrierInv, ScopeInv, NEW e \in Exec, Fits(e), NEW id \in Id,
           CallStep(e, id)
    PROVE  Fits(e)'
<1>0. PhaseTyped /\ StepTyped /\ SavingTyped /\ LoopTyped
  BY TypeParts
<1>1. \A w \in saving[e] : w.id \in Id
  BY <1>0 DEF SavingTyped, Snapshot
<1>2. UNCHANGED <<turns, batch, asked, turnOf>>
  BY DEF CallStep, Prepare, Suspend, Replay, Claim, Read, Execute, Settle, Interrupt,
       Withdraw, Persist, LoopStays, loopVars, historyVars
<1>3. CASE Suspend(e, id)
  <2>1. /\ phase[e] = "batch" /\ id \in BatchOf(batch[e]) /\ step[e][id] = "idle"
        /\ UNCHANGED saving
    BY <1>3 DEF Suspend, Goes
  <2>2. phase'[e] = "over"
    BY <1>0, <1>3 DEF Suspend, Goto, PhaseTyped
  <2>3. \A other \in Id : step'[e][other] =
           IF other \in BatchOf(batch[e]) THEN "done" ELSE step[e][other]
    BY <1>0, <1>3 DEF Suspend, StepTyped
  <2>4. \A other \in Id : step'[e][other] \in Cold
    BY <2>3 DEF Fits, BatchOf, Cold, ScopeInv
  <2>5. saving[e] = {}
    <3> SUFFICES ASSUME NEW w \in saving[e] PROVE FALSE
      OBVIOUS
    <3>1. w.id \in Id /\ step[e][w.id] = "saving"
      BY <1>1 DEF Fits
    <3>2. w.id[1] = batch[e]
      BY <3>1 DEF Fits, Cold
    <3>3. Prepared(e, w.id)
      BY <3>1 DEF BarrierInv
    <3> QED BY <2>1, <3>2, <3>3 DEF Prepared
  <2>6. batch[e] # None => batch[e] <= asked /\ turnOf[batch[e]] = turns[e]
    BY DEF Fits
  <2> QED BY <1>2, <2>1, <2>2, <2>4, <2>5, <2>6, QuietFits
<1>4. CASE Prepare(e, id)
  <2>1. /\ phase[e] \in {"batch", "left"} /\ id[1] = batch[e] /\ step[e][id] # "saving"
        /\ UNCHANGED <<phase, saving>>
    BY <1>4 DEF Prepare, Goes, BatchOf, LoopStays, loopVars
  <2>2. PICK s : StepTo(e, id, s)
    BY <1>4 DEF Prepare
  <2> QED BY <1>0, <1>1, <1>2, <2>1, <2>2, MoveKeepsFit
<1>5. CASE \/ Replay(e, id) \/ Claim(e, id) \/ Read(e, id) \/ Execute(e, id)
           \/ Settle(e, id) \/ Interrupt(e, id) \/ Withdraw(e, id)
  <2>1. step[e][id] \notin Cold /\ step[e][id] # "saving"
    BY <1>5 DEF Replay, Claim, Read, Execute, Settle, Interrupt, Withdraw, Working, Cold
  <2>2. phase[e] \in {"batch", "left"} /\ id[1] = batch[e]
    BY <2>1 DEF Fits
  <2>3. PICK s : StepTo(e, id, s)
    BY <1>5 DEF Replay, Claim, Read, Execute, Settle, Interrupt, Withdraw, Keep
  <2>4. UNCHANGED <<phase, saving>>
    BY <1>5 DEF Replay, Claim, Read, Execute, Settle, Interrupt, Withdraw, LoopStays, loopVars
  <2> QED BY <1>0, <1>1, <1>2, <2>1, <2>2, <2>3, <2>4, MoveKeepsFit
<1>6. CASE Persist(e, id)
  <2> DEFINE w == [id |-> id, pending |-> batch[e], results |-> results[e]]
  <2>1. step[e][id] = "recorded" /\ saving[e] = {} /\ UNCHANGED phase
    BY <1>6 DEF Persist, Working, PersistFree, LoopStays, loopVars
  <2>2. phase[e] \in {"batch", "left"} /\ id[1] = batch[e]
    BY <2>1 DEF Fits, Cold
  <2>3. saving'[e] = {w}
    BY <1>0, <1>6, <2>1 DEF Persist, SavingTyped
  <2>4. /\ step'[e][id] = "saving"
        /\ \A other \in Id : other # id => step'[e][other] = step[e][other]
    BY <1>0, <1>6, StepToElsewhere DEF Persist
  <2>5. \A other \in Id : step'[e][other] \notin Cold =>
           phase'[e] \in {"batch", "left"} /\ other[1] = batch'[e]
    BY <1>2, <2>1, <2>2, <2>4 DEF Fits
  <2>6. w.id = id /\ w.pending = batch[e]
    OBVIOUS
  <2>7. /\ batch[e] # None => batch[e] <= asked /\ turnOf[batch[e]] = turns[e]
        /\ phase[e] \in {"loop", "ready"} => batch[e] = None
    BY DEF Fits
  <2> HIDE DEF w
  <2> QED BY <1>2, <2>1, <2>3, <2>4, <2>5, <2>6, <2>7 DEF Fits
<1> QED BY <1>3, <1>4, <1>5, <1>6 DEF CallStep

LEMMA LoopStepFits ==
    ASSUME TypeOK, ScopeInv, NEW e \in Exec, Fits(e), CkptFits, LoopStep(e), ~overdue'
    PROVE  Fits(e)'
<1>0. ScenarioTyped /\ PhaseTyped /\ StepTyped /\ SavingTyped /\ LoopTyped /\ AsksTyped
  BY TypeParts
<1>1. \A w \in saving[e] : w.id \in Id
  BY <1>0 DEF SavingTyped, Snapshot
<1>2. phase[e] \notin {"batch", "left"} => saving[e] = {} /\ \A id \in Id : step[e][id] \in Cold
  BY <1>1, FitIsQuiet
<1>3. /\ batch[e] # None => batch[e] <= asked /\ turnOf[batch[e]] = turns[e]
      /\ phase[e] \in {"loop", "ready"} => batch[e] = None
  BY DEF Fits
<1>4. CASE Take(e)
  <2>1. phase[e] = "new" /\ phase'[e] = "claimed"
    BY <1>0, <1>4 DEF Take, Goto, PhaseTyped
  <2>2. UNCHANGED <<asked, turnOf, turns, batch, step, saving>>
    BY <1>4 DEF Take, historyVars
  <2> QED BY <1>2, <1>3, <2>1, <2>2, QuietFits
<1>5. CASE Load(e)
  <2>1. phase[e] = "claimed" /\ UNCHANGED <<asked, turnOf, step, saving>>
    BY <1>5 DEF Load, Goes, historyVars
  <2>2. turns'[e] = ckpt.turns /\ batch'[e] = ckpt.pending
    BY <1>0, <1>5 DEF Load, LoopTyped
  <2>3. phase'[e] = IF ckpt.pending = None THEN "loop" ELSE "asked"
    BY <1>0, <1>5 DEF Load, Goto, PhaseTyped
  <2> QED BY <1>2, <2>1, <2>2, <2>3, QuietFits DEF CkptFits
<1>6. CASE Crash(e)
  <2>1. saving'[e] = {} /\ \A id \in Id : step'[e][id] \in Cold
    BY <1>0, <1>6 DEF Crash, SavingTyped, StepTyped, Cold
  <2>2. batch'[e] = None
    BY <1>0, <1>6 DEF Crash, LoopTyped
  <2> QED BY <2>1, <2>2, QuietFits
<1>7. CASE Boundary(e)
  <2>1. phase[e] = "loop" /\ UNCHANGED <<step, saving>>
    BY <1>7 DEF Boundary, Goes
  <2>2. batch'[e] = None
    BY <1>0, <1>7 DEF Boundary, LoopTyped
  <2> QED BY <1>2, <2>1, <2>2, QuietFits
<1>8. CASE Infer(e)
  <2>1. phase[e] = "ready" /\ phase'[e] = "asked" /\ UNCHANGED <<turns, step, saving>>
    BY <1>0, <1>8 DEF Infer, Goes, Goto, PhaseTyped
  <2>2. asked + 1 \in Ask
    BY <1>0, <1>8, NextAskTyped DEF Infer
  <2>3. /\ batch'[e] = asked + 1 /\ asked' = asked + 1
        /\ turnOf'[asked + 1] = turns[e]
    BY <1>0, <1>8, <2>2 DEF Infer, LoopTyped, AsksTyped
  <2>4. batch'[e] <= asked' /\ turnOf'[batch'[e]] = turns'[e]
    BY <2>1, <2>2, <2>3 DEF Ask
  <2> QED BY <1>2, <2>1, <2>4, QuietFits
<1>9. CASE SaveBatch(e)
  <2>1. phase[e] = "asked" /\ phase'[e] = "batch"
    BY <1>0, <1>9 DEF SaveBatch, Goes, Goto, PhaseTyped
  <2>2. UNCHANGED <<asked, turnOf, turns, batch, step, saving>>
    BY <1>9 DEF SaveBatch
  <2> QED BY <1>2, <1>3, <2>1, <2>2, QuietFits
<1>10. CASE CloseBatch(e)
  <2>1. phase[e] = "batch" /\ UNCHANGED <<asked, turnOf, step, saving>>
    BY <1>10 DEF CloseBatch, Goes
  <2>2. \A id \in BatchOf(batch[e]) : step[e][id] \in Cold
    BY <1>10 DEF CloseBatch, Answered, Cold
  <2>3. \A id \in Id : step[e][id] \in Cold
    BY <2>2 DEF Fits, BatchOf, Cold, ScopeInv
  <2>4. saving[e] = {}
    BY <1>1, <2>3 DEF Fits, Cold
  <2>5. \/ phase'[e] = "over" /\ UNCHANGED <<turns, batch>>
        \/ phase'[e] = "loop" /\ batch'[e] = None
    BY <1>0, <1>10 DEF CloseBatch, Goto, PhaseTyped, LoopTyped
  <2> QED BY <1>3, <2>1, <2>3, <2>4, <2>5, QuietFits
<1>11. CASE Leave(e)
  <2>1. phase[e] \in {"loop", "ready", "batch"} /\ phase'[e] = "left"
    BY <1>0, <1>11 DEF Leave, Goes, Goto, PhaseTyped
  <2>2. UNCHANGED <<asked, turnOf, turns, batch, step, saving>>
    BY <1>11 DEF Leave, historyVars
  <2>3. \A id \in Id : step[e][id] \notin Cold => id[1] = batch[e]
    BY DEF Fits
  <2>4. \A s \in saving[e] : saving[e] = {s} /\ step[e][s.id] = "saving" /\ s.pending = batch[e]
    BY DEF Fits
  <2> QED BY <1>3, <2>1, <2>2, <2>3, <2>4 DEF Fits
<1>12. CASE Finish(e)
  <2>1. phase[e] \in {"loop", "ready", "over"} /\ phase'[e] \in {"ending", "left"}
    BY <1>0, <1>12 DEF Finish, Goes, Goto, PhaseTyped
  <2>2. UNCHANGED <<asked, turnOf, turns, batch, step, saving>>
    BY <1>12 DEF Finish, historyVars
  <2> QED BY <1>2, <1>3, <2>1, <2>2, QuietFits
<1>13. CASE Clear(e)
  <2>1. phase[e] = "ending" /\ phase'[e] = "left"
    BY <1>0, <1>13 DEF Clear, Goto, PhaseTyped
  <2>2. UNCHANGED <<asked, turnOf, turns, batch, step, saving>>
    BY <1>13 DEF Clear, historyVars
  <2> QED BY <1>2, <1>3, <2>1, <2>2, QuietFits
<1>14. CASE Persisted(e)
  <2>1. PICK s \in saving[e] : /\ saving' = [saving EXCEPT ![e] = @ \ {s}]
                              /\ StepTo(e, s.id, "done")
    BY <1>14 DEF Persisted
  <2>2. saving[e] = {s} /\ s.id \in Id
    BY <1>1, <2>1 DEF Fits
  <2>3. saving'[e] = {}
    BY <1>0, <2>1, <2>2 DEF SavingTyped
  <2>4. \A id \in Id : step'[e][id] \notin Cold => step[e][id] \notin Cold
    BY <1>0, <2>1, <2>2, StepToElsewhere DEF Cold
  <2>5. UNCHANGED <<asked, turnOf, phase, turns, batch>>
    BY <1>14 DEF Persisted, LoopStays, loopVars
  <2>6. \A id \in Id : step'[e][id] \notin Cold =>
           phase[e] \in {"batch", "left"} /\ id[1] = batch[e]
    BY <2>4 DEF Fits
  <2> QED BY <1>3, <2>3, <2>5, <2>6 DEF Fits
<1> QED BY <1>4, <1>5, <1>6, <1>7, <1>8, <1>9, <1>10, <1>11, <1>12, <1>13, <1>14 DEF LoopStep

\* Only the holder writes the checkpoint, and what it writes is where it stands;
\* the one exception sheds it behind a run that has ended.
LEMMA CkptWritten ==
    ASSUME TypeOK, NEW e \in Exec, Fits(e), LoopStep(e), ~Clear(e)
    PROVE  \/ UNCHANGED ckpt
           \/ /\ token = e /\ ckpt'.turns = turns[e] /\ ckpt'.pending = batch[e]
              /\ phase[e] \notin {"claimed", "gone"} /\ UNCHANGED <<asked, turnOf>>
<1>1. ASSUME NEW p, NEW rs, Write(e, turns[e], p, rs), p = batch[e]
      PROVE  \/ UNCHANGED ckpt
             \/ token = e /\ ckpt'.turns = turns[e] /\ ckpt'.pending = batch[e]
  <2>1. CASE ckpt' = ckpt
    BY <2>1
  <2>2. CASE token = e /\ ckpt' = [turns |-> turns[e], pending |-> p, results |-> rs]
    <3>1. ckpt'.turns = turns[e] /\ ckpt'.pending = p
      BY <2>2
    <3> QED BY <1>1, <2>2, <3>1
  <2> QED BY <1>1, <2>1, <2>2 DEF Write
<1>2. CASE Boundary(e)
  <2>1. phase[e] = "loop" /\ Write(e, turns[e], None, results[e])
    BY <1>2 DEF Boundary, Goes
  <2>2. batch[e] = None
    BY <2>1 DEF Fits
  <2> QED BY <1>1, <1>2, <2>1, <2>2 DEF Boundary
<1>3. CASE SaveBatch(e)
  <2>1. phase[e] = "asked" /\ Write(e, turns[e], batch[e], results[e])
    BY <1>3 DEF SaveBatch, Goes
  <2> QED BY <1>1, <1>3, <2>1 DEF SaveBatch
<1>4. CASE Persisted(e)
  <2>1. PICK s \in saving[e] : Write(e, turns[e], s.pending, s.results)
    BY <1>4 DEF Persisted
  <2>2. s.pending = batch[e] /\ step[e][s.id] = "saving" /\ s.id \in Id
    BY <2>1, TypeParts DEF Fits, SavingTyped, Snapshot
  <2>3. phase[e] \in {"batch", "left"}
    BY <2>2 DEF Fits, Cold
  <2> QED BY <1>1, <1>4, <2>1, <2>2, <2>3 DEF Persisted, LoopStays
<1>5. CASE ~Boundary(e) /\ ~SaveBatch(e) /\ ~Persisted(e)
  BY <1>5 DEF LoopStep, Take, Load, Crash, Infer, CloseBatch, Leave, Finish
<1> QED BY <1>2, <1>3, <1>4, <1>5

\* A call by itself writes nothing.
LEMMA CallWritesNothing ==
    ASSUME NEW e \in Exec, NEW id \in Id, CallStep(e, id)
    PROVE  UNCHANGED <<ckpt, token, asked, turnOf, turns, batch, unsaved>>
BY DEF CallStep, Prepare, Suspend, Replay, Claim, Read, Execute, Settle, Interrupt, Withdraw,
       Persist, LoopStays, loopVars, historyVars

LEMMA NextCkptFits ==
    ASSUME TypeOK, NEW e \in Exec, Fits(e), CkptFits,
           LoopStep(e) \/ \E id \in Id : CallStep(e, id)
    PROVE  CkptFits'
<1>1. ckpt.pending \in Ask \cup {None} /\ batch[e] \in Ask \cup {None}
  BY TypeParts DEF CkptTyped, Checkpoint, LoopTyped
<1>2. CASE UNCHANGED ckpt
  <2>1. ckpt.pending # None =>
           ckpt.pending <= asked' /\ turnOf'[ckpt.pending] = ckpt.turns
    BY <1>1, AskedStays DEF CkptFits, Ask
  <2> QED BY <1>2, <2>1 DEF CkptFits
<1>3. CASE Clear(e)
  <2>1. ckpt'.pending = None
    BY <1>3 DEF Clear, Blank
  <2> QED BY <2>1 DEF CkptFits
<1>4. CASE ~Clear(e) /\ ~UNCHANGED ckpt
  <2>1. LoopStep(e)
    BY <1>4, CallWritesNothing
  <2>2. ckpt'.turns = turns[e] /\ ckpt'.pending = batch[e] /\ UNCHANGED <<asked, turnOf>>
    BY <1>4, <2>1, CkptWritten
  <2> QED BY <2>2 DEF CkptFits, Fits
<1> QED BY <1>2, <1>3, <1>4

LEMMA InitTurns == Init => TurnsInv
<1> SUFFICES ASSUME Init PROVE TurnsInv
  OBVIOUS
<1>1. CkptFits /\ EndingInv /\ BarrierInv /\ ScopeInv
  BY DEF Init, CkptFits, Blank, EndingInv, BarrierInv, ScopeInv
<1>2. \A e \in Exec : Fits(e)
  BY DEF Init, Fits, Cold
<1> QED BY <1>1, <1>2, InitTyped DEF TurnsInv, FitInv

LEMMA NextTurns == TurnsInv /\ [Next]_vars => TurnsInv'
<1> SUFFICES ASSUME TurnsInv, [Next]_vars PROVE TurnsInv'
  OBVIOUS
<1>0. TypeOK /\ TypeOK'
  BY NextTyped DEF TurnsInv
<1>1. CASE Next
  <2>1. PICK e \in Exec : LoopStep(e) \/ \E id \in Id : CallStep(e, id)
    BY <1>1 DEF Next
  <2>2. FitInv'
    <3> SUFFICES ASSUME ~overdue' PROVE CkptFits' /\ \A d \in Exec : Fits(d)'
      BY DEF FitInv
    <3>1. CkptFits /\ \A d \in Exec : Fits(d)
      BY <1>1, NextLatches DEF TurnsInv, FitInv
    <3>2. CkptFits'
      BY <1>0, <2>1, <3>1, NextCkptFits
    <3>3. Fits(e)'
      BY <1>0, <2>1, <3>1, LoopStepFits, CallStepFits DEF TurnsInv
    <3>4. \A d \in Exec : d # e => Fits(d)'
      BY <1>0, <2>1, <3>1, OthersFit
    <3> QED BY <3>2, <3>3, <3>4
  <2> QED BY <1>0, <1>1, <2>2, NextEnding, NextBarrier, NextScope DEF TurnsInv
<1>2. CASE UNCHANGED vars
  <2>1. UNCHANGED <<scenario, open, asked, turnOf, ckpt, phase, turns, batch, step, saving,
                    overdue>>
    BY <1>2 DEF vars, loopVars, historyVars
  <2>2. FitInv'
    BY <2>1 DEF TurnsInv, FitInv, CkptFits, Fits
  <2>3. EndingInv' /\ BarrierInv' /\ ScopeInv'
    BY <2>1 DEF TurnsInv, EndingInv, BarrierInv, Prepared, BatchOf, ScopeInv
  <2> QED BY <1>0, <2>2, <2>3 DEF TurnsInv
<1> QED BY <1>1, <1>2

\* A checkpoint that carries a batch carries the transcript that ends in the
\* request of that batch, whoever wrote it and whatever failed, as long as no call
\* outlived its timeout (agentic-loop.ts, markDispatchBoundary; loop-resume.ts:
\* a persist carries the batch it was started in).
THEOREM CheckpointsFit == Spec => []CheckpointFits
<1>1. Init => TurnsInv
  BY InitTurns
<1>2. TurnsInv /\ [Next]_vars => TurnsInv'
  BY NextTurns
<1>3. TurnsInv => CheckpointFits
  BY DEF TurnsInv, FitInv, CkptFits, CheckpointFits
<1> QED BY <1>1, <1>2, <1>3, PTL DEF Spec

-----------------------------------------------------------------------------
(* The execution that holds the run is not behind the checkpoint. *)

Covers(e) ==
    \/ turns[e] > ckpt.turns
    \/ turns[e] = ckpt.turns /\ ckpt.pending \in {None, batch[e]}

CoverInv ==
    open /\ ~overdue /\ token # None /\ phase[token] \notin {"claimed", "gone"}
        => Covers(token)

\* The steps of the holder itself.
LEMMA HolderCovers ==
    ASSUME TurnsInv, CoverInv, NEW e \in Exec, LoopStep(e), token = e, token' = e,
           open, ~overdue, ~Clear(e), phase'[e] \notin {"claimed", "gone"}
    PROVE  Covers(e)'
<1>0. /\ PhaseTyped /\ LoopTyped /\ turns[e] \in Nat /\ ckpt.turns \in Nat /\ Fits(e)
      /\ token # None
  BY TypeParts DEF TurnsInv, FitInv, CkptTyped, Checkpoint, LoopTyped, Exec, None
<1>1. phase[e] \notin {"claimed", "gone"} => Covers(e)
  BY <1>0 DEF CoverInv
<1>2. CASE Load(e)
  <2>1. turns'[e] = ckpt.turns /\ batch'[e] = ckpt.pending /\ ckpt' = ckpt
    BY <1>0, <1>2 DEF Load, LoopTyped
  <2> QED BY <2>1 DEF Covers
<1>3. CASE Boundary(e) \/ SaveBatch(e) \/ Persisted(e)
  <2>1. turns' = turns
    BY <1>3 DEF Boundary, SaveBatch, Persisted, LoopStays, loopVars
  <2>2. batch'[e] = batch[e]
    BY <1>0, <1>3 DEF Boundary, SaveBatch, Persisted, LoopStays, loopVars, Fits, Goes, LoopTyped
  <2>3. CASE UNCHANGED ckpt
    <3>1. phase[e] \notin {"claimed", "gone"}
      BY <1>0, <1>3 DEF Boundary, SaveBatch, Persisted, LoopStays, loopVars, Goes
    <3> QED BY <1>1, <2>1, <2>2, <2>3, <3>1 DEF Covers
  <2>4. CASE ~UNCHANGED ckpt
    <3>1. ckpt'.turns = turns[e] /\ ckpt'.pending = batch[e]
      BY <1>0, <2>4, CkptWritten DEF TurnsInv
    <3> QED BY <2>1, <2>2, <3>1 DEF Covers
  <2> QED BY <2>3, <2>4
<1>4. CASE Infer(e)
  <2>1. phase[e] = "ready" /\ UNCHANGED <<ckpt, turns>>
    BY <1>4 DEF Infer, Goes
  <2>2. batch[e] = None
    BY <1>0, <2>1 DEF Fits
  <2> QED BY <1>1, <2>1, <2>2 DEF Covers
<1>5. CASE CloseBatch(e)
  <2>1. phase[e] = "batch" /\ UNCHANGED ckpt
    BY <1>5 DEF CloseBatch, Goes
  <2>2. \/ UNCHANGED <<turns, batch>>
        \/ turns'[e] = turns[e] + 1
    BY <1>0, <1>5 DEF CloseBatch, LoopTyped
  <2> QED BY <1>0, <1>1, <2>1, <2>2 DEF Covers
<1>6. CASE Finish(e)
  <2>1. phase[e] \notin {"claimed", "gone"} /\ UNCHANGED <<ckpt, turns, batch>>
    BY <1>6 DEF Finish, Goes
  <2> QED BY <1>1, <2>1 DEF Covers
<1>7. CASE Take(e)
  BY <1>0, <1>7 DEF Take, Goto, PhaseTyped
<1>8. CASE Crash(e)
  BY <1>0, <1>8 DEF Crash, Goto, PhaseTyped
<1>9. CASE Leave(e)
  BY <1>0, <1>9 DEF Leave, Released
<1> QED BY <1>2, <1>3, <1>4, <1>5, <1>6, <1>7, <1>8, <1>9 DEF LoopStep

LEMMA NextCover == TurnsInv /\ CoverInv /\ Next => CoverInv'
<1> SUFFICES ASSUME TurnsInv, CoverInv, Next, open', ~overdue', token' # None,
                    phase'[token'] \notin {"claimed", "gone"}
             PROVE  Covers(token)'
  BY DEF CoverInv
<1>0. open /\ ~overdue /\ TypeOK /\ PhaseTyped /\ RunTyped
  BY NextLatches, TypeParts DEF TurnsInv
<1>1. PICK e \in Exec : LoopStep(e) \/ \E id \in Id : CallStep(e, id)
  BY DEF Next
<1>2. ~Clear(e)
  BY <1>0 DEF Clear, TurnsInv, EndingInv
<1>3. token' = token
  <2>1. CASE Take(e)
    BY <1>0, <2>1 DEF Take, Goto, PhaseTyped
  <2>2. CASE Leave(e)
    BY <2>2 DEF Leave, Released
  <2>3. CASE LoopStep(e) /\ ~Take(e) /\ ~Leave(e)
    BY <2>3 DEF LoopStep, Load, Crash, Boundary, Infer, SaveBatch, CloseBatch, Finish, Clear,
         Persisted, LoopStays
  <2> QED BY <1>1, <2>1, <2>2, <2>3, CallWritesNothing
<1>4. CASE token = e /\ LoopStep(e)
  BY <1>0, <1>2, <1>3, <1>4, HolderCovers
<1>5. CASE token = e /\ ~LoopStep(e)
  <2>1. PICK id \in Id : CallStep(e, id)
    BY <1>1, <1>5
  <2>2. UNCHANGED <<ckpt, turns, batch>>
    BY <2>1, CallWritesNothing
  <2>3. phase[e] \notin {"claimed", "gone"}
    BY <1>0, <1>3, <1>5, <2>1 DEF CallStep, Prepare, Suspend, Replay, Claim, Read, Execute,
         Settle, Interrupt, Withdraw, Persist, LoopStays, loopVars, Goes
  <2> QED BY <1>0, <1>3, <1>5, <2>2, <2>3 DEF CoverInv, Covers
<1>6. CASE token # e
  <2>1. token \in Exec
    BY <1>0, <1>3 DEF RunTyped
  <2>2. UNCHANGED <<phase[token], turns[token], batch[token]>>
    <3>1. \A d \in Exec : d # e => UNCHANGED <<phase[d], turns[d], batch[d]>>
      BY <1>0, <1>1, OthersStay
    <3> QED BY <1>3, <1>6, <2>1, <3>1
  <2>3. UNCHANGED ckpt
    BY <1>0, <1>1, <1>2, <1>6, CkptWritten, CallWritesNothing DEF TurnsInv, FitInv
  <2> QED BY <1>0, <1>3, <2>2, <2>3 DEF CoverInv, Covers
<1> QED BY <1>4, <1>5, <1>6

-----------------------------------------------------------------------------
(* A batch that was sent is the checkpoint's, or the checkpoint is past it.   *)

Sent(m) ==
    \/ \E e \in Exec : batch[e] = m /\ phase[e] \in {"batch", "over", "left", "ending"}
    \/ \E c \in Call : effects[<<m, c>>] > 0

Behind(m) == ckpt.pending = m \/ ckpt.turns > turnOf[m]

SentInv ==
    open /\ ~overdue /\ ~unsaved =>
        /\ \A m \in Ask : Sent(m) => m <= asked /\ Behind(m)
        /\ \A m, n \in Ask : Sent(m) /\ Sent(n) /\ turnOf[m] = turnOf[n] => m = n

OneTurnInv == TurnsInv /\ CoverInv /\ SentInv

\* Only the loop that dispatches a batch sends it: its calls take effect after.
LEMMA LoopSends ==
    ASSUME TypeOK, NEW e \in Exec, Fits(e), LoopStep(e), NEW m \in Ask, Sent(m)'
    PROVE  Sent(m) \/ (SaveBatch(e) /\ m = batch[e])
<1>0. PhaseTyped /\ LoopTyped /\ m # None
  BY TypeParts DEF Ask, None
<1>1. effects' = effects
  BY DEF LoopStep, Take, Load, Crash, Boundary, Infer, SaveBatch, CloseBatch, Leave, Finish,
     Clear, Persisted, LoopStays, historyVars
<1>2. ASSUME NEW d \in Exec, d # e, batch'[d] = m, phase'[d] \in {"batch", "over", "left", "ending"}
      PROVE  Sent(m)
  <2>1. UNCHANGED <<phase[d], batch[d]>>
    BY <1>2, OthersStay
  <2> QED BY <1>2, <2>1 DEF Sent
<1>3. ASSUME batch'[e] = m, phase'[e] \in {"batch", "over", "left", "ending"}
      PROVE  Sent(m) \/ (SaveBatch(e) /\ m = batch[e])
  <2>1. batch[e] = m
    BY <1>0, <1>3 DEF LoopStep, Take, Load, Crash, Boundary, Infer, SaveBatch, CloseBatch,
       Leave, Finish, Clear, Persisted, LoopStays, loopVars, Goto, PhaseTyped, LoopTyped
  <2>2. phase[e] \notin {"loop", "ready"}
    BY <1>0, <2>1 DEF Fits
  <2>3. phase[e] \in {"batch", "over", "left", "ending"} \/ SaveBatch(e)
    BY <1>0, <1>3, <2>2 DEF LoopStep, Take, Load, Crash, Boundary, Infer, CloseBatch,
       Leave, Finish, Clear, Persisted, LoopStays, loopVars, Goto, PhaseTyped, Goes
  <2> QED BY <2>1, <2>3 DEF Sent
<1> QED BY <1>1, <1>2, <1>3 DEF Sent

LEMMA CallSends ==
    ASSUME TypeOK, NEW e \in Exec, Fits(e), NEW id \in Id, CallStep(e, id),
           NEW m \in Ask, Sent(m)'
    PROVE  Sent(m)
<1>0. PhaseTyped /\ LoopTyped /\ EffectsTyped /\ UNCHANGED batch
  BY TypeParts, CallWritesNothing
<1>1. ASSUME NEW d \in Exec, batch'[d] = m, phase'[d] \in {"batch", "over", "left", "ending"}
      PROVE  Sent(m)
  <2>1. phase[d] \in {"batch", "over", "left", "ending"}
    BY <1>0, <1>1 DEF CallStep, Prepare, Suspend, Replay, Claim, Read, Execute, Settle,
       Interrupt, Withdraw, Persist, LoopStays, loopVars, Goto, PhaseTyped, Goes
  <2> QED BY <1>0, <1>1, <2>1 DEF Sent
<1>2. ASSUME NEW c \in Call, effects'[<<m, c>>] > 0
      PROVE  Sent(m)
  <2>1. CASE effects'[<<m, c>>] = effects[<<m, c>>]
    BY <1>2, <2>1 DEF Sent
  <2>2. CASE effects'[<<m, c>>] # effects[<<m, c>>]
    <3>1. Execute(e, id)
      BY <2>2 DEF CallStep, Prepare, Suspend, Replay, Claim, Read, Settle, Interrupt,
         Withdraw, Persist, historyVars
    <3>2. step[e][id] = "running" /\ <<m, c>> = id
      <4>1. step[e][id] = "running"
        BY <3>1 DEF Execute, Working
      <4>2. effects' = [effects EXCEPT ![id] = @ + 1]
        BY <2>2, <3>1 DEF Execute
      <4>3. <<m, c>> \in Id
        BY DEF Id
      <4>4. <<m, c>> # id => effects'[<<m, c>>] = effects[<<m, c>>]
        BY <1>0, <4>2, <4>3 DEF EffectsTyped
      <4> QED BY <2>2, <4>1, <4>4
    <3>3. phase[e] \in {"batch", "left"} /\ id[1] = batch[e]
      BY <3>2 DEF Fits, Cold
    <3>4. id[1] = m
      BY <3>2
    <3> QED BY <3>3, <3>4 DEF Sent
  <2> QED BY <2>1, <2>2
<1> QED BY <1>1, <1>2 DEF Sent

\* What the checkpoint has behind it stays behind it when the holder writes.
LEMMA WriteKeepsBehind ==
    ASSUME TurnsInv, CoverInv, NEW e \in Exec, LoopStep(e), ~Clear(e), open, ~overdue,
           NEW m \in Ask, m <= asked, Behind(m)
    PROVE  Behind(m)'
<1>0. /\ TypeOK /\ Fits(e) /\ CkptFits /\ m # None
      /\ turns[e] \in Nat /\ ckpt.turns \in Nat /\ turnOf[m] \in Nat
  BY TypeParts DEF TurnsInv, FitInv, CkptTyped, Checkpoint, LoopTyped, AsksTyped, Ask, None
<1>1. turnOf'[m] = turnOf[m]
  BY <1>0, AskedStays
<1>2. CASE UNCHANGED ckpt
  BY <1>1, <1>2 DEF Behind
<1>3. CASE ~UNCHANGED ckpt
  <2>1. /\ token = e /\ ckpt'.turns = turns[e] /\ ckpt'.pending = batch[e]
        /\ phase[e] \notin {"claimed", "gone"}
    BY <1>0, <1>3, CkptWritten
  <2>2. Covers(e)
    BY <2>1 DEF CoverInv, Exec, None
  <2>3. batch[e] = m \/ turns[e] > turnOf[m]
    BY <1>0, <2>2 DEF Covers, Behind, CkptFits
  <2> QED BY <1>1, <2>1, <2>3 DEF Behind
<1> QED BY <1>2, <1>3

\* The batch that is sent is the first of its turn.
LEMMA SentAnew ==
    ASSUME TurnsInv, CoverInv, SentInv, NEW e \in Exec, SaveBatch(e), open, ~overdue,
           ~unsaved', batch[e] # None,
           NEW n \in Ask, Sent(n), n # batch[e]
    PROVE  turnOf[n] # turnOf[batch[e]]
<1>0. /\ TypeOK /\ Fits(e) /\ CkptFits
      /\ turns[e] \in Nat /\ ckpt.turns \in Nat /\ turnOf[n] \in Nat /\ n # None
  BY TypeParts DEF TurnsInv, FitInv, CkptTyped, Checkpoint, LoopTyped, AsksTyped, Ask, None
<1>1. ckpt'.pending = batch[e] /\ ~unsaved /\ UNCHANGED turnOf
  BY DEF SaveBatch
<1>2. n <= asked /\ Behind(n)
  BY <1>1 DEF SentInv
<1>3. LoopStep(e) /\ ~Clear(e)
  BY DEF LoopStep, SaveBatch, Clear, Goes
<1>4. Behind(n)'
  BY <1>2, <1>3, WriteKeepsBehind
<1>5. ckpt'.turns > turnOf[n]
  BY <1>1, <1>4 DEF Behind
<1>6. CkptFits'
  BY <1>0, <1>3, NextCkptFits
<1>7. turnOf[batch[e]] = ckpt'.turns
  BY <1>1, <1>6 DEF CkptFits
<1> QED BY <1>0, <1>5, <1>7

\* A dispatch without a save is not forgotten.
LEMMA UnsavedLatches == Next => (unsaved => unsaved')
<1>1. ASSUME NEW e \in Exec, LoopStep(e) PROVE unsaved => unsaved'
  BY <1>1 DEF LoopStep, Take, Load, Crash, Boundary, Infer, SaveBatch, CloseBatch, Leave,
     Finish, Clear, Persisted, LoopStays, historyVars
<1> QED BY <1>1, CallWritesNothing DEF Next

LEMMA NextSent == TurnsInv /\ CoverInv /\ SentInv /\ Next => SentInv'
<1> SUFFICES ASSUME TurnsInv, CoverInv, SentInv, Next, open', ~overdue', ~unsaved'
             PROVE  /\ \A m \in Ask : Sent(m)' => m <= asked' /\ Behind(m)'
                    /\ \A m, n \in Ask :
                          Sent(m)' /\ Sent(n)' /\ turnOf'[m] = turnOf'[n] => m = n
  BY DEF SentInv
<1>0. open /\ ~overdue /\ ~unsaved /\ TypeOK
  BY NextLatches, UnsavedLatches DEF TurnsInv
<1>1. PICK e \in Exec : LoopStep(e) \/ \E id \in Id : CallStep(e, id)
  BY DEF Next
<1>2. ~Clear(e) /\ Fits(e)
  BY <1>0 DEF Clear, TurnsInv, EndingInv, FitInv
<1>3. /\ asked \in Nat /\ asked' \in Nat /\ asked <= asked'
      /\ \A m \in Ask : m <= asked => turnOf'[m] = turnOf[m]
  BY <1>0, <1>1, AskedStays
<1>4. ASSUME NEW m \in Ask, Sent(m)'
      PROVE  Sent(m) \/ (SaveBatch(e) /\ m = batch[e])
  BY <1>0, <1>1, <1>2, <1>4, LoopSends, CallSends
<1>5. ASSUME NEW m \in Ask, Sent(m)
      PROVE  m <= asked /\ Behind(m)'
  <2>1. m <= asked /\ Behind(m)
    BY <1>0, <1>5 DEF SentInv
  <2>2. CASE LoopStep(e)
    BY <1>0, <1>2, <2>1, <2>2, WriteKeepsBehind
  <2>3. CASE ~LoopStep(e)
    <3>1. UNCHANGED <<ckpt, turnOf>>
      BY <1>1, <2>3, CallWritesNothing
    <3> QED BY <2>1, <3>1 DEF Behind
  <2> QED BY <2>1, <2>2, <2>3
<1>6. ASSUME SaveBatch(e), batch[e] \in Ask
      PROVE  batch[e] <= asked /\ Behind(batch[e])'
  <2>1. batch[e] # None
    BY <1>6 DEF Ask, None
  <2>2. batch[e] <= asked
    BY <1>2, <2>1 DEF Fits
  <2>3. ckpt'.pending = batch[e] /\ UNCHANGED batch
    BY <1>6 DEF SaveBatch
  <2> QED BY <2>2, <2>3 DEF Behind
<1>7. ASSUME NEW m \in Ask, Sent(m)'
      PROVE  m <= asked /\ Behind(m)'
  <2>1. CASE Sent(m)
    BY <1>5, <2>1
  <2>2. CASE SaveBatch(e) /\ m = batch[e]
    <3>1. batch' = batch
      BY <2>2 DEF SaveBatch
    <3> QED BY <1>6, <2>2, <3>1 DEF Behind
  <2> QED BY <1>4, <1>7, <2>1, <2>2
<1>8. ASSUME NEW m \in Ask, NEW n \in Ask, Sent(m)', Sent(n)', turnOf'[m] = turnOf'[n], m # n
      PROVE  FALSE
  <2>1. turnOf[m] = turnOf[n]
    BY <1>3, <1>7, <1>8
  <2>2. CASE Sent(m) /\ Sent(n)
    BY <1>0, <1>8, <2>1, <2>2 DEF SentInv
  <2>3. CASE SaveBatch(e) /\ m = batch[e] /\ Sent(n)
    BY <1>0, <1>8, <2>1, <2>3, SentAnew DEF Ask, None
  <2>4. CASE SaveBatch(e) /\ n = batch[e] /\ Sent(m)
    BY <1>0, <1>8, <2>1, <2>4, SentAnew DEF Ask, None
  <2> QED BY <1>4, <1>8, <2>2, <2>3, <2>4
<1>9. ASSUME NEW m \in Ask, Sent(m)' PROVE m <= asked' /\ Behind(m)'
  BY <1>3, <1>7, <1>9, BoundsAssumption DEF Ask
<1> QED BY <1>8, <1>9

LEMMA InitOneTurn == Init => OneTurnInv
<1> SUFFICES ASSUME Init PROVE OneTurnInv
  OBVIOUS
<1>1. CoverInv
  BY DEF Init, CoverInv
<1>2. \A m \in Ask : ~Sent(m)
  <2> SUFFICES ASSUME NEW m \in Ask, Sent(m) PROVE FALSE
    OBVIOUS
  <2>1. \A c \in Call : effects[<<m, c>>] = 0
    BY DEF Init, Id
  <2>2. \A e \in Exec : phase[e] = "new"
    BY DEF Init
  <2>3. \A c \in Call : ~(effects[<<m, c>>] > 0)
    BY <2>1
  <2> QED BY <2>2, <2>3 DEF Sent
<1> QED BY <1>1, <1>2, InitTurns DEF OneTurnInv, SentInv

LEMMA NextOneTurn == OneTurnInv /\ [Next]_vars => OneTurnInv'
<1> SUFFICES ASSUME OneTurnInv, [Next]_vars PROVE OneTurnInv'
  OBVIOUS
<1>1. CASE Next
  BY <1>1, NextTurns, NextCover, NextSent DEF OneTurnInv
<1>2. CASE UNCHANGED vars
  <2>1. UNCHANGED <<open, token, asked, turnOf, ckpt, phase, turns, batch, effects, overdue,
                    unsaved>>
    BY <1>2 DEF vars, loopVars, historyVars
  <2>2. CoverInv'
    BY <2>1 DEF OneTurnInv, CoverInv, Covers
  <2>3. SentInv'
    BY <2>1 DEF OneTurnInv, SentInv, Sent, Behind
  <2> QED BY <1>2, <2>2, <2>3, NextTurns DEF OneTurnInv
<1> QED BY <1>1, <1>2

\* As long as every batch was saved before it was dispatched, and no call outlived
\* its timeout, the calls of one turn of the conversation take effect under one id
\* only, through every crash, takeover and lost write of a later checkpoint
\* (agentic-loop.ts: the checkpoint immediately before dispatch; a resume
\* re-enters the saved batch instead of asking the model again).
THEOREM SavedTurnsTakeEffectOnce == Spec => []SavedTurnTakesEffectOnce
<1>1. Init => OneTurnInv
  BY InitOneTurn
<1>2. OneTurnInv /\ [Next]_vars => OneTurnInv'
  BY NextOneTurn
<1>3. OneTurnInv => SavedTurnTakesEffectOnce
  <2> SUFFICES ASSUME OneTurnInv, ~unsaved, ~overdue, open, NEW c \in Claimed,
                      NEW m \in Ask, NEW n \in Ask, m # n, turnOf[m] = turnOf[n],
                      effects[<<m, c>>] # 0, effects[<<n, c>>] # 0
               PROVE  FALSE
    BY DEF SavedTurnTakesEffectOnce, TurnTakesEffectOnce
  <2>1. c \in Call
    BY ClaimedAssumption
  <2>2. <<m, c>> \in Id /\ <<n, c>> \in Id
    BY <2>1 DEF Id
  <2>3. effects[<<m, c>>] > 0 /\ effects[<<n, c>>] > 0
    BY <2>2, TypeParts DEF OneTurnInv, TurnsInv, EffectsTyped
  <2>4. Sent(m) /\ Sent(n)
    BY <2>1, <2>3 DEF Sent
  <2> QED BY <2>4 DEF OneTurnInv, SentInv
<1> QED BY <1>1, <1>2, <1>3, PTL DEF Spec

-----------------------------------------------------------------------------
(* What ToolCalls assumes of its run is what the run promises.              *)

\* How an execution that took the run moves.
LEMMA WorkMoves ==
    ASSUME PhaseTyped, NEW e \in AtWork, NEW p \in Phases \ {"new"}, Goto(e, p)
    PROVE  Fresh' = Fresh /\ AtWork' \in {AtWork, AtWork \ {e}}
<1>1. e \in Exec /\ phase[e] \notin {"new", "left", "gone"}
  BY DEF AtWork
<1>2. phase' = [phase EXCEPT ![e] = p] /\ phase \in [Exec -> Phases]
  BY DEF Goto, PhaseTyped
<1>3. Fresh' = Fresh
  BY <1>1, <1>2 DEF Fresh
<1>4. CASE p \in {"left", "gone"}
  <2>1. AtWork' = AtWork \ {e}
    BY <1>1, <1>2, <1>4 DEF AtWork
  <2> QED BY <1>3, <2>1
<1>5. CASE p \notin {"left", "gone"}
  <2>1. AtWork' = AtWork
    BY <1>1, <1>2, <1>5 DEF AtWork
  <2> QED BY <1>3, <2>1
<1> QED BY <1>4, <1>5

\* An execution at work that leaves the run alone, or that holds it.
LEMMA ActInContract ==
    ASSUME PhaseTyped, NEW e \in AtWork, NEW p \in Phases \ {"new"}, Goto(e, p),
           \/ UNCHANGED <<open, token>>
           \/ token = e /\ token' \in {e, None} /\ open' \in {open, FALSE}
    PROVE  Run!Next
<1>1. Fresh' = Fresh /\ AtWork' \in {AtWork, AtWork \ {e}} /\ e \in Exec
  BY WorkMoves DEF AtWork
<1>2. Run!Act(e)
  BY <1>1 DEF Run!Act
<1> QED BY <1>1, <1>2 DEF Run!Next

LEMMA UnseenInContract ==
    ASSUME UNCHANGED <<open, token, phase>>
    PROVE  UNCHANGED Run!contractVars
BY DEF Run!contractVars, Fresh, AtWork

LEMMA LoopInContract ==
    ASSUME PhaseTyped, NEW e \in Exec, LoopStep(e)
    PROVE  [Run!Next]_(Run!contractVars)
<1>1. CASE Take(e)
  <2>1. open /\ phase[e] = "new" /\ token' = e /\ open' = open /\ phase' = [phase EXCEPT ![e] = "claimed"]
    BY <1>1 DEF Take, Goto
  <2>2. e \in Fresh /\ Fresh' = Fresh \ {e} /\ AtWork' = AtWork \cup {e}
    BY <2>1 DEF PhaseTyped, Fresh, AtWork
  <2>3. Run!Take(e)
    BY <2>1, <2>2 DEF Run!Take
  <2> QED BY <2>3 DEF Run!Next
<1>2. CASE Load(e) \/ Boundary(e) \/ Infer(e) \/ SaveBatch(e) \/ CloseBatch(e) \/ Clear(e)
  <2>1. e \in AtWork /\ UNCHANGED <<open, token>>
    BY <1>2 DEF Load, Boundary, Infer, SaveBatch, CloseBatch, Clear, Goes, AtWork
  <2>2. \E p \in Phases \ {"new"} : Goto(e, p)
    BY <1>2 DEF Load, Boundary, Infer, SaveBatch, CloseBatch, Clear, Phases
  <2> QED BY <2>1, <2>2, ActInContract
<1>3. CASE Crash(e)
  <2>1. Goto(e, "gone") /\ UNCHANGED <<open, token>> /\ phase[e] \notin {"new", "gone"}
    BY <1>3 DEF Crash
  <2>2. CASE e \in AtWork
    BY <2>1, <2>2, ActInContract DEF Phases
  <2>3. CASE e \notin AtWork
    <3>1. phase[e] = "left" /\ phase' = [phase EXCEPT ![e] = "gone"]
      BY <2>1, <2>3 DEF AtWork, Goto
    <3>2. Fresh' = Fresh /\ AtWork' = AtWork
      BY <3>1 DEF PhaseTyped, Fresh, AtWork
    <3> QED BY <2>1, <3>2 DEF Run!contractVars
  <2> QED BY <2>2, <2>3
<1>4. CASE Leave(e)
  <2>1. e \in AtWork /\ Goto(e, "left") /\ open' = open
    BY <1>4 DEF Leave, Goes, AtWork
  <2>2. token' = token \/ (token = e /\ token' = None)
    BY <1>4 DEF Leave, Released
  <2> QED BY <2>1, <2>2, ActInContract DEF Phases
<1>5. CASE Finish(e)
  <2>1. e \in AtWork /\ token' = token
    BY <1>5 DEF Finish, Goes, AtWork
  <2>2. \/ token = e /\ open' = FALSE /\ Goto(e, "ending")
        \/ open' = open /\ Goto(e, "left")
    BY <1>5 DEF Finish
  <2> QED BY <2>1, <2>2, ActInContract DEF Phases
<1>6. CASE Persisted(e)
  BY <1>6, UnseenInContract DEF Persisted, LoopStays, loopVars
<1> QED BY <1>1, <1>2, <1>3, <1>4, <1>5, <1>6 DEF LoopStep

LEMMA CallInContract ==
    ASSUME PhaseTyped, NEW e \in Exec, NEW id \in Id, CallStep(e, id)
    PROVE  [Run!Next]_(Run!contractVars)
<1>1. CASE Suspend(e, id)
  <2>1. e \in AtWork /\ Goto(e, "over") /\ UNCHANGED <<open, token>>
    BY <1>1 DEF Suspend, Goes, AtWork
  <2> QED BY <2>1, ActInContract DEF Phases
<1>2. CASE ~Suspend(e, id)
  <2>1. LoopStays
    BY <1>2 DEF CallStep, Prepare, Replay, Claim, Read, Execute, Settle, Interrupt, Withdraw,
         Persist
  <2> QED BY <2>1, UnseenInContract DEF LoopStays, loopVars
<1> QED BY <1>1, <1>2

\* What the calls of a run meet - takeovers, crashes, hand-backs, ends - is what the
\* run's contract allows, which RunExecution implements (lifecycle.ts).
THEOREM RunsKeepContract == Spec => ImplementsRunContract
<1>1. Init => Run!Init
  <2> SUFFICES ASSUME Init PROVE Run!Init
    OBVIOUS
  <2>1. Fresh = Exec /\ AtWork = {}
    BY DEF Init, Fresh, AtWork
  <2> QED BY <2>1 DEF Init, Run!Init
<1>2. TypeOK /\ [Next]_vars => [Run!Next]_(Run!contractVars)
  <2> SUFFICES ASSUME TypeOK, [Next]_vars PROVE [Run!Next]_(Run!contractVars)
    OBVIOUS
  <2>1. PhaseTyped
    BY TypeParts
  <2>2. CASE UNCHANGED vars
    BY <2>2, UnseenInContract DEF vars, loopVars
  <2>3. CASE Next
    BY <2>1, <2>3, LoopInContract, CallInContract DEF Next
  <2> QED BY <2>2, <2>3
<1>3. Spec => [][Run!Next]_(Run!contractVars)
  BY <1>2, TypeCorrect, PTL DEF Spec
<1> QED
  BY <1>1, <1>3 DEF ImplementsRunContract, Run!Spec, Spec
=============================================================================
