--------------------------- MODULE JobQueueProofs ---------------------------
(***************************************************************************)
(* Proofs about JobQueue, for every number of workers, jobs, attempts,     *)
(* retries and deaths.                                                     *)
(***************************************************************************)
EXTENDS JobQueue, TLAPS

USE DEF MaxMisses

-----------------------------------------------------------------------------
(* Types.  A loop past its claim holds one: without that the settle it     *)
(* issues would have no job to name, so the two are proved together.       *)

HasClaim == \A w \in Worker : phase[w] \in {"granted", "running", "settling"}
                                => claim[w] \in Claim

TInv == TypeOK /\ HasClaim

\* The initial state is well typed.
LEMMA InitTInv == Init => TInv
BY BoundsAssumption DEF Init, TInv, TypeOK, HasClaim, AbsentRow, Row, Claim

\* What a statement of a claim is.
LEMMA StmtType ==
    ASSUME NEW k \in {"ack", "nack", "retry", "renew"}, NEW c \in Claim, NEW w \in Worker
    PROVE  /\ Stmt(k, c, w) \in Statement
           /\ ClaimOf(Stmt(k, c, w)) = c
           /\ Stmt(k, c, w).kind = k
           /\ Stmt(k, c, w).by = w
BY DEF Stmt, Statement, Claim, ClaimOf

\* runClaimedJob decides on one of the three settles.
LEMMA OutcomeType == ASSUME NEW w, NEW result
                     PROVE  Outcome(w, result) \in {"ack", "nack", "retry"}
BY DEF Outcome

\* What a settle that matched its row leaves in it.
LEMMA SettleType ==
    ASSUME NEW s \in Statement, IsSettle(s), NEW r \in Row, r.status = "processing"
    PROVE  /\ Settle(s, r) \in Row
           /\ Settle(s, r).attempt = r.attempt
           /\ s.kind = "ack" => Settle(s, r).status = "done" /\ Settle(s, r).max = r.max
           /\ s.kind = "retry" => Settle(s, r).status = "pending" /\ Settle(s, r).max = r.max + 1
           /\ s.kind = "nack" => /\ Settle(s, r).max = r.max
                                 /\ r.attempt >= r.max => Settle(s, r).status = "dead"
                                 /\ ~(r.attempt >= r.max) => Settle(s, r).status = "pending"
<1> USE DEF Statement, IsSettle, Row
<1>1. CASE s.kind = "ack"
  <2>1. Settle(s, r) = [r EXCEPT !.status = "done", !.lock = "none"]
    BY <1>1 DEF Settle
  <2> QED
    BY <1>1, <2>1
<1>2. CASE s.kind = "retry"
  <2>1. Settle(s, r) = [r EXCEPT !.status = "pending", !.lock = "none", !.max = @ + 1, !.due = FALSE]
    BY <1>2 DEF Settle
  <2>2. Settle(s, r) = [status |-> "pending", attempt |-> r.attempt, max |-> r.max + 1,
                        lock |-> "none", due |-> FALSE]
    BY <2>1
  <2> QED
    BY <1>2, <2>2
<1>3. CASE s.kind = "nack"
  <2>1. Settle(s, r) = [r EXCEPT !.lock = "none",
                                 !.status = IF r.attempt >= r.max THEN "dead" ELSE "pending"]
    BY <1>3 DEF Settle
  <2>2. CASE r.attempt >= r.max
    <3>1. Settle(s, r) = [r EXCEPT !.lock = "none", !.status = "dead"]
      BY <2>1, <2>2
    <3> QED
      BY <1>3, <2>2, <3>1
  <2>3. CASE ~(r.attempt >= r.max)
    <3>1. Settle(s, r) = [r EXCEPT !.lock = "none", !.status = "pending"]
      BY <2>1, <2>3
    <3> QED
      BY <1>3, <2>3, <3>1
  <2> QED
    BY <2>2, <2>3
<1> QED
  BY <1>1, <1>2, <1>3

\* Every step keeps the types.
LEMMA StepTInv == TInv /\ [Next]_vars => TInv'
<1> SUFFICES ASSUME TInv, [Next]_vars PROVE TInv'
  OBVIOUS
<1> USE DEF TInv, TypeOK, HasClaim
<1>1. ASSUME NEW j \in Job, NEW delayed \in BOOLEAN, Enqueue(j, delayed) PROVE TInv'
  BY <1>1, MaxAttemptsAssumption DEF Enqueue, Row, procVars, memVars, history
<1>2. ASSUME NEW j \in Job, BecomeDue(j) PROVE TInv'
  BY <1>2 DEF BecomeDue, Row, procVars, memVars, history
<1>3. ASSUME NEW j \in Job, LockExpires(j) PROVE TInv'
  BY <1>3 DEF LockExpires, Row, procVars, memVars, history
<1>4. CASE DeadSweep
  <2>1. \A r \in Row : [r EXCEPT !.status = "dead", !.lock = "none"] \in Row
    BY DEF Row
  <2>2. row' \in [Job -> Row]
    BY <1>4, <2>1 DEF DeadSweep
  <2> QED
    BY <1>4, <2>2 DEF DeadSweep, procVars, memVars, history
<1>5. ASSUME NEW w \in Worker, ClaimSend(w) PROVE TInv'
  BY <1>5 DEF ClaimSend, procVars, history
<1>6. ASSUME NEW w \in Worker, NEW j \in Job, ClaimLand(w, j) PROVE TInv'
  <2>1. row' \in [Job -> Row]
    BY <1>6 DEF ClaimLand, NextAttempt, Row
  <2>2. claim' \in [Worker -> Claim \cup {NoClaim}] /\ claim'[w] \in Claim
    BY <1>6 DEF ClaimLand, NextAttempt, Row, Claim
  <2> QED
    BY <1>6, <2>1, <2>2 DEF ClaimLand, procVars, history
<1>7. ASSUME NEW w \in Worker, ClaimNothing(w) PROVE TInv'
  BY <1>7 DEF ClaimNothing, procVars, history
<1>8. ASSUME NEW w \in Worker, StartHandler(w) PROVE TInv'
  BY <1>8 DEF StartHandler, procVars, history
<1>9. ASSUME NEW w \in Worker, LoseClaimReply(w) PROVE TInv'
  BY <1>9 DEF LoseClaimReply, Forget, procVars, history
<1>10. ASSUME NEW w \in Worker, NEW result \in {"ok", "throw", "retry"}, HandlerReturns(w, result)
       PROVE TInv'
  <2>1. claim[w] \in Claim
    BY <1>10 DEF HandlerReturns
  <2>2. Stmt(Outcome(w, result), claim[w], w) \in Statement
    BY <2>1, StmtType, OutcomeType
  <2> QED
    BY <1>10, <2>1, <2>2 DEF HandlerReturns, Forget, procVars
<1>11. ASSUME NEW w \in Worker, RenewSend(w) PROVE TInv'
  <2>1. Stmt("renew", claim[w], w) \in Statement
    BY <1>11, StmtType DEF RenewSend
  <2> QED
    BY <1>11, <2>1 DEF RenewSend, procVars, memVars, history
<1>12. ASSUME NEW s \in wire, SettleLands(s) PROVE TInv'
  <2>1. s \in Statement /\ s.job \in Job /\ s.by \in Worker
    BY DEF Statement
  <2>2. row' \in [Job -> Row]
    BY <1>12, <2>1, SettleType DEF SettleLands, Fenced, Matches, ClaimOf
  <2> QED
    BY <1>12, <2>1, <2>2 DEF SettleLands, Answered, Forget, procVars, history
<1>13. ASSUME NEW s \in wire, SettleFails(s) PROVE TInv'
  BY <1>13 DEF SettleFails, Answered, Forget, procVars, history
<1>14. ASSUME NEW s \in wire, NEW replied \in BOOLEAN, RenewLands(s, replied) PROVE TInv'
  <2>1. s \in Statement /\ s.job \in Job /\ s.by \in Worker
    BY DEF Statement
  <2>2. row' \in [Job -> Row]
    BY <1>14, <2>1 DEF RenewLands, Row
  <2>3. misses' \in [Worker -> 0..MaxMisses]
    BY <1>14, <2>1 DEF RenewLands, CountRenewal, Lost
  <2> QED
    BY <1>14, <2>2, <2>3 DEF RenewLands, procVars, history
<1>15. ASSUME NEW s \in wire, RenewFails(s) PROVE TInv'
  <2>1. s.by \in Worker
    BY DEF Statement
  <2>2. misses' \in [Worker -> 0..MaxMisses]
    BY <1>15, <2>1 DEF RenewFails, CountRenewal, Lost
  <2> QED
    BY <1>15, <2>2 DEF RenewFails, procVars, history
<1>16. ASSUME NEW w \in Worker, Stop(w) PROVE TInv'
  BY <1>16, BoundsAssumption DEF Stop, memVars, history
<1>17. ASSUME NEW w \in Worker, Abandon(w) PROVE TInv'
  <2>1. CASE Undecided(w)
    <3>1. Stmt("nack", claim[w], w) \in Statement
      BY <2>1, StmtType DEF Undecided
    <3> QED
      BY <1>17, <2>1, <3>1 DEF Abandon
  <2>2. CASE ~Undecided(w)
    BY <1>17, <2>2 DEF Abandon
  <2> QED
    BY <2>1, <2>2
<1>18. ASSUME NEW w \in Worker, Exit(w) PROVE TInv'
  BY <1>18 DEF Exit, Die, Forget, history
<1>19. ASSUME NEW w \in Worker, Crash(w) PROVE TInv'
  BY <1>19, BoundsAssumption DEF Crash, Die, Forget, history
<1>20. ASSUME NEW w \in Worker, Restart(w) PROVE TInv'
  BY <1>20 DEF Restart, memVars, history
<1>21. CASE UNCHANGED vars
  BY <1>21 DEF vars, procVars, memVars, history
<1> QED
  BY <1>1, <1>2, <1>3, <1>4, <1>5, <1>6, <1>7, <1>8, <1>9, <1>10, <1>11, <1>12, <1>13,
     <1>14, <1>15, <1>16, <1>17, <1>18, <1>19, <1>20, <1>21 DEF Next

\* Every reachable state of the queue and its workers is well typed.
THEOREM TypeCorrect == Spec => []TypeOK
<1>1. TInv => TypeOK
  BY DEF TInv
<1> QED
  BY <1>1, InitTInv, StepTInv, PTL DEF Spec

-----------------------------------------------------------------------------
(* The inductive invariant.                                                *)
(*                                                                         *)
(* The fences compare attempt numbers, so their strength is that a row's   *)
(* number only grows and that no claim or statement is ahead of it.  The   *)
(* settle gate is FreshGate: as long as nobody in a process decided about  *)
(* its claim, no settle of that claim exists anywhere.                     *)

RowSound ==
    \A j \in Job :
        /\ row[j].status # "processing" => row[j].lock = "none"
        /\ row[j].status = "absent" => row[j].attempt = 0 /\ row[j].max = 0
        /\ row[j].status # "absent" => row[j].max >= MaxAttempts
        /\ row[j].attempt <= row[j].max
        /\ row[j].status = "pending" => row[j].attempt < row[j].max
        /\ row[j].status = "dead" => row[j].attempt = row[j].max

ClaimSound ==
    \A w \in Worker : claim[w] # NoClaim =>
        /\ phase[w] \in {"granted", "running", "settling"}
        /\ claim[w].attempt <= row[claim[w].job].attempt

SentSound ==
    /\ \A s \in sent : /\ IsSettle(s)
                       /\ s.attempt <= row[s.job].attempt
                       /\ s.kind = "ack" => ClaimOf(s) \in finished
    /\ \A s \in wire : IsSettle(s) => s \in sent

FreshGate ==
    \A w \in Worker : phase[w] = "granted" \/ Undecided(w) =>
        \A s \in sent : ClaimOf(s) # claim[w]

IInv ==
    /\ RowSound
    /\ ClaimSound
    /\ ClaimIsExclusive
    /\ SentSound
    /\ FreshGate
    /\ OneSettlePerClaim
    /\ DoneByItsAttempt

\* The invariant holds at the start.
LEMMA InitIInv == Init => IInv
BY NoClaimAssumption DEF Init, IInv, RowSound, ClaimSound, ClaimIsExclusive, SentSound, FreshGate,
   OneSettlePerClaim, DoneByItsAttempt, AbsentRow, Undecided

\* What a change of the table must respect for every part but RowSound: no
\* attempt number goes back, and a row that becomes done was finished.
RowForward ==
    \A j \in Job : /\ row[j].attempt <= row'[j].attempt
                   /\ row'[j].status = "done" =>
                        [job |-> j, attempt |-> row'[j].attempt] \in finished'

\* Steps that issue no settle: each loop is left alone or comes out without a
\* claim, and the table moves forward.
LoopKept(w) == phase'[w] = phase[w] /\ claim'[w] = claim[w] /\ gate'[w] = gate[w]

LoopFreed(w) == phase'[w] \in {"idle", "claiming"} /\ claim'[w] = NoClaim

LEMMA QuietStep ==
    ASSUME TInv, TInv', IInv, RowForward, RowSound',
           sent' = sent, finished \subseteq finished',
           \A s \in wire' : IsSettle(s) => s \in wire,
           \A w \in Worker : LoopKept(w) \/ LoopFreed(w)
    PROVE  IInv'
<1> USE DEF IInv
<1>1. ClaimSound'
  <2> SUFFICES ASSUME NEW w \in Worker, claim'[w] # NoClaim
               PROVE  /\ phase'[w] \in {"granted", "running", "settling"}
                      /\ claim'[w].attempt <= row'[claim'[w].job].attempt
    BY DEF ClaimSound
  <2>1. /\ claim'[w] = claim[w] /\ phase'[w] = phase[w]
        /\ claim[w] \in Claim /\ claim[w].attempt <= row[claim[w].job].attempt
    BY DEF TInv, TypeOK, ClaimSound, LoopKept, LoopFreed
  <2>2. claim[w].job \in Job /\ row[claim[w].job].attempt <= row'[claim[w].job].attempt
    BY <2>1 DEF RowForward, Claim
  <2>3. row[claim[w].job].attempt \in Nat /\ row'[claim[w].job].attempt \in Nat
    BY <2>2 DEF TInv, TypeOK, Row
  <2> QED
    BY <2>1, <2>2, <2>3 DEF Claim, ClaimSound
<1>2. ClaimIsExclusive'
  BY DEF ClaimIsExclusive, LoopKept, LoopFreed
<1>3. SentSound'
  <2>1. ASSUME NEW s \in sent PROVE s.attempt <= row'[s.job].attempt
    <3>1. s.job \in Job /\ s.attempt \in Nat
      BY DEF TInv, TypeOK, Statement
    <3>2. row[s.job].attempt \in Nat /\ row'[s.job].attempt \in Nat
      BY <3>1 DEF TInv, TypeOK, Row
    <3>3. s.attempt <= row[s.job].attempt /\ row[s.job].attempt <= row'[s.job].attempt
      BY <3>1 DEF SentSound, RowForward
    <3> QED
      BY <3>1, <3>2, <3>3
  <2> QED
    BY <2>1 DEF SentSound
<1>4. FreshGate'
  BY DEF FreshGate, Undecided, LoopKept, LoopFreed
<1>5. OneSettlePerClaim'
  BY DEF OneSettlePerClaim
<1>6. DoneByItsAttempt'
  BY DEF DoneByItsAttempt, RowForward
<1> QED
  BY <1>1, <1>2, <1>3, <1>4, <1>5, <1>6

\* Steps that pass the settle gate: the first settle of a claim is issued.
LEMMA DecisionStep ==
    ASSUME TInv, IInv, UNCHANGED <<row, claim>>,
           NEW w \in Worker, Undecided(w),
           NEW t \in Statement, IsSettle(t), ClaimOf(t) = claim[w],
           sent' = sent \cup {t}, wire' = wire \cup {t}, finished \subseteq finished',
           t.kind = "ack" => claim[w] \in finished',
           gate' = [gate EXCEPT ![w] = TRUE],
           \/ phase' = phase
           \/ phase' = [phase EXCEPT ![w] = "settling"]
    PROVE  IInv'
<1> USE DEF IInv
<1>0. /\ claim[w] \in Claim /\ claim[w] # NoClaim /\ phase[w] = "running"
      /\ \A v \in Worker \ {w} : phase'[v] = phase[v] /\ gate'[v] = gate[v]
      /\ phase'[w] \in {"running", "settling"} /\ gate'[w] = TRUE
  BY NoClaimAssumption DEF TInv, TypeOK, HasClaim, Undecided
<1>1. RowSound'
  BY DEF RowSound
<1>2. ClaimSound'
  BY <1>0 DEF ClaimSound
<1>3. ClaimIsExclusive'
  BY DEF ClaimIsExclusive
<1>4. SentSound'
  <2>1. t.job = claim[w].job /\ t.attempt = claim[w].attempt
    BY DEF ClaimOf
  <2>2. t.attempt <= row[t.job].attempt
    BY <1>0, <2>1 DEF ClaimSound
  <2> QED
    BY <2>2 DEF SentSound
<1>5. FreshGate'
  <2> SUFFICES ASSUME NEW v \in Worker, (phase[v] = "granted" \/ Undecided(v))',
                      NEW s \in sent'
               PROVE  ClaimOf(s) # claim[v]
    BY DEF FreshGate
  <2>1. v # w /\ (phase[v] = "granted" \/ Undecided(v))
    BY <1>0 DEF Undecided
  <2>2. claim[v] # claim[w]
    BY <1>0, <2>1 DEF ClaimIsExclusive
  <2> QED
    BY <2>1, <2>2 DEF FreshGate
<1>6. OneSettlePerClaim'
  <2>1. \A s \in sent : ClaimOf(s) # ClaimOf(t)
    BY DEF FreshGate
  <2> QED
    BY <2>1 DEF OneSettlePerClaim
<1>7. DoneByItsAttempt'
  BY DEF DoneByItsAttempt
<1> QED
  BY <1>1, <1>2, <1>3, <1>4, <1>5, <1>6, <1>7

\* Every step keeps the invariant.
LEMMA StepIInv == TInv /\ IInv /\ [Next]_vars => IInv'
<1> SUFFICES ASSUME TInv, IInv, [Next]_vars PROVE IInv'
  OBVIOUS
<1>0. TInv'
  BY StepTInv
<1>s. /\ \A j \in Job : row[j] \in Row
      /\ \A w \in Worker : claim[w] # NoClaim => phase[w] \in {"granted", "running", "settling"}
      /\ \A w \in Worker : phase[w] \in {"granted", "running", "settling"} => claim[w] \in Claim
      /\ \A s \in wire \cup sent : s \in Statement
  BY DEF TInv, TypeOK, HasClaim, IInv, ClaimSound
<1>i. RowSound /\ DoneByItsAttempt
  BY DEF IInv
<1>1. ASSUME NEW j \in Job, NEW delayed \in BOOLEAN, Enqueue(j, delayed) PROVE IInv'
  <2> USE <1>1, <1>s, <1>i DEF Enqueue, KeyFree, procVars, memVars, history
  <2>1. RowSound'
    BY MaxAttemptsAssumption DEF RowSound, TInv, TypeOK
  <2>2. RowForward
    BY DEF RowForward, RowSound, TInv, TypeOK, DoneByItsAttempt, Row
  <2> QED
    BY <1>0, <2>1, <2>2, QuietStep DEF LoopKept
<1>2. ASSUME NEW j \in Job, BecomeDue(j) PROVE IInv'
  <2> USE <1>2, <1>s, <1>i DEF BecomeDue, procVars, memVars, history
  <2>1. RowSound'
    BY DEF RowSound, TInv, TypeOK, Row
  <2>2. RowForward
    BY DEF RowForward, TInv, TypeOK, DoneByItsAttempt, Row
  <2> QED
    BY <1>0, <2>1, <2>2, QuietStep DEF LoopKept
<1>3. ASSUME NEW j \in Job, LockExpires(j) PROVE IInv'
  <2> USE <1>3, <1>s, <1>i DEF LockExpires, procVars, memVars, history
  <2>1. RowSound'
    BY DEF RowSound, TInv, TypeOK, Row
  <2>2. RowForward
    BY DEF RowForward, TInv, TypeOK, DoneByItsAttempt, Row
  <2> QED
    BY <1>0, <2>1, <2>2, QuietStep DEF LoopKept
<1>4. CASE DeadSweep
  <2>0. ASSUME NEW j \in Job
        PROVE  \/ row'[j] = row[j]
               \/ /\ row'[j].status = "dead" /\ row'[j].lock = "none"
                  /\ row'[j].attempt = row[j].attempt /\ row'[j].max = row[j].max
                  /\ row[j].status = "processing" /\ row[j].attempt >= row[j].max
    BY <1>4, <1>s DEF DeadSweep, Expendable, Row
  <2>t. \A j \in Job : row[j].attempt \in Nat /\ row[j].max \in Nat
    BY <1>s DEF Row
  <2>1. RowSound'
    BY <1>i, <2>0, <2>t DEF RowSound
  <2>2. UNCHANGED <<procVars, memVars, wire, history>>
    BY <1>4 DEF DeadSweep
  <2>3. RowForward
    BY <1>i, <2>0, <2>t, <2>2 DEF RowForward, DoneByItsAttempt, history
  <2> QED
    BY <1>0, <2>1, <2>2, <2>3, QuietStep DEF LoopKept, procVars, memVars, history
<1>5. ASSUME NEW w \in Worker, ClaimSend(w) \/ ClaimNothing(w) PROVE IInv'
  <2> USE <1>5, <1>s, <1>i DEF ClaimSend, ClaimNothing, procVars, history
  <2>1. RowSound'
    BY DEF RowSound
  <2>2. RowForward
    BY DEF RowForward, DoneByItsAttempt, Row
  <2>3. \A v \in Worker : LoopKept(v) \/ LoopFreed(v)
    BY DEF TInv, TypeOK, LoopKept, LoopFreed
  <2> QED
    BY <1>0, <2>1, <2>2, <2>3, QuietStep
<1>6. ASSUME NEW w \in Worker, RenewSend(w) PROVE IInv'
  <2> USE <1>6, <1>s, <1>i DEF RenewSend, procVars, memVars, history
  <2>1. RowSound'
    BY DEF RowSound
  <2>2. RowForward
    BY DEF RowForward, DoneByItsAttempt, Row
  <2>3. \A s \in wire' : IsSettle(s) => s \in wire
    BY StmtType DEF IsSettle
  <2> QED
    BY <1>0, <2>1, <2>2, <2>3, QuietStep DEF LoopKept
<1>7. ASSUME NEW s \in wire, NEW replied \in BOOLEAN, RenewLands(s, replied) PROVE IInv'
  <2> USE <1>7, <1>s, <1>i DEF RenewLands, procVars, history
  <2>0. s.job \in Job /\ (Renews(s) => row[s.job].status = "processing")
    BY DEF Statement, Renews, Fenced, Matches, ClaimOf
  <2>1. RowSound'
    BY <2>0 DEF RowSound, TInv, TypeOK, Row
  <2>2. RowForward
    BY <2>0 DEF RowForward, TInv, TypeOK, DoneByItsAttempt, Row
  <2> QED
    BY <1>0, <2>1, <2>2, QuietStep DEF LoopKept
<1>8. ASSUME NEW s \in wire, RenewFails(s) PROVE IInv'
  <2> USE <1>8, <1>s, <1>i DEF RenewFails, procVars, history
  <2>1. RowSound'
    BY DEF RowSound
  <2>2. RowForward
    BY DEF RowForward, DoneByItsAttempt, Row
  <2> QED
    BY <1>0, <2>1, <2>2, QuietStep DEF LoopKept
<1>9. ASSUME NEW w \in Worker, Stop(w) \/ Restart(w) PROVE IInv'
  <2> USE <1>9, <1>s, <1>i DEF Stop, Restart, memVars, history
  <2>1. RowSound'
    BY DEF RowSound
  <2>2. RowForward
    BY DEF RowForward, DoneByItsAttempt, Row
  <2> QED
    BY <1>0, <2>1, <2>2, QuietStep DEF LoopKept
<1>10. CASE UNCHANGED vars
  BY <1>10 DEF vars, procVars, memVars, history, IInv, RowSound, ClaimSound, ClaimIsExclusive,
     SentSound, FreshGate, OneSettlePerClaim, DoneByItsAttempt, Undecided
<1>11. ASSUME NEW w \in Worker, LoseClaimReply(w) PROVE IInv'
  <2> USE <1>11, <1>s, <1>i DEF LoseClaimReply, Forget, procVars, history
  <2>1. RowSound'
    BY DEF RowSound
  <2>2. RowForward
    BY DEF RowForward, DoneByItsAttempt, Row
  <2>3. \A v \in Worker : LoopKept(v) \/ LoopFreed(v)
    BY DEF TInv, TypeOK, LoopKept, LoopFreed
  <2> QED
    BY <1>0, <2>1, <2>2, <2>3, QuietStep
<1>12. ASSUME NEW w \in Worker, Exit(w) \/ Crash(w) PROVE IInv'
  <2> USE <1>12, <1>s, <1>i DEF Exit, Crash, Die, Forget, history
  <2>1. RowSound'
    BY DEF RowSound
  <2>2. RowForward
    BY DEF RowForward, DoneByItsAttempt, Row
  <2>3. \A v \in Worker : LoopKept(v) \/ LoopFreed(v)
    BY DEF TInv, TypeOK, LoopKept, LoopFreed
  <2> QED
    BY <1>0, <2>1, <2>2, <2>3, QuietStep
<1>13. ASSUME NEW s \in wire, SettleFails(s) PROVE IInv'
  <2> USE <1>13, <1>s, <1>i DEF SettleFails, Answered, Forget, procVars, history
  <2>1. RowSound'
    BY DEF RowSound
  <2>2. RowForward
    BY DEF RowForward, DoneByItsAttempt, Row
  <2>3. \A v \in Worker : LoopKept(v) \/ LoopFreed(v)
    BY DEF TInv, TypeOK, LoopKept, LoopFreed
  <2> QED
    BY <1>0, <2>1, <2>2, <2>3, QuietStep
<1>14. ASSUME NEW s \in wire, SettleLands(s) PROVE IInv'
  <2> USE <1>14, <1>s DEF SettleLands, Answered, Forget, procVars, history
  <2>0. s \in sent /\ s.job \in Job /\ (s.kind = "ack" => ClaimOf(s) \in finished)
    BY DEF IInv, SentSound, Statement
  <2>3. \A v \in Worker : LoopKept(v) \/ LoopFreed(v)
    BY DEF TInv, TypeOK, LoopKept, LoopFreed
  <2>4. CASE ~Fenced(ClaimOf(s))
    <3>1. RowSound'
      BY <1>i, <2>4 DEF RowSound
    <3>2. RowForward
      BY <1>i, <2>4 DEF RowForward, DoneByItsAttempt, Row
    <3> QED
      BY <1>0, <2>3, <3>1, <3>2, QuietStep
  <2>5. CASE Fenced(ClaimOf(s))
    <3> DEFINE r == row[s.job]
    <3>1. /\ r \in Row /\ r.status = "processing" /\ ClaimOf(s) = [job |-> s.job, attempt |-> r.attempt]
          /\ row' = [row EXCEPT ![s.job] = Settle(s, r)]
      BY <2>0, <2>5 DEF Fenced, Matches, ClaimOf
    <3>2. row'[s.job] = Settle(s, r) /\ \A j \in Job \ {s.job} : row'[j] = row[j]
      BY <2>0, <3>1 DEF TInv, TypeOK
    <3>3. RowSound'
      <4> SUFFICES ASSUME NEW j \in Job
                   PROVE  /\ row'[j].status # "processing" => row'[j].lock = "none"
                          /\ row'[j].status = "absent" => row'[j].attempt = 0 /\ row'[j].max = 0
                          /\ row'[j].status # "absent" => row'[j].max >= MaxAttempts
                          /\ row'[j].attempt <= row'[j].max
                          /\ row'[j].status = "pending" => row'[j].attempt < row'[j].max
                          /\ row'[j].status = "dead" => row'[j].attempt = row'[j].max
        BY DEF RowSound
      <4>1. CASE j # s.job
        BY <1>i, <3>2, <4>1 DEF RowSound
      <4>2. CASE j = s.job
        <5>1. r.max >= MaxAttempts /\ r.attempt <= r.max
          BY <1>i, <2>0, <3>1 DEF RowSound
        <5>2. Settle(s, r).lock = "none"
          BY <2>0 DEF Settle, Statement, IsSettle
        <5>3. s.kind \in {"ack", "nack", "retry"}
          BY DEF IsSettle, Statement
        <5> QED
          BY <3>1, <3>2, <4>2, <5>1, <5>2, <5>3, SettleType, MaxAttemptsAssumption DEF Row
      <4> QED
        BY <4>1, <4>2
    <3>4. RowForward
      BY <1>i, <2>0, <3>1, <3>2, SettleType DEF RowForward, DoneByItsAttempt, Row, IsSettle, Statement
    <3> QED
      BY <1>0, <2>3, <3>3, <3>4, QuietStep
  <2> QED
    BY <2>4, <2>5
<1>15. ASSUME NEW w \in Worker, NEW result \in {"ok", "throw", "retry"}, HandlerReturns(w, result)
       PROVE IInv'
  <2> USE <1>15, <1>s, <1>i DEF HandlerReturns, procVars
  <2>1. CASE gate[w]
    <3>1. RowSound'
      BY DEF RowSound
    <3>2. RowForward
      BY DEF RowForward, DoneByItsAttempt, Row
    <3>3. \A v \in Worker : LoopKept(v) \/ LoopFreed(v)
      BY <2>1 DEF Forget, TInv, TypeOK, LoopKept, LoopFreed
    <3> QED
      BY <1>0, <2>1, <3>1, <3>2, <3>3, QuietStep
  <2>2. CASE ~gate[w]
    <3> DEFINE t == Stmt(Outcome(w, result), claim[w], w)
    <3>1. t \in Statement /\ ClaimOf(t) = claim[w] /\ t.kind = Outcome(w, result) /\ IsSettle(t)
      BY StmtType, OutcomeType DEF IsSettle
    <3>2. t.kind = "ack" => claim[w] \in finished'
      BY <3>1 DEF Outcome
    <3>3. Undecided(w) /\ finished \subseteq finished'
      BY <2>2 DEF Undecided
    <3> HIDE DEF t
    <3> QED
      BY <2>2, <3>1, <3>2, <3>3, DecisionStep DEF t
  <2> QED
    BY <2>1, <2>2
<1>16. ASSUME NEW w \in Worker, Abandon(w) PROVE IInv'
  <2> USE <1>16, <1>s, <1>i DEF Abandon
  <2>1. CASE ~Undecided(w)
    <3>1. RowSound'
      BY DEF RowSound
    <3>2. RowForward
      BY DEF RowForward, DoneByItsAttempt, Row
    <3> QED
      BY <1>0, <2>1, <3>1, <3>2, QuietStep DEF LoopKept
  <2>2. CASE Undecided(w)
    <3> DEFINE t == Stmt("nack", claim[w], w)
    <3>1. t \in Statement /\ ClaimOf(t) = claim[w] /\ t.kind = "nack" /\ IsSettle(t)
      BY <2>2, StmtType DEF IsSettle, Undecided
    <3> HIDE DEF t
    <3> QED
      BY <2>2, <3>1, DecisionStep DEF t
  <2> QED
    BY <2>1, <2>2
<1>17. ASSUME NEW w \in Worker, StartHandler(w) PROVE IInv'
  <2> USE <1>17, <1>s DEF StartHandler, procVars, history, IInv
  <2>1. RowSound' /\ ClaimIsExclusive' /\ SentSound' /\ OneSettlePerClaim' /\ DoneByItsAttempt'
    BY DEF RowSound, ClaimIsExclusive, SentSound, OneSettlePerClaim, DoneByItsAttempt
  <2>2. ClaimSound'
    BY DEF ClaimSound, TInv, TypeOK
  <2>3. FreshGate'
    BY DEF FreshGate, Undecided, TInv, TypeOK
  <2> QED
    BY <2>1, <2>2, <2>3
<1>18. ASSUME NEW w \in Worker, NEW j \in Job, ClaimLand(w, j) PROVE IInv'
  <2> DEFINE c == [job |-> j, attempt |-> row[j].attempt + 1]
             r == [row[j] EXCEPT !.status = "processing", !.attempt = @ + 1, !.lock = "live"]
  <2> USE <1>s DEF IInv
  <2>1. /\ claim' = [claim EXCEPT ![w] = c] /\ phase' = [phase EXCEPT ![w] = "granted"]
        /\ row' = [row EXCEPT ![j] = r] /\ phase[w] = "claiming" /\ Claimable(j)
        /\ UNCHANGED <<gate, wire, sent, finished>>
    BY <1>18 DEF ClaimLand, NextAttempt, memVars, history, TInv, TypeOK
  <2>2. /\ r.attempt = row[j].attempt + 1 /\ r.attempt \in Nat /\ r.max = row[j].max
        /\ r.status = "processing" /\ row[j].attempt < row[j].max
        /\ row[j].status \in {"pending", "processing"}
    BY <2>1 DEF Row, Claimable, RowSound
  <2>3. /\ row'[j] = r /\ claim'[w] = c /\ phase'[w] = "granted"
        /\ \A i \in Job \ {j} : row'[i] = row[i]
        /\ \A v \in Worker \ {w} : claim'[v] = claim[v] /\ phase'[v] = phase[v]
    BY <2>1 DEF TInv, TypeOK
  <2> HIDE DEF r
  <2>4. \A i \in Job : row[i].attempt \in Nat /\ row[i].attempt <= row'[i].attempt
    BY <2>2, <2>3 DEF Row
  <2>5. RowSound'
    BY <2>2, <2>3 DEF RowSound, Row
  <2>6. ClaimSound'
    <3> SUFFICES ASSUME NEW v \in Worker, claim'[v] # NoClaim
                 PROVE  /\ phase'[v] \in {"granted", "running", "settling"}
                        /\ claim'[v].attempt <= row'[claim'[v].job].attempt
      BY DEF ClaimSound
    <3>1. CASE v = w
      BY <2>2, <2>3, <3>1
    <3>2. CASE v # w
      <4>1. claim[v] # NoClaim /\ claim[v] \in Claim
        BY <2>3, <3>2
      <4>2. claim[v].attempt <= row[claim[v].job].attempt
        BY <4>1 DEF ClaimSound
      <4>3. claim[v].job \in Job /\ claim[v].attempt \in Nat
        BY <4>1 DEF Claim
      <4>4. row'[claim[v].job].attempt \in Nat
        BY <2>2, <2>3, <4>3 DEF Row
      <4> QED
        BY <2>3, <2>4, <3>2, <4>1, <4>2, <4>3, <4>4
    <3> QED
      BY <3>1, <3>2
  <2>7. \A x \in Claim : x.attempt <= row[x.job].attempt => x # c
    <3> SUFFICES ASSUME NEW x \in Claim, x = c PROVE ~(x.attempt <= row[x.job].attempt)
      OBVIOUS
    <3>1. x.job = j /\ x.attempt = row[j].attempt + 1
      OBVIOUS
    <3>2. row[j].attempt \in Nat
      BY DEF Row
    <3> QED
      BY <3>1, <3>2
  <2>8. ClaimIsExclusive'
    <3>1. \A v \in Worker \ {w} : claim[v] # NoClaim => claim[v] # c
      BY <2>7 DEF ClaimSound
    <3>2. c # NoClaim
      BY <2>2, NoClaimAssumption DEF Claim
    <3> HIDE DEF c
    <3> QED
      BY <2>3, <3>1, <3>2 DEF ClaimIsExclusive
  <2>9. \A s \in sent : ClaimOf(s) \in Claim /\ ClaimOf(s) # c
    <3> SUFFICES ASSUME NEW s \in sent PROVE ClaimOf(s) \in Claim /\ ClaimOf(s) # c
      OBVIOUS
    <3>1. ClaimOf(s) \in Claim /\ ClaimOf(s).job = s.job /\ ClaimOf(s).attempt = s.attempt
      BY DEF ClaimOf, Statement, Claim
    <3>2. s.attempt <= row[s.job].attempt
      BY DEF SentSound
    <3> HIDE DEF c
    <3> QED
      BY <2>7, <3>1, <3>2
  <2>10. FreshGate'
    <3> HIDE DEF c
    <3> QED
      BY <2>1, <2>3, <2>9 DEF FreshGate, Undecided
  <2>11. SentSound'
    <3>1. \A s \in sent : s.attempt <= row'[s.job].attempt
      BY <2>2, <2>3, <2>4 DEF SentSound, Statement
    <3> QED
      BY <2>1, <3>1 DEF SentSound
  <2>12. OneSettlePerClaim'
    BY <2>1 DEF OneSettlePerClaim
  <2>13. DoneByItsAttempt'
    BY <2>1, <2>2, <2>3 DEF DoneByItsAttempt
  <2> QED
    BY <2>5, <2>6, <2>8, <2>10, <2>11, <2>12, <2>13
<1> QED
  BY <1>1, <1>2, <1>3, <1>4, <1>5, <1>6, <1>7, <1>8, <1>9, <1>10, <1>11, <1>12, <1>13,
     <1>14, <1>15, <1>16, <1>17, <1>18 DEF Next

\* The invariant holds in every reachable state.
LEMMA Inductive == Spec => [](TInv /\ IInv)
BY InitTInv, InitIInv, StepTInv, StepIInv, PTL DEF Spec

\* No two processes hold the same claim.
THEOREM ClaimsAreExclusive == Spec => []ClaimIsExclusive
<1>1. TInv /\ IInv => ClaimIsExclusive
  BY DEF IInv
<1> QED
  BY <1>1, Inductive, PTL

\* A done row was acknowledged by the attempt it carries.
THEOREM DoneIsEarned == Spec => []DoneByItsAttempt
<1>1. TInv /\ IInv => DoneByItsAttempt
  BY DEF IInv
<1> QED
  BY <1>1, Inductive, PTL

\* At most one settle is ever issued for a claim.
THEOREM SettlesAreSingle == Spec => []OneSettlePerClaim
<1>1. TInv /\ IInv => OneSettlePerClaim
  BY DEF IInv
<1> QED
  BY <1>1, Inductive, PTL

\* Claims stay inside the retry budget, and dead-lettering waits for its end.
THEOREM BudgetIsRespected == Spec => []BudgetRespected
<1>1. TInv /\ IInv => BudgetRespected
  <2> SUFFICES ASSUME TInv, IInv, NEW j \in Job
               PROVE  /\ row[j].attempt <= row[j].max
                      /\ row[j].status = "pending" => row[j].attempt < row[j].max
                      /\ row[j].status = "dead" => row[j].attempt >= MaxAttempts
                                                   /\ row[j].attempt = row[j].max
    BY DEF BudgetRespected
  <2> QED
    BY DEF IInv, RowSound
<1> QED
  BY <1>1, Inductive, PTL

-----------------------------------------------------------------------------
(* The action properties.                                                  *)

\* What the steps that can change the table do to it.
RowChange ==
    \/ row' = row
    \/ \E j \in Job, delayed \in BOOLEAN : Enqueue(j, delayed)
    \/ \E j \in Job : BecomeDue(j) \/ LockExpires(j) \/ \E w \in Worker : ClaimLand(w, j)
    \/ DeadSweep
    \/ \E s \in wire : SettleLands(s) \/ \E replied \in BOOLEAN : RenewLands(s, replied)

\* Every step is one of those, or leaves the table alone.
LEMMA RowChanges == [Next]_vars => RowChange
BY DEF Next, RowChange, ClaimSend, ClaimNothing, StartHandler, LoseClaimReply, HandlerReturns,
   RenewSend, SettleFails, RenewFails, Stop, Abandon, Exit, Crash, Die, Restart, vars

\* The step form of HolderUndisturbed.
LEMMA HolderStep ==
    TInv /\ IInv /\ [Next]_vars =>
        \A w \in Worker : HoldsUndecided(w) => Matches(row'[claim[w].job], claim[w])
<1> SUFFICES ASSUME TInv, IInv, RowChange, NEW w \in Worker, HoldsUndecided(w)
             PROVE  Matches(row'[claim[w].job], claim[w])
  BY RowChanges
<1> DEFINE c == claim[w]
<1>1. /\ c \in Claim /\ c.job \in Job
      /\ row[c.job].status = "processing" /\ row[c.job].attempt = c.attempt
      /\ row[c.job].lock = "live" /\ row[c.job] \in Row
  BY DEF HoldsUndecided, TInv, TypeOK, HasClaim, Fenced, Matches, Claim
<1>2. \A s \in sent : ClaimOf(s) # c
  BY DEF IInv, FreshGate, HoldsUndecided, Undecided
<1> HIDE DEF c
<1> SUFFICES row'[c.job].status = "processing" /\ row'[c.job].attempt = c.attempt
  BY DEF Matches, c
<1> USE DEF TInv, TypeOK
<1>3. CASE row' = row
  BY <1>1, <1>3
<1>4. ASSUME NEW j \in Job, NEW delayed \in BOOLEAN, Enqueue(j, delayed)
      PROVE  row'[c.job] = row[c.job]
  BY <1>1, <1>4 DEF Enqueue, KeyFree
<1>5. ASSUME NEW j \in Job, BecomeDue(j) PROVE row'[c.job] = row[c.job]
  BY <1>1, <1>5 DEF BecomeDue
<1>6. ASSUME NEW j \in Job, LockExpires(j)
      PROVE  row'[c.job].status = "processing" /\ row'[c.job].attempt = c.attempt
  BY <1>1, <1>6 DEF LockExpires, Row
<1>7. ASSUME NEW j \in Job, NEW v \in Worker, ClaimLand(v, j) PROVE row'[c.job] = row[c.job]
  BY <1>1, <1>7 DEF ClaimLand, Claimable
<1>8. CASE DeadSweep
  <2>1. ~Expendable(c.job)
    BY <1>1 DEF Expendable
  <2> QED
    BY <1>1, <1>8, <2>1 DEF DeadSweep
<1>9. ASSUME NEW s \in wire, SettleLands(s) PROVE row'[c.job] = row[c.job]
  <2>1. IsSettle(s) /\ s \in sent /\ s.job \in Job
    BY <1>9 DEF SettleLands, IInv, SentSound, Statement
  <2>2. CASE s.job = c.job /\ Fenced(ClaimOf(s))
    <3>1. ClaimOf(s) = c
      BY <1>1, <2>2 DEF Fenced, Matches, ClaimOf, Claim
    <3> QED
      BY <1>2, <2>1, <3>1
  <2>3. CASE s.job # c.job \/ ~Fenced(ClaimOf(s))
    BY <1>1, <1>9, <2>1, <2>3 DEF SettleLands
  <2> QED
    BY <2>2, <2>3
<1>10. ASSUME NEW s \in wire, NEW replied \in BOOLEAN, RenewLands(s, replied)
       PROVE  row'[c.job].status = "processing" /\ row'[c.job].attempt = c.attempt
  BY <1>1, <1>10 DEF RenewLands, Row, Statement
<1> QED
  BY <1>1, <1>3, <1>4, <1>5, <1>6, <1>7, <1>8, <1>9, <1>10 DEF RowChange

\* No step of anyone else takes a row from a process that holds it under a
\* live lock and has decided nothing about it.
THEOREM HoldersAreUndisturbed == Spec => HolderUndisturbed
BY HolderStep, Inductive, PTL DEF Spec, HolderUndisturbed

\* The step form of EndIsFinal.
LEMMA EndStep ==
    TInv /\ IInv /\ [Next]_vars =>
        \A j \in Job : row[j].status \in {"done", "dead"} => row'[j] = row[j]
<1> SUFFICES ASSUME TInv, IInv, RowChange, NEW i \in Job, row[i].status \in {"done", "dead"}
             PROVE  row'[i] = row[i]
  BY RowChanges
<1> USE DEF TInv, TypeOK
<1>1. row[i].lock = "none"
  BY DEF IInv, RowSound
<1>2. ASSUME NEW j \in Job, NEW delayed \in BOOLEAN, Enqueue(j, delayed) PROVE row'[i] = row[i]
  BY <1>2 DEF Enqueue, KeyFree
<1>3. ASSUME NEW j \in Job, BecomeDue(j) \/ LockExpires(j) PROVE row'[i] = row[i]
  BY <1>1, <1>3 DEF BecomeDue, LockExpires
<1>4. ASSUME NEW j \in Job, NEW v \in Worker, ClaimLand(v, j) PROVE row'[i] = row[i]
  BY <1>4 DEF ClaimLand, Claimable
<1>5. CASE DeadSweep
  BY <1>5 DEF DeadSweep, Expendable
<1>6. ASSUME NEW s \in wire, NEW replied \in BOOLEAN, SettleLands(s) \/ RenewLands(s, replied)
      PROVE  row'[i] = row[i]
  BY <1>6 DEF SettleLands, RenewLands, Renews, Fenced, Matches, ClaimOf, Statement
<1> QED
  BY <1>2, <1>3, <1>4, <1>5, <1>6 DEF RowChange

\* A done or dead job never changes again.
THEOREM EndsAreFinal == Spec => EndIsFinal
BY EndStep, Inductive, PTL DEF Spec, EndIsFinal

-----------------------------------------------------------------------------
(* The refinement: the claims in memory are the hands of the contract, and  *)
(* the statements in flight are not seen in it at all.                      *)

\* The initial states are initial in the contract: every job is absent.
LEMMA InitContract == Init => Contract!Init
BY DEF Init, AbsentRow, Contract!Init, Contract!Absent, ContractJob, ContractState

\* A step that leaves the contract's view of the table alone.
LEMMA SameView ==
    ASSUME \A j \in Job : /\ ContractState(row'[j]) = ContractState(row[j])
                          /\ row'[j].attempt = row[j].attempt
                          /\ row'[j].max = row[j].max
    PROVE  ContractJob' = ContractJob
BY DEF ContractJob, ContractState

\* A step in which workers drop claims or complete the work of those they hold.
LEMMA LetGoStep ==
    ASSUME TInv, TInv',
           \A w \in Worker : claim'[w] \in {claim[w], NoClaim},
           finished \subseteq finished',
           \A c \in finished' \ finished : c # NoClaim /\ \E w \in Worker : c = claim[w],
           ContractJob' = ContractJob \/ \E j \in Job : Contract!Settle(j)
    PROVE  Contract!Next
<1>1. claim' \in [Worker -> Contract!Held \cup {NoClaim}]
  BY DEF TInv, TypeOK, Contract!Held
<1>2. Contract!LetGo
  BY <1>1 DEF Contract!LetGo, Contract!Held
<1> QED
  BY <1>2 DEF Contract!Next

\* A settle that matches its row is a settle of the contract.
LEMMA SettleStep ==
    ASSUME TInv, TInv', IInv, NEW s \in wire, SettleLands(s), Fenced(ClaimOf(s))
    PROVE  \E j \in Job : Contract!Settle(j)
<1> DEFINE j == s.job
           r == row[j]
           t == Settle(s, r)
           view == [state |-> ContractState(t), delivery |-> r.attempt, allowance |-> t.max]
<1>1. /\ s \in Statement /\ j \in Job /\ IsSettle(s) /\ s.kind \in {"ack", "nack", "retry"}
      /\ s.kind = "ack" => ClaimOf(s) \in finished
  BY DEF SettleLands, IsSettle, Statement, TInv, TypeOK, IInv, SentSound
<1>2. /\ r \in Row /\ r.status = "processing" /\ ClaimOf(s) = [job |-> j, attempt |-> r.attempt]
      /\ r.attempt \in Nat /\ r.max \in Nat /\ r.attempt <= r.max
      /\ row' = [row EXCEPT ![j] = t] /\ finished' = finished
  BY <1>1 DEF SettleLands, history, Fenced, Matches, ClaimOf, TInv, TypeOK, Row, IInv, RowSound
<1>3. /\ t \in Row /\ t.attempt = r.attempt
      /\ s.kind = "ack" => t.status = "done" /\ t.max = r.max
      /\ s.kind = "retry" => t.status = "pending" /\ t.max = r.max + 1
      /\ s.kind = "nack" => /\ t.max = r.max
                            /\ r.attempt >= r.max => t.status = "dead"
                            /\ ~(r.attempt >= r.max) => t.status = "pending"
  BY <1>1, <1>2, SettleType
<1>4. /\ ContractJob[j] = [state |-> "out", delivery |-> r.attempt, allowance |-> r.max]
      /\ ContractJob' = [ContractJob EXCEPT ![j] = view]
  <2>1. row'[j] = t /\ \A i \in Job \ {j} : row'[i] = row[i]
    BY <1>1, <1>2 DEF TInv, TypeOK
  <2>2. ContractState(r) = "out" /\ t.attempt = r.attempt
    BY <1>2, <1>3 DEF ContractState
  <2> HIDE DEF t, r
  <2> QED
    BY <1>1, <2>1, <2>2 DEF ContractJob, r
<1>5. CASE s.kind = "ack"
  <2>1. view = [state |-> "done", delivery |-> r.attempt, allowance |-> r.max]
    BY <1>3, <1>5 DEF ContractState
  <2>2. Contract!Last(j) \in finished'
    BY <1>1, <1>2, <1>4, <1>5 DEF Contract!Last
  <2> HIDE DEF view, r
  <2>3. Contract!Settle(j)
    BY <1>4, <2>1, <2>2 DEF Contract!Settle, Contract!Becomes
  <2> QED
    BY <1>1, <2>3
<1>6. CASE s.kind = "retry"
  <2>1. view = [state |-> "waiting", delivery |-> r.attempt, allowance |-> r.max + 1]
    BY <1>3, <1>6 DEF ContractState
  <2> HIDE DEF view, r
  <2>2. Contract!Settle(j)
    BY <1>4, <2>1 DEF Contract!Settle, Contract!Becomes
  <2> QED
    BY <1>1, <2>2
<1>7. CASE s.kind = "nack" /\ r.attempt >= r.max
  <2>1. view = [state |-> "dead", delivery |-> r.attempt, allowance |-> r.max]
    BY <1>3, <1>7 DEF ContractState
  <2> HIDE DEF view, r
  <2>2. Contract!Settle(j)
    BY <1>4, <1>7, <2>1 DEF Contract!Settle, Contract!Becomes, Contract!Spent
  <2> QED
    BY <1>1, <2>2
<1>8. CASE s.kind = "nack" /\ ~(r.attempt >= r.max)
  <2>1. view = [state |-> "waiting", delivery |-> r.attempt, allowance |-> r.max]
    BY <1>3, <1>8 DEF ContractState
  <2> HIDE DEF view, r
  <2>2. Contract!Settle(j)
    BY <1>4, <1>8, <2>1 DEF Contract!Settle, Contract!Becomes, Contract!Spent
  <2> QED
    BY <1>1, <2>2
<1> QED
  BY <1>1, <1>5, <1>6, <1>7, <1>8

\* Every step is a step of the contract, or not seen in it.
LEMMA StepContract ==
    TInv /\ IInv /\ [Next]_vars => [Contract!Next]_(Contract!contractVars)
<1> SUFFICES ASSUME TInv, IInv, [Next]_vars
             PROVE  [Contract!Next]_(Contract!contractVars)
  OBVIOUS
<1>0. TInv'
  BY StepTInv
<1>s. \A j \in Job : row[j] \in Row
  BY DEF TInv, TypeOK
<1> USE DEF Contract!contractVars
<1>1. ASSUME NEW j \in Job, NEW delayed \in BOOLEAN, Enqueue(j, delayed) PROVE Contract!Next
  <2>1. ContractJob[j].state = "absent" /\ ContractJob' = [ContractJob EXCEPT ![j] = Contract!Submitted]
    BY <1>1 DEF Enqueue, KeyFree, ContractJob, ContractState, Contract!Submitted, TInv, TypeOK
  <2>2. Contract!Submit(j)
    BY <1>1, <2>1 DEF Contract!Submit, Enqueue, memVars, history
  <2> QED
    BY <2>2 DEF Contract!Next
<1>2. ASSUME NEW j \in Job, BecomeDue(j) \/ LockExpires(j) PROVE UNCHANGED Contract!contractVars
  <2>1. UNCHANGED <<claim, finished>>
    BY <1>2 DEF BecomeDue, LockExpires, memVars, history
  <2>2. \A i \in Job : row'[i].status = row[i].status /\ row'[i].attempt = row[i].attempt
                       /\ row'[i].max = row[i].max
    BY <1>2, <1>s DEF BecomeDue, LockExpires, TInv, TypeOK, Row
  <2> QED
    BY <2>1, <2>2, SameView DEF ContractState
<1>3. CASE DeadSweep
  <2> DEFINE E == {j \in Job : Expendable(j)}
  <2>1. \A j \in E : ContractJob[j].state = "out" /\ Contract!Spent(j)
    BY DEF Expendable, ContractJob, ContractState, Contract!Spent
  <2>2. ContractJob' = [j \in Job |-> IF j \in E THEN [ContractJob[j] EXCEPT !.state = "dead"]
                                      ELSE ContractJob[j]]
    <3>1. \A j \in Job : row'[j] = IF j \in E THEN [row[j] EXCEPT !.status = "dead", !.lock = "none"]
                                   ELSE row[j]
      BY <1>3 DEF DeadSweep
    <3>2. \A j \in E : /\ row'[j].status = "dead" /\ row'[j].attempt = row[j].attempt
                       /\ row'[j].max = row[j].max
      BY <1>s, <3>1 DEF Row
    <3> HIDE DEF E
    <3> QED
      BY <3>1, <3>2 DEF ContractJob, ContractState
  <2>3. Contract!GiveUp(E)
    <3>1. \A j \in E : j \in Job
      OBVIOUS
    <3> HIDE DEF E
    <3> QED
      BY <1>3, <2>1, <2>2, <3>1 DEF Contract!GiveUp, DeadSweep, memVars, history
  <2>4. E \in SUBSET Job
    OBVIOUS
  <2> QED
    BY <2>3, <2>4 DEF Contract!Next
<1>4. ASSUME NEW w \in Worker, NEW j \in Job, ClaimLand(w, j) PROVE Contract!Next
  <2>1. claim[w] = NoClaim
    BY <1>4 DEF ClaimLand, IInv, ClaimSound
  <2>2. /\ row[j].attempt \in Nat /\ row[j].max \in Nat /\ row[j].attempt < row[j].max
        /\ row[j].status \in {"pending", "processing"}
    BY <1>4, <1>s DEF ClaimLand, Claimable, IInv, RowSound, Row
  <2>3. /\ ContractJob[j].state \in {"waiting", "out"} /\ ~Contract!Spent(j)
        /\ ContractJob[j].delivery = row[j].attempt
    BY <2>2 DEF ContractJob, ContractState, Contract!Spent
  <2>4. /\ row'[j].status = "processing" /\ row'[j].attempt = row[j].attempt + 1
        /\ row'[j].max = row[j].max /\ \A i \in Job \ {j} : row'[i] = row[i]
    BY <1>4, <1>s DEF ClaimLand, NextAttempt, TInv, TypeOK, Row
  <2>5. ContractJob' = [ContractJob EXCEPT ![j].state = "out", ![j].delivery = @ + 1]
    BY <2>3, <2>4 DEF ContractJob, ContractState
  <2>6. Contract!Deliver(w, j)
    BY <1>4, <2>1, <2>3, <2>5 DEF Contract!Deliver, ClaimLand, NextAttempt, history
  <2> QED
    BY <2>6 DEF Contract!Next
<1>5. ASSUME NEW w \in Worker, ClaimSend(w) \/ ClaimNothing(w) \/ StartHandler(w) \/ RenewSend(w)
                               \/ Stop(w) \/ Abandon(w) \/ Restart(w)
      PROVE  UNCHANGED Contract!contractVars
  <2>1. UNCHANGED <<row, claim, finished>>
    BY <1>5 DEF ClaimSend, ClaimNothing, StartHandler, RenewSend, Stop, Abandon, Restart,
       memVars, history
  <2> QED
    BY <2>1, SameView
<1>6. ASSUME NEW w \in Worker, LoseClaimReply(w) \/ Exit(w) \/ Crash(w) PROVE Contract!Next
  <2>1. UNCHANGED <<row, finished>> /\ \A v \in Worker : claim'[v] \in {claim[v], NoClaim}
    BY <1>6 DEF LoseClaimReply, Exit, Crash, Die, Forget, history, TInv, TypeOK
  <2> QED
    BY <1>0, <2>1, SameView, LetGoStep
<1>7. ASSUME NEW w \in Worker, NEW result \in {"ok", "throw", "retry"}, HandlerReturns(w, result)
      PROVE  Contract!Next
  <2>1. row' = row /\ \A v \in Worker : claim'[v] \in {claim[v], NoClaim}
    BY <1>7 DEF HandlerReturns, Forget, TInv, TypeOK
  <2>2. finished' \in {finished, finished \cup {claim[w]}} /\ claim[w] # NoClaim
    BY <1>7, NoClaimAssumption DEF HandlerReturns, TInv, HasClaim
  <2> QED
    BY <1>0, <2>1, <2>2, SameView, LetGoStep
<1>8. ASSUME NEW s \in wire, SettleLands(s) \/ SettleFails(s) PROVE Contract!Next
  <2>1. finished' = finished /\ \A v \in Worker : claim'[v] \in {claim[v], NoClaim}
    BY <1>8 DEF SettleLands, SettleFails, Answered, Forget, history, TInv, TypeOK
  <2>2. CASE SettleLands(s) /\ Fenced(ClaimOf(s))
    BY <1>0, <2>1, <2>2, SettleStep, LetGoStep
  <2>3. CASE row' = row
    BY <1>0, <2>1, <2>3, SameView, LetGoStep
  <2> QED
    BY <1>8, <2>2, <2>3 DEF SettleLands, SettleFails
<1>9. ASSUME NEW s \in wire, NEW replied \in BOOLEAN, RenewLands(s, replied) \/ RenewFails(s)
      PROVE  UNCHANGED Contract!contractVars
  <2>1. UNCHANGED <<claim, finished>>
    BY <1>9 DEF RenewLands, RenewFails, history
  <2>2. \A j \in Job : row'[j].status = row[j].status /\ row'[j].attempt = row[j].attempt
                       /\ row'[j].max = row[j].max
    <3>1. s.job \in Job
      BY DEF TInv, TypeOK, Statement
    <3>2. row' = row \/ row' = [row EXCEPT ![s.job].lock = "live"]
      BY <1>9 DEF RenewLands, RenewFails
    <3> QED
      BY <1>s, <3>1, <3>2 DEF TInv, TypeOK, Row
  <2> QED
    BY <2>1, <2>2, SameView DEF ContractState
<1>10. CASE UNCHANGED vars
  BY <1>10, SameView DEF vars, memVars, history
<1> QED
  BY <1>1, <1>2, <1>3, <1>4, <1>5, <1>6, <1>7, <1>8, <1>9, <1>10 DEF Next

\* The queue implements its contract: from every initial state, by every
\* step of table, subscriptions, statements and processes.
THEOREM QueueKeepsContract == Spec => ImplementsContract
<1>1. Spec => [][Contract!Next]_(Contract!contractVars)
  BY StepContract, Inductive, PTL DEF Spec
<1>2. Spec => Contract!Init
  BY InitContract DEF Spec
<1> QED
  BY <1>1, <1>2 DEF ImplementsContract, Contract!Spec
=============================================================================
