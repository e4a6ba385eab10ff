------------------------------ MODULE JobQueue ------------------------------
(***************************************************************************)
(* The Postgres-backed job queue: packages/runtime/src/queue.ts with the   *)
(* enqueue primitive of packages/db/src/queue.ts and the drain of          *)
(* worker/src/lifecycle.ts.                                                *)
(*                                                                         *)
(* A Worker is one subscription of one worker process to the topic; a Job  *)
(* is one idempotency key, hence at most one row of queue_jobs.  A         *)
(* statement is sent, and lands in the database (or fails) in a later      *)
(* step, so a settle or a renewal may land long after its sender lost the  *)
(* row or died.  Time is abstract: a lock is live or expired, a pending    *)
(* row is due or not yet, and every duration is possible.                  *)
(*                                                                         *)
(* claimNextJob orders by enqueued_at, but skips rows another statement    *)
(* has locked, so any claimable row may be the one returned.               *)
(***************************************************************************)
EXTENDS Naturals, FiniteSets

CONSTANTS
    Worker,         \* subscriptions, one per worker process
    Job,            \* idempotency keys
    MaxAttempts,    \* max_attempts a row is inserted with
    MaxExtras,      \* bound: drains, crashes and QueueRetryAfterErrors in a behaviour
    NoClaim         \* the claim of a subscription that holds no job

Claim == [job : Job, attempt : Nat]

ASSUME MaxAttemptsAssumption == MaxAttempts \in Nat \ {0}
ASSUME BoundsAssumption == MaxExtras \in Nat
ASSUME NoClaimAssumption == NoClaim \notin Claim

MaxMisses == 2      \* MAX_CONSECUTIVE_LOCK_RENEWAL_FAILURES

VARIABLES
    row,       \* the queue_jobs table
    proc,      \* life of each worker process
    phase,     \* where each subscription loop stands
    claim,     \* the claim each subscription's process holds in memory
    gate,      \* settleClaimed of the in-flight job
    misses,    \* consecutive renewal failures; MaxMisses is renewal.lost
    wire,      \* statements issued and not yet landed or failed
    sent,      \* history: every settle statement ever issued
    finished,  \* history: claims whose handler completed, lock not lost
    deaths     \* drains and crashes so far

procVars == <<proc, deaths>>
memVars  == <<phase, claim, gate, misses>>
history  == <<sent, finished>>
vars     == <<row, procVars, memVars, wire, history>>

-----------------------------------------------------------------------------
Statement == [kind : {"ack", "nack", "retry", "renew"},
              job : Job, attempt : Nat, by : Worker]

AbsentRow == [status |-> "absent", attempt |-> 0, max |-> 0,
              lock |-> "none", due |-> FALSE]

Row == [status : {"absent", "pending", "processing", "done", "dead"},
        attempt : Nat, max : Nat,
        lock : {"none", "live", "expired"},   \* locked_until, against now()
        due : BOOLEAN]                        \* enqueued_at <= now()

TypeOK ==
    /\ row \in [Job -> Row]
    /\ proc \in [Worker -> {"up", "stopping", "abandoned", "down"}]
    /\ phase \in [Worker -> {"idle", "claiming", "granted", "running", "settling"}]
    /\ claim \in [Worker -> Claim \cup {NoClaim}]
    /\ gate \in [Worker -> BOOLEAN]
    /\ misses \in [Worker -> 0..MaxMisses]
    /\ wire \subseteq Statement
    /\ sent \subseteq Statement
    /\ finished \subseteq Claim
    /\ deaths \in Nat

Init ==
    /\ row = [j \in Job |-> AbsentRow]
    /\ proc = [w \in Worker |-> "up"]
    /\ phase = [w \in Worker |-> "idle"]
    /\ claim = [w \in Worker |-> NoClaim]
    /\ gate = [w \in Worker |-> FALSE]
    /\ misses = [w \in Worker |-> 0]
    /\ wire = {}
    /\ sent = {}
    /\ finished = {}
    /\ deaths = 0

\* renewal.lost: two consecutive renewals failed.
Lost(w) == misses[w] = MaxMisses

\* The WHERE of every statement that speaks for a claim: id, attempt and
\* status = 'processing'.
Matches(r, c) == r.status = "processing" /\ r.attempt = c.attempt

Fenced(c) == Matches(row[c.job], c)

Stmt(k, c, w) == [kind |-> k, job |-> c.job, attempt |-> c.attempt, by |-> w]

ClaimOf(s) == [job |-> s.job, attempt |-> s.attempt]

IsSettle(s) == s.kind # "renew"

-----------------------------------------------------------------------------
(* The table and the clock. *)

\* No row carries the key.  (A handler that releases its row's key before it
\* returns, as a document trigger's does, is left out.)
KeyFree(j) == row[j].status = "absent"

\* enqueueQueueJob with an idempotency key: ON CONFLICT the insert adds
\* nothing, whatever the status of the row that holds the key.
Enqueue(j, delayed) ==
    /\ KeyFree(j)
    /\ row' = [row EXCEPT ![j] = [status |-> "pending", attempt |-> 0,
                                  max |-> MaxAttempts, lock |-> "none",
                                  due |-> ~delayed]]
    /\ UNCHANGED <<procVars, memVars, wire, history>>

\* now() reaches enqueued_at.
BecomeDue(j) ==
    /\ row[j].status = "pending"
    /\ ~row[j].due
    /\ row' = [row EXCEPT ![j].due = TRUE]
    /\ UNCHANGED <<procVars, memVars, wire, history>>

\* now() passes locked_until.
LockExpires(j) ==
    /\ row[j].lock = "live"
    /\ row' = [row EXCEPT ![j].lock = "expired"]
    /\ UNCHANGED <<procVars, memVars, wire, history>>

\* Mutant: strict comparison leaves the last attempt to nobody.
Expendable_PastMax(j) == /\ row[j].status = "processing"
                         /\ row[j].lock = "expired"
                         /\ row[j].attempt > row[j].max

Expendable(j) == /\ row[j].status = "processing"
                 /\ row[j].lock = "expired"
                 /\ row[j].attempt >= row[j].max

\* expireDeadQueueJobs, on the interval of startDeadQueueJobSweep: one
\* set-based UPDATE.
DeadSweep ==
    /\ \E j \in Job : Expendable(j)
    /\ row' = [j \in Job |-> IF Expendable(j)
                             THEN [row[j] EXCEPT !.status = "dead", !.lock = "none"]
                             ELSE row[j]]
    /\ UNCHANGED <<procVars, memVars, wire, history>>

-----------------------------------------------------------------------------
(* The subscription loop. *)

\* The drain gate is read before the claim is issued, and only there.
ClaimSend(w) ==
    /\ proc[w] = "up"
    /\ phase[w] = "idle"
    /\ phase' = [phase EXCEPT ![w] = "claiming"]
    /\ UNCHANGED <<row, procVars, claim, gate, misses, wire, history>>

\* Mutant: a locked row is re-taken before its lock expired.
Claimable_Locked(j) ==
    \/ row[j].status = "pending" /\ row[j].due
    \/ row[j].status = "processing" /\ row[j].attempt < row[j].max

Claimable(j) ==
    \/ row[j].status = "pending" /\ row[j].due
    \/ /\ row[j].status = "processing"
       /\ row[j].lock = "expired"
       /\ row[j].attempt < row[j].max

NextAttempt(j) == row[j].attempt + 1

\* claimNextJob lands: FOR UPDATE SKIP LOCKED picks a row, the attempt
\* number advances and names the claim.
ClaimLand(w, j) ==
    /\ phase[w] = "claiming"
    /\ Claimable(j)
    /\ row' = [row EXCEPT ![j].status = "processing",
                          ![j].attempt = NextAttempt(j),
                          ![j].lock = "live"]
    /\ claim' = [claim EXCEPT ![w] = [job |-> j, attempt |-> NextAttempt(j)]]
    /\ phase' = [phase EXCEPT ![w] = "granted"]
    /\ UNCHANGED <<procVars, gate, misses, wire, history>>

\* Nothing to claim, or the statement failed.
ClaimNothing(w) ==
    /\ phase[w] = "claiming"
    /\ phase' = [phase EXCEPT ![w] = "idle"]
    /\ UNCHANGED <<row, procVars, claim, gate, misses, wire, history>>

\* runClaimedJob starts; a drain that began meanwhile only aborts the
\* handler's signal.
StartHandler(w) ==
    /\ phase[w] = "granted"
    /\ phase' = [phase EXCEPT ![w] = "running"]
    /\ gate' = [gate EXCEPT ![w] = FALSE]
    /\ misses' = [misses EXCEPT ![w] = 0]
    /\ UNCHANGED <<row, procVars, claim, wire, history>>

Forget(w) == /\ phase' = [phase EXCEPT ![w] = "idle"]
             /\ claim' = [claim EXCEPT ![w] = NoClaim]

\* The claim landed and its reply was lost: the loop logs and polls again.
LoseClaimReply(w) ==
    /\ phase[w] = "granted"
    /\ Forget(w)
    /\ UNCHANGED <<row, procVars, gate, misses, wire, history>>

\* The settle that runClaimedJob decides on; result is how the handler ended.
\* Lock loss outranks a completed handler; a QueueRetryAfterError keeps its
\* delay even so.
Outcome(w, result) ==
    CASE result = "retry" -> "retry"
      [] result = "ok" /\ ~Lost(w) -> "ack"
      [] OTHER -> "nack"

\* Drains, crashes and QueueRetryAfterErrors so far.
Extras == deaths + Cardinality({s \in sent : s.kind = "retry"})

\* The handler ends and runClaimedJob passes the settle gate, or is refused
\* by it and drops its outcome.
HandlerReturns(w, result) ==
    /\ phase[w] = "running"
    /\ result = "retry" => Extras < MaxExtras
    /\ finished' = IF result = "ok" /\ ~Lost(w) THEN finished \cup {claim[w]} ELSE finished
    /\ \/ /\ ~gate[w]
          /\ gate' = [gate EXCEPT ![w] = TRUE]
          /\ wire' = wire \cup {Stmt(Outcome(w, result), claim[w], w)}
          /\ sent' = sent \cup {Stmt(Outcome(w, result), claim[w], w)}
          /\ phase' = [phase EXCEPT ![w] = "settling"]
          /\ UNCHANGED claim
       \/ /\ gate[w]
          /\ Forget(w)
          /\ UNCHANGED <<gate, wire, sent>>
    /\ UNCHANGED <<row, procVars, misses>>

\* The renewal timer fires; `renewing` keeps one renewal of a claim in flight.
RenewSend(w) ==
    /\ phase[w] = "running"
    /\ ~Lost(w)
    /\ Stmt("renew", claim[w], w) \notin wire
    /\ wire' = wire \cup {Stmt("renew", claim[w], w)}
    /\ UNCHANGED <<row, procVars, memVars, history>>

-----------------------------------------------------------------------------
(* Statements reach the database, or fail on the way. *)

\* Mutant: a retry-after does not grant the attempt it will use.
Settle_NoCredit(s, r) ==
    CASE s.kind = "ack" -> [r EXCEPT !.status = "done", !.lock = "none"]
      [] s.kind = "retry" -> [r EXCEPT !.status = "pending", !.lock = "none", !.due = FALSE]
      [] OTHER -> [r EXCEPT !.lock = "none",
                            !.status = IF r.attempt >= r.max THEN "dead" ELSE "pending"]

\* acknowledge and nack, on a row the fence matches.
Settle(s, r) ==
    CASE s.kind = "ack" -> [r EXCEPT !.status = "done", !.lock = "none"]
      [] s.kind = "retry" -> [r EXCEPT !.status = "pending", !.lock = "none",
                                       !.max = @ + 1, !.due = FALSE]
      [] s.kind = "nack" -> [r EXCEPT !.lock = "none",
                                      !.status = IF r.attempt >= r.max
                                                 THEN "dead" ELSE "pending"]

\* The sender's loop moves on once its own settle answered, whatever the
\* answer: a failed settle is only logged.
Answered(s) ==
    IF phase[s.by] = "settling" /\ claim[s.by] = ClaimOf(s)
    THEN Forget(s.by)
    ELSE UNCHANGED <<phase, claim>>

SettleLands(s) ==
    /\ s \in wire /\ IsSettle(s)
    /\ wire' = wire \ {s}
    /\ row' = IF Fenced(ClaimOf(s)) THEN [row EXCEPT ![s.job] = Settle(s, row[s.job])]
                                    ELSE row
    /\ Answered(s)
    /\ UNCHANGED <<procVars, gate, misses, history>>

SettleFails(s) ==
    /\ s \in wire /\ IsSettle(s)
    /\ wire' = wire \ {s}
    /\ Answered(s)
    /\ UNCHANGED <<row, procVars, gate, misses, history>>

\* The bookkeeping after a renewal, if its handler still runs: a success
\* resets the count, a second miss in a row is final.
CountRenewal(s, renewed) ==
    IF phase[s.by] = "running" /\ claim[s.by] = ClaimOf(s) /\ ~Lost(s.by)
    THEN misses' = [misses EXCEPT ![s.by] = IF renewed THEN 0 ELSE @ + 1]
    ELSE UNCHANGED misses

\* Mutant: the renewal is fenced on the status alone.
Renews_AnyAttempt(s) == row[s.job].status = "processing"

Renews(s) == Fenced(ClaimOf(s))

\* renewLock lands; its reply may be lost, which counts as a failure.
RenewLands(s, replied) ==
    /\ s \in wire /\ ~IsSettle(s)
    /\ wire' = wire \ {s}
    /\ row' = IF Renews(s) THEN [row EXCEPT ![s.job].lock = "live"] ELSE row
    /\ CountRenewal(s, Renews(s) /\ replied)
    /\ UNCHANGED <<procVars, phase, claim, gate, history>>

RenewFails(s) ==
    /\ s \in wire /\ ~IsSettle(s)
    /\ wire' = wire \ {s}
    /\ CountRenewal(s, FALSE)
    /\ UNCHANGED <<row, procVars, phase, claim, gate, history>>

-----------------------------------------------------------------------------
(* Processes: drain, crash, restart. *)

\* drainQueueSubscriptions stops the subscription (SIGTERM).
Stop(w) ==
    /\ proc[w] = "up"
    /\ Extras < MaxExtras
    /\ proc' = [proc EXCEPT ![w] = "stopping"]
    /\ deaths' = deaths + 1
    /\ UNCHANGED <<row, memVars, wire, history>>

\* Mutant: the deadline nacks without asking the gate.
Undecided_Ungated(w) == phase[w] \in {"running", "settling"}

\* claimSettle would let abandon() through: a job is in flight, not settled.
Undecided(w) == phase[w] = "running" /\ ~gate[w]

\* The drain deadline passes with the loop still busy: abandon() nacks the
\* in-flight job unless its handler already took the settle gate.  A claim
\* whose reply is still out is not in flight yet, so nothing releases it.
Abandon(w) ==
    /\ proc[w] = "stopping"
    /\ phase[w] # "idle"
    /\ proc' = [proc EXCEPT ![w] = "abandoned"]
    /\ IF Undecided(w)
       THEN /\ gate' = [gate EXCEPT ![w] = TRUE]
            /\ wire' = wire \cup {Stmt("nack", claim[w], w)}
            /\ sent' = sent \cup {Stmt("nack", claim[w], w)}
       ELSE UNCHANGED <<gate, wire, sent>>
    /\ UNCHANGED <<row, deaths, phase, claim, misses, finished>>

\* The process is gone and its memory with it; statements it issued are not.
Die(w) ==
    /\ proc' = [proc EXCEPT ![w] = "down"]
    /\ Forget(w)
    /\ gate' = [gate EXCEPT ![w] = FALSE]
    /\ misses' = [misses EXCEPT ![w] = 0]
    /\ UNCHANGED <<row, wire, history>>

\* Mutant: the drain waits for the handler it abandoned.
DrainOver_Patient(w) == proc[w] \in {"stopping", "abandoned"} /\ phase[w] = "idle"

\* The end of a drain: every loop has exited, or the abandoned handlers' settle
\* window is over and abandon()'s nack, awaited without a deadline, answered.
DrainOver(w) ==
    \/ proc[w] = "stopping" /\ phase[w] = "idle"
    \/ /\ proc[w] = "abandoned"
       /\ ~\E s \in wire : s.by = w /\ s.kind = "nack" /\ phase[w] # "settling"

Exit(w) ==
    /\ DrainOver(w)
    /\ Die(w)
    /\ UNCHANGED deaths

\* SIGKILL, a lost host: at any point.
Crash(w) ==
    /\ proc[w] # "down"
    /\ Extras < MaxExtras
    /\ deaths' = deaths + 1
    /\ Die(w)

\* The platform starts a replacement process.
Restart(w) ==
    /\ proc[w] = "down"
    /\ proc' = [proc EXCEPT ![w] = "up"]
    /\ UNCHANGED <<row, deaths, memVars, wire, history>>

-----------------------------------------------------------------------------
Next ==
    \/ \E j \in Job, delayed \in BOOLEAN : Enqueue(j, delayed)
    \/ \E j \in Job : BecomeDue(j)
    \/ \E j \in Job : LockExpires(j)
    \/ DeadSweep
    \/ \E w \in Worker : ClaimSend(w)
    \/ \E w \in Worker, j \in Job : ClaimLand(w, j)
    \/ \E w \in Worker : ClaimNothing(w)
    \/ \E w \in Worker : StartHandler(w)
    \/ \E w \in Worker : LoseClaimReply(w)
    \/ \E w \in Worker, result \in {"ok", "throw", "retry"} : HandlerReturns(w, result)
    \/ \E w \in Worker : RenewSend(w)
    \/ \E s \in wire : SettleLands(s)
    \/ \E s \in wire : SettleFails(s)
    \/ \E s \in wire, replied \in BOOLEAN : RenewLands(s, replied)
    \/ \E s \in wire : RenewFails(s)
    \/ \E w \in Worker : Stop(w)
    \/ \E w \in Worker : Abandon(w)
    \/ \E w \in Worker : Exit(w)
    \/ \E w \in Worker : Crash(w)
    \/ \E w \in Worker : Restart(w)

Spec == Init /\ [][Next]_vars

-----------------------------------------------------------------------------
(* Fairness. *)

SentBy(w) == {s \in wire : s.by = w}

\* The database answers: a statement lands or fails, and a claim that is
\* issued again and again lands eventually.
DatabaseFairness ==
    /\ \A w \in Worker :
        /\ SF_vars(\E j \in Job : ClaimLand(w, j))
        /\ WF_vars(ClaimNothing(w))
        /\ WF_vars(\E s \in SentBy(w) : SettleLands(s) \/ SettleFails(s))
        /\ WF_vars(\E s \in SentBy(w) : RenewFails(s)
                                        \/ \E replied \in BOOLEAN : RenewLands(s, replied))

\* The timers of queue.ts and lifecycle.ts fire: poll, renewal, drain
\* deadline, exit; and the platform replaces a process that is gone.
TimerFairness ==
    \A w \in Worker :
        /\ WF_vars(ClaimSend(w))
        /\ WF_vars(StartHandler(w) \/ LoseClaimReply(w))
        /\ WF_vars(RenewSend(w))
        /\ WF_vars(Abandon(w))
        /\ WF_vars(Exit(w))
        /\ WF_vars(Restart(w))

\* now() advances: a delayed row falls due, a lock nobody can renew expires,
\* and the dead sweep runs every minute.
Unrenewable(j) ==
    /\ \A c \in {claim[w] : w \in Worker} \ {NoClaim} : c.job # j
    /\ \A s \in wire : s.job # j

ClockFairness ==
    /\ \A j \in Job : WF_vars(BecomeDue(j)) /\ WF_vars(Unrenewable(j) /\ LockExpires(j))
    /\ WF_vars(DeadSweep)

\* Fairness is asked of no handler: one may hang for ever.
FairSpec == Spec /\ DatabaseFairness /\ TimerFairness /\ ClockFairness

-----------------------------------------------------------------------------
(* Safety. *)

\* Two processes never hold the same (id, attempt) in memory: the attempt
\* number is the identity of a claim, and every fence of queue.ts rests on it.
ClaimIsExclusive ==
    \A v, w \in Worker : v # w /\ claim[v] # NoClaim => claim[v] # claim[w]

\* A done row was acknowledged for the attempt it carries, by a handler of
\* that attempt which ran to completion without losing the lock; a
\* superseded handler's acknowledge never marks its successor's run done.
DoneByItsAttempt ==
    \A j \in Job : row[j].status = "done" => [job |-> j, attempt |-> row[j].attempt] \in finished

\* The settle gate: acknowledge and abandon's nack are never both issued for
\* one claim, in any order of handler end, drain deadline and lock loss.
OneSettlePerClaim ==
    \A s, t \in sent : ClaimOf(s) = ClaimOf(t) => s = t

\* The retry budget: no claim goes past max_attempts, a row waiting to run has
\* an attempt left, and only a row out of attempts is dead-lettered.
BudgetRespected ==
    \A j \in Job :
        /\ row[j].attempt <= row[j].max
        /\ row[j].status = "pending" => row[j].attempt < row[j].max
        /\ row[j].status = "dead" => row[j].attempt >= MaxAttempts /\ row[j].attempt = row[j].max

\* w runs the attempt its row carries, under a live lock, and no settle of
\* that claim has been decided in its process.
HoldsUndecided(w) ==
    /\ phase[w] = "running" /\ ~gate[w]
    /\ Fenced(claim[w])
    /\ row[claim[w].job].lock = "live"

\* While a process holds a row under a live lock and has decided nothing about
\* it, no step of anyone else -- a late settle of an earlier attempt, the dead
\* sweep, another claim, a duplicate enqueue -- takes the row from it.
HolderUndisturbed ==
    [][\A w \in Worker : HoldsUndecided(w) => Matches(row'[claim[w].job], claim[w])]_vars

\* A job that is done or dead stays so, with the attempt it ended at: a
\* repeated enqueue of its key and a late statement change nothing.
EndIsFinal ==
    [][\A j \in Job : row[j].status \in {"done", "dead"} => row'[j] = row[j]]_vars

-----------------------------------------------------------------------------
(* Liveness. *)

HandlersEnd == \A w \in Worker : []<>(phase[w] # "running")

\* If no handler runs for ever, an enqueued job ends, whatever is lost, crashes
\* or drains on the way.
EveryJobEnds ==
    HandlersEnd =>
        \A j \in Job : row[j].status = "pending" ~> row[j].status \in {"done", "dead"}

Superseded(w) == phase[w] = "running" /\ ~Fenced(claim[w])

\* A worker whose row was re-claimed finds out -- its renewals miss and the
\* handler is aborted -- even if the handler itself never ends.
SupersededIsTold ==
    \A w \in Worker :
        Superseded(w) ~> phase[w] # "running" \/ Lost(w)

\* A drain ends in the process's exit even under a handler that never ends.
DrainEnds ==
    \A w \in Worker : proc[w] = "stopping" ~> proc[w] = "down"

-----------------------------------------------------------------------------
(* The contract of queue-contract.ts. *)

ContractState(r) ==
    CASE r.status = "pending" -> "waiting"
      [] r.status = "processing" -> "out"
      [] OTHER -> r.status

ContractJob == [j \in Job |-> [state |-> ContractState(row[j]),
                               delivery |-> row[j].attempt,
                               allowance |-> row[j].max]]

Contract == INSTANCE QueueContract
    WITH Consumer <- Worker, NoDelivery <- NoClaim,
         job <- ContractJob, hand <- claim, completed <- finished

\* The table, the subscriptions and their statements implement the contract:
\* late settles, lost replies, drains and crashes show through it as nothing
\* but deliveries, settles and consumers that let go (queue-contract.ts:14-24
\* and 64-74, queue.ts).
ImplementsContract == Contract!Spec

=============================================================================
