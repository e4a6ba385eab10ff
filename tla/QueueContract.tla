---------------------------- MODULE QueueContract ----------------------------
(***************************************************************************)
(* What the job queue promises the handlers that consume it, with no lock, *)
(* statement or process in sight: packages/runtime/src/queue-contract.ts.  *)
(*                                                                         *)
(* Delivery is at least once, and consumers may overlap: a consumer that   *)
(* lost its job is not told at once.  What holds is that deliveries of a   *)
(* job are numbered and no number is given twice, that a job is done only  *)
(* by the delivery it last gave, that attempts stay within what the job    *)
(* was allowed, and that an end is final.                                  *)
(*                                                                         *)
(* JobQueue implements this contract from the statements of queue.ts, and  *)
(* the queue that RunExecution assumes beneath its executions is another   *)
(* implementation of it: the two modules meet here.                        *)
(***************************************************************************)
EXTENDS Naturals

CONSTANTS
    Consumer,      \* whoever may be handed a job
    Job,           \* jobs
    MaxAttempts,   \* deliveries a job is allowed when it is submitted
    NoDelivery     \* the hand of a consumer that works on nothing

VARIABLES
    job,           \* what the queue shows of each job
    hand,          \* the delivery each consumer works on
    completed      \* history: deliveries whose work was completed

contractVars == <<job, hand, completed>>

Absent == [state |-> "absent", delivery |-> 0, allowance |-> 0]
Submitted == [state |-> "waiting", delivery |-> 0, allowance |-> MaxAttempts]

Init ==
    /\ job \in [Job -> {Absent, Submitted}]
    /\ hand = [c \in Consumer |-> NoDelivery]
    /\ completed = {}

Last(j) == [job |-> j, attempt |-> job[j].delivery]

Spent(j) == job[j].delivery >= job[j].allowance

\* A key is taken once, whatever became of the job that took it.
Submit(j) ==
    /\ job[j].state = "absent"
    /\ job' = [job EXCEPT ![j] = Submitted]
    /\ UNCHANGED <<hand, completed>>

\* A job that waits, or whose last delivery may have been lost, is handed
\* out under the next number.
Deliver(c, j) ==
    /\ hand[c] = NoDelivery
    /\ job[j].state \in {"waiting", "out"}
    /\ ~Spent(j)
    /\ job' = [job EXCEPT ![j].state = "out", ![j].delivery = @ + 1]
    /\ hand' = [hand EXCEPT ![c] = [job |-> j, attempt |-> job[j].delivery + 1]]
    /\ UNCHANGED completed

Becomes(j, state, allowance) ==
    job' = [job EXCEPT ![j] = [state |-> state, delivery |-> job[j].delivery,
                               allowance |-> allowance]]

\* The job's last delivery is settled: done, if its work was completed; put
\* back, with another attempt if the consumer asked for a delay; or dead,
\* when no attempt is left.
Settle(j) ==
    /\ job[j].state = "out"
    /\ \/ Last(j) \in completed' /\ Becomes(j, "done", job[j].allowance)
       \/ Spent(j) /\ Becomes(j, "dead", job[j].allowance)
       \/ ~Spent(j) /\ Becomes(j, "waiting", job[j].allowance)
       \/ Becomes(j, "waiting", job[j].allowance + 1)

Held == {hand[c] : c \in Consumer} \ {NoDelivery}

\* Consumers complete deliveries they hold, or let go of them, completed or
\* not.  A settle may come with it, before it, after it, or never.
LetGo ==
    /\ completed \subseteq completed' /\ completed' \subseteq completed \cup Held
    /\ hand' \in [Consumer -> Held \cup {NoDelivery}]
    /\ \A c \in Consumer : hand'[c] \in {hand[c], NoDelivery}
    /\ UNCHANGED job \/ \E j \in Job : Settle(j)

\* Jobs whose last delivery was lost with no attempt left are given up.
GiveUp(E) ==
    /\ \A j \in E : job[j].state = "out" /\ Spent(j)
    /\ job' = [j \in Job |-> IF j \in E THEN [job[j] EXCEPT !.state = "dead"] ELSE job[j]]
    /\ UNCHANGED <<hand, completed>>

Next ==
    \/ \E j \in Job : Submit(j)
    \/ \E c \in Consumer, j \in Job : Deliver(c, j)
    \/ LetGo
    \/ \E E \in SUBSET Job : GiveUp(E)

Spec == Init /\ [][Next]_contractVars
=============================================================================
