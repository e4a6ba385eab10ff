----------------------------- MODULE RunContract -----------------------------
(***************************************************************************)
(* What a run promises the executions that are started for it, with no     *)
(* heartbeat, fence or statement in sight:                                 *)
(* worker/src/run/execute/lifecycle.ts.                                    *)
(*                                                                         *)
(* Executions may overlap: one that lost the run is not told at once.  What *)
(* holds is that only an open run is taken, by each execution at most once; *)
(* that of those at work nobody but the last one to take it ends it or     *)
(* gives it up; and that a run which was ended or parked is never taken    *)
(* again.                                                                  *)
(*                                                                         *)
(* RunExecution implements this contract from the statements of the claim, *)
(* the hand-back, the commit and the status write; what ToolCalls assumes  *)
(* of the run its executions contend for is another implementation of it.  *)
(***************************************************************************)
CONSTANTS
    Execution,     \* executions that may be started for the run
    Nobody         \* the holder of a run nobody has taken

VARIABLES
    open,          \* the run is neither over nor parked
    holder,        \* the last execution to take it, until it gives it up
    fresh,         \* executions that did not take it yet
    working        \* executions that took it and are still at it

contractVars == <<open, holder, fresh, working>>

Init ==
    /\ open = TRUE
    /\ holder = Nobody
    /\ fresh = Execution
    /\ working = {}

\* A fresh execution takes an open run, be it free or somebody's who is silent.
Take(e) ==
    /\ open
    /\ e \in fresh
    /\ holder' = e
    /\ fresh' = fresh \ {e}
    /\ working' = working \cup {e}
    /\ UNCHANGED open

\* An execution ends or parks the run, gives it up, stops or dies; without the
\* run it can only stop.
Act(e) ==
    /\ e \in working
    /\ working' \in {working, working \ {e}}
    /\ \/ UNCHANGED <<open, holder>>
       \/ /\ holder = e
          /\ holder' \in {e, Nobody}
          /\ open' \in {open, FALSE}
    /\ UNCHANGED fresh

\* An execution that did not take the run goes away.
Retire(e) ==
    /\ e \in fresh
    /\ fresh' = fresh \ {e}
    /\ UNCHANGED <<open, holder, working>>

\* A person cancels a run that nobody has taken.
Cancel ==
    /\ holder = Nobody
    /\ open' = FALSE
    /\ UNCHANGED <<holder, fresh, working>>

Next ==
    \/ \E e \in Execution : Take(e) \/ Act(e) \/ Retire(e)
    \/ Cancel

Spec == Init /\ [][Next]_contractVars
=============================================================================
