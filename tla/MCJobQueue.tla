----------------------------- MODULE MCJobQueue -----------------------------
(* The instance of JobQueue for TLC: two workers and one job. *)
EXTENDS JobQueue

CONSTANTS w1, w2, j1

TwoWorkers == {w1, w2}
OneJob == {j1}
=============================================================================
