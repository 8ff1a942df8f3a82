----------------------------- MODULE MCJobQueue -----------------------------
(* Instances of JobQueue, and of its refinement of Delivery, for TLC. *)
EXTENDS JobQueueRefines

CONSTANTS w1, w2, j1, j2

TwoWorkers == {w1, w2}
TwoJobs    == {j1, j2}
OneOverrun == [j \in TwoJobs |-> IF j = j1 THEN 1 ELSE 0]
=============================================================================
