-------------------------- MODULE JobQueueRefines ---------------------------
(* JobQueue implements Delivery (proved in JobQueueProofs). *)
EXTENDS JobQueue

\* pending and running are one to those who wait for the job.
OpenOr(s) == IF s \in {"pending", "running"} THEN "open" ELSE s

\* The positions of a batch not finalized yet: all but the head whose failure is
\* committed while the worker sends the alert.
Unsettled(w) == IF pc[w] = "alert" THEN DOMAIN batch[w] \ {1} ELSE DOMAIN batch[w]

RowState  == [j \in Jobs |-> OpenOr(status[j])]
LiveTakes == {t \in Workers \X Jobs :
                /\ pc[t[1]] # "claim"
                /\ \E i \in Unsettled(t[1]) : batch[t[1]][i].job = t[2]}
LateJobs  == {j \in Jobs : overruns[j] > 0}

Abstract == INSTANCE Delivery WITH
  state <- RowState, takes <- LiveTakes, late <- LateJobs

\* Every behaviour of the table and its workers is one of Delivery: a stale
\* finalize, a lease that runs out, a crash or a failed tick included.
ImplementsDelivery == Abstract!DeliverySpec
=============================================================================
