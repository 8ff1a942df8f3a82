------------------------------ MODULE Delivery ------------------------------
(***************************************************************************)
(* What the job queue promises the code that enqueues jobs and the         *)
(* handlers it calls: delivery at least once, by any number of workers.    *)
(* JobQueue implements it (see JobQueueRefines); the models of the job     *)
(* handlers are built on it.                                               *)
(*                                                                         *)
(* Attempts, run_at, leases and the worker's loop are gone.  A job is open *)
(* from its insert until a worker finalizes it; <<w, j>> \in takes says    *)
(* that worker w has picked j and not finalized it.                        *)
(***************************************************************************)
CONSTANTS Workers, Jobs

VARIABLES
  state,  \* the row: "absent", "open" (pending or running), "done", "failed"
  takes,  \* who has which job to run
  late    \* the jobs whose lease has expired under a live worker

deliveryVars == <<state, takes, late>>

Takers(j) == {w \in Workers : <<w, j>> \in takes}

DeliveryInit ==
  /\ state = [j \in Jobs |-> "absent"]
  /\ takes = {}
  /\ late = {}

\* The insert.
Insert(j) ==
  /\ state[j] = "absent"
  /\ state' = [state EXCEPT ![j] = "open"]
  /\ UNCHANGED <<takes, late>>

\* A lease expires while a worker that has the job is alive.
Outlive(j) ==
  /\ Takers(j) # {}
  /\ late' = late \cup {j}
  /\ UNCHANGED <<state, takes>>

\* A worker with nothing to do picks open jobs.  One that another worker still
\* has is among them only if its lease has run out.
Pick(w, picked) ==
  /\ \A j \in Jobs : <<w, j>> \notin takes
  /\ \A j \in picked : state[j] = "open" /\ (Takers(j) = {} \/ j \in late)
  /\ takes' = takes \cup ({w} \X picked)
  /\ UNCHANGED <<state, late>>

\* A worker finalizes a job it has, whatever has become of the row.
Settle(w, j, result) ==
  /\ <<w, j>> \in takes
  /\ state' = [state EXCEPT ![j] = result]
  /\ takes' = takes \ {<<w, j>>}
  /\ UNCHANGED late

Succeed(w, j) == Settle(w, j, "done")
Retry(w, j)   == Settle(w, j, "open")
Fail(w, j)    == Settle(w, j, "failed")

\* A crash, or a failed tick: the worker forgets its jobs, the rows stay open.
Drop(w) ==
  /\ takes' = {t \in takes : t[1] # w}
  /\ UNCHANGED <<state, late>>

DeliveryNext ==
  \/ \E j \in Jobs : Insert(j) \/ Outlive(j)
  \/ \E w \in Workers :
       \/ \E picked \in SUBSET Jobs : Pick(w, picked)
       \/ \E j \in Jobs : Succeed(w, j) \/ Retry(w, j) \/ Fail(w, j)
       \/ Drop(w)

DeliverySpec == DeliveryInit /\ [][DeliveryNext]_deliveryVars

-----------------------------------------------------------------------------
DeliveryTypeOK ==
  /\ state \in [Jobs -> {"absent", "open", "done", "failed"}]
  /\ takes \subseteq Workers \X Jobs
  /\ late \subseteq Jobs

\* What a handler may rely on: unless its lease has run out under a worker, a
\* job has one taker, and none once it is done or failed.
ExclusiveUnlessLate ==
  \A j \in Jobs \ late :
    /\ \A v, w \in Takers(j) : v = w
    /\ Takers(j) # {} => state[j] = "open"
=============================================================================
