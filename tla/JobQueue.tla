------------------------------ MODULE JobQueue ------------------------------
(***************************************************************************)
(* The Postgres-backed job queue of src/crm/scheduler: the table           *)
(* scheduled_jobs and the worker processes that poll it.                   *)
(*                                                                         *)
(* A row is identified by its idempotency key (a unique index), so a job   *)
(* is a member of Jobs and "absent" stands for a row not inserted yet.     *)
(* Every action that writes the table is one committed transaction; the    *)
(* one transaction with a step inside it is the pick, which holds its row  *)
(* locks from SELECT ... FOR UPDATE SKIP LOCKED (Select) to its commit     *)
(* (Claim).  Time is abstract: `due' holds the jobs whose run_at has come, *)
(* `earlier' their order by run_at, and `expired' the running jobs whose   *)
(* locked_at is more than LEASE_TIMEOUT old.                               *)
(***************************************************************************)
EXTENDS Integers, Sequences, FiniteSets

CONSTANTS Workers,      \* worker processes
          Jobs,         \* idempotency keys, one row each
          Known,        \* the jobs whose job_type has a registered handler
          Delayed,      \* the jobs enqueued with a run_at in the future
          MaxAttempts,  \* max_attempts of a row
          Limit,        \* rows a worker picks at once
          NoWorker,     \* locked_by IS NULL
          MaxFaults,    \* bound: crashes and failed ticks of a behaviour
          MaxStops,     \* bound: SIGTERMs of a behaviour
          MaxOverruns   \* bound of each job: its leases that expire under a live worker

ASSUME JobQueueAssumption ==
  /\ IsFiniteSet(Jobs)
  /\ Known \subseteq Jobs
  /\ Delayed \subseteq Jobs
  /\ MaxAttempts \in Nat \ {0}
  /\ Limit \in Nat \ {0}
  /\ NoWorker \notin Workers
  /\ MaxFaults \in Nat
  /\ MaxStops \in Nat
  /\ MaxOverruns \in [Jobs -> Nat]

VARIABLES
  status,     \* scheduled_jobs.status, "absent" before the insert
  attempts,   \* scheduled_jobs.attempts
  lockedBy,   \* scheduled_jobs.locked_by
  due,        \* the jobs with run_at <= now()
  earlier,    \* <<i, j>>: of two due jobs, i has the smaller run_at
  expired,    \* the running jobs with locked_at < now() - LEASE_TIMEOUT
  pc,         \* where each worker is in run_worker
  batch,      \* `picked' from the job being run on, with job.attempts in memory
  stopping,   \* the worker's shutdown event is set
  faults, stops, overruns,  \* how much of the three bounds is used
  alerted     \* history: the jobs whose final failure reached the operator

table    == <<status, attempts, lockedBy, due, earlier, expired>>
counters == <<faults, stops, overruns>>
vars     == <<table, pc, batch, stopping, counters, alerted>>

Statuses == {"absent", "pending", "running", "done", "failed"}
Terminal == {"done", "failed"}
Take     == [job : Jobs, attempt : Nat]

\* The worker is between batches, holds a batch to run, or is busy with its head.
Idle == {"down", "wait", "reclaim", "select"}
Busy == {"returned", "raised", "unknown", "alert"}

-----------------------------------------------------------------------------
BatchJobs(w) == {batch[w][i].job : i \in DOMAIN batch[w]}
Current(w)   == Head(batch[w])

\* Rows locked by a pick that has not committed.
LockedRows == UNION {BatchJobs(w) : w \in {v \in Workers : pc[v] = "claim"}}

\* Mutant: FOR UPDATE SKIP LOCKED is forgotten.
PickableUnlocked == {j \in due : status[j] = "pending"}

\* Mutant: failed rows are retried too.
PickableFailed == {j \in due : status[j] \in {"pending", "failed"}} \ LockedRows

\* What WHERE status = 'pending' AND run_at <= now FOR UPDATE SKIP LOCKED sees.
Pickable == {j \in due : status[j] = "pending"} \ LockedRows

\* ORDER BY run_at LIMIT Limit.
InRunAtOrder(b) ==
  /\ \A i, k \in DOMAIN b : i < k => <<b[i], b[k]>> \in earlier
  /\ \A j \in Pickable \ {b[i] : i \in DOMAIN b} :
        /\ Len(b) = Limit
        /\ \A i \in DOMAIN b : <<b[i], j>> \in earlier

\* A worker that claimed row j under its present attempt number still has it
\* in its batch.
Held(j) == \E w \in Workers :
             /\ pc[w] # "claim"
             /\ \E i \in DOMAIN batch[w] :
                   batch[w][i] = [job |-> j, attempt |-> attempts[j]]

-----------------------------------------------------------------------------
Init ==
  /\ status = [j \in Jobs |-> "absent"]
  /\ attempts = [j \in Jobs |-> 0]
  /\ lockedBy = [j \in Jobs |-> NoWorker]
  /\ due = {}
  /\ earlier = {}
  /\ expired = {}
  /\ pc = [w \in Workers |-> "down"]
  /\ batch = [w \in Workers |-> <<>>]
  /\ stopping = [w \in Workers |-> FALSE]
  /\ faults = 0
  /\ stops = 0
  /\ overruns = [j \in Jobs |-> 0]
  /\ alerted = {}

(***************************************************************************)
(* The table and the clock.                                                *)
(***************************************************************************)

\* enqueue_job: insert the row unless its key is there already, whatever its
\* status.
Enqueue(j) ==
  /\ status[j] = "absent"
  /\ status' = [status EXCEPT ![j] = "pending"]
  /\ IF j \in Delayed
     THEN UNCHANGED <<due, earlier>>
     ELSE /\ due' = due \cup {j}
          /\ earlier' = earlier \cup (due \X {j})
  /\ UNCHANGED <<attempts, lockedBy, expired, pc, batch, stopping, counters, alerted>>

\* The clock passes run_at of a pending job.
BecomeDue(j) ==
  /\ status[j] = "pending"
  /\ j \notin due
  /\ due' = due \cup {j}
  /\ earlier' = earlier \cup (due \X {j})
  /\ UNCHANGED <<status, attempts, lockedBy, expired, pc, batch, stopping, counters, alerted>>

\* The clock passes locked_at + LEASE_TIMEOUT of a job whose worker lost it.
LeaseExpires(j) ==
  /\ status[j] = "running"
  /\ j \notin expired
  /\ ~Held(j)
  /\ expired' = expired \cup {j}
  /\ UNCHANGED <<status, attempts, lockedBy, due, earlier, pc, batch, stopping, counters, alerted>>

\* The same of a job whose worker is still busy with its batch: a slow handler,
\* or slow handlers ahead of it.  No step of the worker renews locked_at.
LeaseOverruns(j) ==
  /\ status[j] = "running"
  /\ j \notin expired
  /\ Held(j)
  /\ overruns[j] < MaxOverruns[j]
  /\ expired' = expired \cup {j}
  /\ overruns' = [overruns EXCEPT ![j] = @ + 1]
  /\ UNCHANGED <<status, attempts, lockedBy, due, earlier, pc, batch, stopping,
                 faults, stops, alerted>>

(***************************************************************************)
(* The poll loop of one worker.                                            *)
(***************************************************************************)

Start(w) ==
  /\ pc[w] = "down"
  /\ pc' = [pc EXCEPT ![w] = "wait"]
  /\ UNCHANGED <<table, batch, stopping, counters, alerted>>

\* while not shutdown.is_set(): the only place that looks at the event.
Wake(w) ==
  /\ pc[w] = "wait"
  /\ ~stopping[w]
  /\ pc' = [pc EXCEPT ![w] = "reclaim"]
  /\ UNCHANGED <<table, batch, stopping, counters, alerted>>

Stop(w) ==
  /\ pc[w] = "wait"
  /\ stopping[w]
  /\ pc' = [pc EXCEPT ![w] = "down"]
  /\ stopping' = [stopping EXCEPT ![w] = FALSE]
  /\ UNCHANGED <<table, batch, counters, alerted>>

\* Mutant: the cutoff is dropped.
StuckAnyAge == {j \in Jobs : status[j] = "running"}

\* Mutant: a row that has used its attempts is left running.
StuckUnlessExhausted ==
  {j \in expired : status[j] = "running" /\ attempts[j] < MaxAttempts}

\* WHERE status = 'running' AND locked_at < older_than.
Stuck == {j \in expired : status[j] = "running"}

\* reclaim_stuck: whoever holds the rows, and however many attempts they have used.
Reclaim(w) ==
  /\ pc[w] = "reclaim"
  /\ status' = [j \in Jobs |-> IF j \in Stuck THEN "pending" ELSE status[j]]
  /\ lockedBy' = [j \in Jobs |-> IF j \in Stuck THEN NoWorker ELSE lockedBy[j]]
  /\ expired' = expired \ Stuck
  /\ pc' = [pc EXCEPT ![w] = "select"]
  /\ UNCHANGED <<attempts, due, earlier, batch, stopping, counters, alerted>>

\* list_pending_due: the rows are locked until Claim commits, and the attempts
\* column is read here.
Select(w) ==
  /\ pc[w] = "select"
  /\ \E n \in 0 .. Limit : \E b \in [1 .. n -> Pickable] :
       /\ InRunAtOrder(b)
       /\ batch' = [batch EXCEPT ![w] =
                      [i \in 1 .. n |-> [job |-> b[i], attempt |-> attempts[b[i]]]]]
  /\ pc' = [pc EXCEPT ![w] = "claim"]
  /\ UNCHANGED <<table, stopping, counters, alerted>>

\* Mutant: one is added to attempts that the session had refreshed.
AttemptsTwice(t) == [job |-> t.job, attempt |-> t.attempt + 2]

\* set_committed_value(job, "attempts", prior_attempts + 1).
SyncAttempts(t) == [job |-> t.job, attempt |-> t.attempt + 1]

\* mark_running of each row (attempts + 1 on the server), the same in memory of
\* the attempts read, and the commit.
Claim(w) ==
  /\ pc[w] = "claim"
  /\ status' = [j \in Jobs |-> IF j \in BatchJobs(w) THEN "running" ELSE status[j]]
  /\ attempts' = [j \in Jobs |-> IF j \in BatchJobs(w) THEN attempts[j] + 1 ELSE attempts[j]]
  /\ lockedBy' = [j \in Jobs |-> IF j \in BatchJobs(w) THEN w ELSE lockedBy[j]]
  /\ expired' = expired \ BatchJobs(w)
  /\ batch' = [batch EXCEPT ![w] = [i \in DOMAIN batch[w] |-> SyncAttempts(batch[w][i])]]
  /\ pc' = [pc EXCEPT ![w] = "run"]
  /\ UNCHANGED <<due, earlier, stopping, counters, alerted>>

\* Mutant: the loop over the batch looks at the shutdown event.
EndBatchOnShutdown(w) ==
  /\ pc[w] = "run"
  /\ batch[w] = <<>> \/ stopping[w]
  /\ batch' = [batch EXCEPT ![w] = <<>>]
  /\ pc' = [pc EXCEPT ![w] = "wait"]
  /\ UNCHANGED <<table, stopping, counters, alerted>>

\* The for loop over the batch ends: wait for the poll interval.
EndBatch(w) ==
  /\ pc[w] = "run"
  /\ batch[w] = <<>>
  /\ pc' = [pc EXCEPT ![w] = "wait"]
  /\ UNCHANGED <<table, batch, stopping, counters, alerted>>

\* _run_one up to the end of the handler, which runs outside any transaction
\* of the worker.
HandlerReturns(w) ==
  /\ pc[w] = "run"
  /\ batch[w] # <<>>
  /\ Current(w).job \in Known
  /\ pc' = [pc EXCEPT ![w] = "returned"]
  /\ UNCHANGED <<table, batch, stopping, counters, alerted>>

HandlerRaises(w) ==
  /\ pc[w] = "run"
  /\ batch[w] # <<>>
  /\ Current(w).job \in Known
  /\ pc' = [pc EXCEPT ![w] = "raised"]
  /\ UNCHANGED <<table, batch, stopping, counters, alerted>>

NoHandler(w) ==
  /\ pc[w] = "run"
  /\ batch[w] # <<>>
  /\ Current(w).job \notin Known
  /\ pc' = [pc EXCEPT ![w] = "unknown"]
  /\ UNCHANGED <<table, batch, stopping, counters, alerted>>

\* The UPDATE of a finalize: WHERE id = ... and nothing else.  It waits for a
\* row lock, and does not ask who holds the job now.
Finalize(w, result) ==
  LET j == Current(w).job IN
  /\ j \notin LockedRows
  /\ status' = [status EXCEPT ![j] = result]
  /\ lockedBy' = [lockedBy EXCEPT ![j] = NoWorker]
  /\ expired' = expired \ {j}
  /\ UNCHANGED attempts

MarkDone(w) ==
  /\ pc[w] = "returned"
  /\ Finalize(w, "done")
  /\ batch' = [batch EXCEPT ![w] = Tail(@)]
  /\ pc' = [pc EXCEPT ![w] = "run"]
  /\ UNCHANGED <<due, earlier, stopping, counters, alerted>>

\* Mutant: attempts > max_attempts.
ExhaustedLate(w) == Current(w).attempt > MaxAttempts

\* job.attempts >= job.max_attempts, of the job in memory.
Exhausted(w) == Current(w).attempt >= MaxAttempts

\* reschedule: run_at moves into the future (apply_backoff).
Reschedule(w) ==
  LET j == Current(w).job IN
  /\ pc[w] = "raised"
  /\ ~Exhausted(w)
  /\ Finalize(w, "pending")
  /\ due' = due \ {j}
  /\ earlier' = {e \in earlier : e[1] # j /\ e[2] # j}
  /\ batch' = [batch EXCEPT ![w] = Tail(@)]
  /\ pc' = [pc EXCEPT ![w] = "run"]
  /\ UNCHANGED <<stopping, counters, alerted>>

MarkFailedTerminal(w) ==
  /\ \/ pc[w] = "raised" /\ Exhausted(w)
     \/ pc[w] = "unknown"
  /\ Finalize(w, "failed")
  /\ pc' = [pc EXCEPT ![w] = "alert"]
  /\ UNCHANGED <<due, earlier, batch, stopping, counters, alerted>>

\* _send_operator_alert, after the commit; a failure to send is swallowed.
SendOperatorAlert(w) ==
  /\ pc[w] = "alert"
  /\ \/ alerted' = alerted \cup {Current(w).job}
     \/ UNCHANGED alerted
  /\ batch' = [batch EXCEPT ![w] = Tail(@)]
  /\ pc' = [pc EXCEPT ![w] = "run"]
  /\ UNCHANGED <<table, stopping, counters>>

(***************************************************************************)
(* What happens to a worker.                                               *)
(***************************************************************************)

\* Mutant: the rest of the batch survives the error.
TickErrorKeepsBatch(w) ==
  /\ pc[w] \in {"reclaim", "select", "claim", "returned", "raised", "unknown"}
  /\ faults < MaxFaults
  /\ faults' = faults + 1
  /\ pc' = [pc EXCEPT ![w] = "wait"]
  /\ UNCHANGED <<table, batch, stopping, stops, overruns, alerted>>

\* A transaction of the tick raises: it is rolled back, and the tick's except
\* clause drops the rest of the batch.
TickError(w) ==
  /\ pc[w] \in {"reclaim", "select", "claim", "returned", "raised", "unknown"}
  /\ faults < MaxFaults
  /\ faults' = faults + 1
  /\ batch' = [batch EXCEPT ![w] = <<>>]
  /\ pc' = [pc EXCEPT ![w] = "wait"]
  /\ UNCHANGED <<table, stopping, stops, overruns, alerted>>

\* The process dies; Postgres rolls an open transaction back.
Crash(w) ==
  /\ pc[w] # "down"
  /\ faults < MaxFaults
  /\ faults' = faults + 1
  /\ batch' = [batch EXCEPT ![w] = <<>>]
  /\ pc' = [pc EXCEPT ![w] = "down"]
  /\ stopping' = [stopping EXCEPT ![w] = FALSE]
  /\ UNCHANGED <<table, stops, overruns, alerted>>

\* SIGTERM or SIGINT sets the shutdown event.
Signal(w) ==
  /\ pc[w] # "down"
  /\ ~stopping[w]
  /\ stops < MaxStops
  /\ stops' = stops + 1
  /\ stopping' = [stopping EXCEPT ![w] = TRUE]
  /\ UNCHANGED <<table, pc, batch, faults, overruns, alerted>>

-----------------------------------------------------------------------------
RunWorker(w) ==
  \/ Wake(w) \/ Stop(w) \/ Reclaim(w) \/ Select(w) \/ Claim(w) \/ EndBatch(w)
  \/ HandlerReturns(w) \/ HandlerRaises(w) \/ NoHandler(w)
  \/ MarkDone(w) \/ Reschedule(w) \/ MarkFailedTerminal(w) \/ SendOperatorAlert(w)

Next ==
  \/ \E j \in Jobs : Enqueue(j) \/ BecomeDue(j) \/ LeaseExpires(j) \/ LeaseOverruns(j)
  \/ \E w \in Workers : Start(w) \/ RunWorker(w) \/ TickError(w) \/ Crash(w) \/ Signal(w)

Spec == Init /\ [][Next]_vars

\* A live worker takes its next step (so a handler returns or raises) and one
\* that is down is started again (restart: unless-stopped); and time passes.
Fairness ==
  /\ \A w \in Workers : WF_vars(Start(w) \/ RunWorker(w))
  /\ \A j \in Jobs : WF_vars(BecomeDue(j) \/ LeaseExpires(j))

FairSpec == Spec /\ Fairness

-----------------------------------------------------------------------------
(***************************************************************************)
(* Properties.                                                             *)
(***************************************************************************)

\* The types of the variables; a worker between batches holds nothing, and one
\* busy with a job still has that job at the head of its batch.
TypeOK ==
  /\ status \in [Jobs -> Statuses]
  /\ attempts \in [Jobs -> Nat]
  /\ lockedBy \in [Jobs -> Workers \cup {NoWorker}]
  /\ due \subseteq Jobs
  /\ earlier \subseteq Jobs \X Jobs
  /\ expired \subseteq Jobs
  /\ pc \in [Workers -> Idle \cup Busy \cup {"claim", "run"}]
  /\ batch \in [Workers -> Seq(Take)]
  /\ stopping \in [Workers -> BOOLEAN]
  /\ faults \in 0 .. MaxFaults
  /\ stops \in 0 .. MaxStops
  /\ overruns \in [Jobs -> Nat]
  /\ \A j \in Jobs : overruns[j] <= MaxOverruns[j]
  /\ alerted \subseteq Jobs
  /\ \A w \in Workers : /\ pc[w] \in Idle => batch[w] = <<>>
                        /\ pc[w] \in Busy => batch[w] # <<>>

\* The positions of all committed batches.
Taken == {p \in Workers \X (1 .. Limit) : /\ pc[p[1]] # "claim"
                                          /\ p[2] \in DOMAIN batch[p[1]]}

TakeAt(p) == batch[p[1]][p[2]]

\* What FOR UPDATE SKIP LOCKED does guarantee (runner.py:8-9): no two workers,
\* and no two places of one batch, ever hold one job under one attempt number,
\* however leases expire.  The attempt number in memory is the row's only
\* because the row stays locked from the SELECT to the commit.
OneTakePerAttempt ==
  \A p, q \in Taken : TakeAt(p) = TakeAt(q) => p = q

\* As long as no worker outlives its lease, one worker at a time has the job:
\* a crash, a failed tick or a shutdown never makes two of them run it.
SingleTakeUnlessOverrun ==
  \A p, q \in Taken :
     TakeAt(p).job = TakeAt(q).job /\ overruns[TakeAt(p).job] = 0 => p = q

\* Without a crash or a failed tick no running row is ever orphaned, not even by
\* a shutdown in the middle of a batch or by a stale worker's finalize: the
\* worker in locked_by has the job, under the row's attempt number.
RunningIsHeldByOwner ==
  faults = 0 => \A j \in Jobs : status[j] = "running" =>
     \E p \in Taken : /\ p[1] = lockedBy[j]
                      /\ TakeAt(p) = [job |-> j, attempt |-> attempts[j]]

\* How far attempts can go: max_attempts, and one more for each crash, failed
\* tick or overrun lease, since reclaim_stuck does not count attempts.
AttemptsBudget ==
  \A j \in Jobs : attempts[j] <= MaxAttempts + faults + overruns[j]

\* A job fails for good only after max_attempts picks, unless nothing handles
\* its type: a stale or duplicate take never fails a job early.
FailedOnlyWhenExhausted ==
  \A j \in Jobs : status[j] = "failed" /\ j \in Known => attempts[j] >= MaxAttempts

\* done and failed are final as long as no worker outlived the job's lease:
\* the finalize UPDATEs check nothing, yet none of them reaches a finished row.
TerminalFinalUnlessOverrun ==
  [][\A j \in Jobs : status[j] \in Terminal /\ overruns[j] = 0 => status'[j] = status[j]]_vars

\* Every job settles: with finitely many faults, stops and overruns an enqueued
\* job ends up done or failed and stays so, whoever crashed while running it.
EveryJobSettles ==
  \A j \in Jobs : <>[](status[j] \in Terminal \cup {"absent"})

-----------------------------------------------------------------------------
(***************************************************************************)
(* What the documents say, and the code does not do.                       *)
(***************************************************************************)

\* "status='failed' + Telegram alert": once the worker that failed the job is
\* past its alert, the operator has it.
FailureIsAlerted ==
  \A j \in Jobs : status[j] = "failed" =>
     \/ j \in alerted
     \/ \E w \in Workers : pc[w] = "alert" /\ Current(w).job = j
=============================================================================
