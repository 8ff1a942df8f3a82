--------------------------- MODULE JobQueueProofs ---------------------------
(***************************************************************************)
(* Theorems about JobQueue, for any number of workers and jobs and any     *)
(* bounds on faults, stops and overruns; the last is that JobQueue         *)
(* implements Delivery, so that what is proved of Delivery, and of the     *)
(* handlers on top of it, holds of the queue's table.                      *)
(***************************************************************************)
EXTENDS JobQueueRefines, TLAPS, FiniteSetTheorems

-----------------------------------------------------------------------------
(* A batch is a sequence of takes.                                         *)

\* What the rest of a batch is: the loop drops the job it has finished.
LEMMA TailTake ==
  ASSUME NEW s \in Seq(Take), s # <<>>
  PROVE  /\ Tail(s) \in Seq(Take)
         /\ Head(s) \in Take
         /\ \A i \in DOMAIN Tail(s) : i + 1 \in DOMAIN s /\ Tail(s)[i] = s[i + 1]
  OBVIOUS

\* The elements of a sequence of takes.
LEMMA SeqTake ==
  ASSUME NEW s \in Seq(Take), NEW i \in DOMAIN s
  PROVE  s[i] \in Take /\ i \in Nat /\ i >= 1
  OBVIOUS

\* A batch holds takes, so its positions name jobs.
LEMMA BatchElement ==
  ASSUME TypeOK, NEW w \in Workers, NEW i \in DOMAIN batch[w]
  PROVE  /\ batch[w][i] \in Take
         /\ batch[w][i].job \in Jobs
         /\ batch[w][i].attempt \in Nat
         /\ i \in Nat
<1>1. batch[w] \in Seq(Take)
  BY DEF TypeOK
<1>2. batch[w][i] \in Take /\ i \in Nat
  BY <1>1, SeqTake
<1> QED
  BY <1>2 DEF Take

-----------------------------------------------------------------------------
(* Types.                                                                  *)

LEMMA TypeInit == Init => TypeOK
  BY JobQueueAssumption DEF Init, TypeOK, Statuses, Idle, Busy, Take

LEMMA FinalizeType ==
  ASSUME TypeOK, NEW w \in Workers, batch[w] # <<>>,
         NEW r \in Statuses, Finalize(w, r)
  PROVE  /\ Current(w).job \in Jobs
         /\ status' \in [Jobs -> Statuses]
         /\ lockedBy' \in [Jobs -> Workers \cup {NoWorker}]
         /\ expired' \subseteq Jobs
         /\ attempts' \in [Jobs -> Nat]
<1>1. batch[w] \in Seq(Take)
  BY DEF TypeOK
<1>2. Current(w) \in Take
  BY <1>1, TailTake DEF Current
<1>3. Current(w).job \in Jobs
  BY <1>2 DEF Take
<1> QED
  BY <1>3 DEF TypeOK, Finalize

\* TypeOK in two parts, the table with its bounds and the workers.
TableTyped ==
  /\ status \in [Jobs -> Statuses]
  /\ attempts \in [Jobs -> Nat]
  /\ lockedBy \in [Jobs -> Workers \cup {NoWorker}]
  /\ due \subseteq Jobs
  /\ earlier \subseteq Jobs \X Jobs
  /\ expired \subseteq Jobs
  /\ faults \in 0 .. MaxFaults
  /\ stops \in 0 .. MaxStops
  /\ overruns \in [Jobs -> Nat]
  /\ \A j \in Jobs : overruns[j] <= MaxOverruns[j]
  /\ alerted \subseteq Jobs

LoopTyped ==
  /\ pc \in [Workers -> Idle \cup Busy \cup {"claim", "run"}]
  /\ batch \in [Workers -> Seq(Take)]
  /\ stopping \in [Workers -> BOOLEAN]
  /\ \A w \in Workers : /\ pc[w] \in Idle => batch[w] = <<>>
                        /\ pc[w] \in Busy => batch[w] # <<>>

LEMMA TypeParts == TypeOK <=> TableTyped /\ LoopTyped
  BY DEF TypeOK, TableTyped, LoopTyped

LEMMA TypeStep == TypeOK /\ [Next]_vars => TypeOK'
<1>0. TypeOK' <=> TableTyped' /\ LoopTyped'
  BY TypeParts, PTL
<1> SUFFICES ASSUME TypeOK, [Next]_vars PROVE TypeOK'
  OBVIOUS
<1> USE JobQueueAssumption
<1>1. ASSUME NEW j \in Jobs, Enqueue(j) PROVE TypeOK'
  BY <1>1 DEF TypeOK, Enqueue, Statuses, counters
<1>2. ASSUME NEW j \in Jobs, BecomeDue(j) PROVE TypeOK'
  BY <1>2 DEF TypeOK, BecomeDue, counters
<1>3. ASSUME NEW j \in Jobs, LeaseExpires(j) PROVE TypeOK'
  BY <1>3 DEF TypeOK, LeaseExpires, counters
<1>4. ASSUME NEW j \in Jobs, LeaseOverruns(j) PROVE TypeOK'
  BY <1>4 DEF TypeOK, LeaseOverruns
<1>5. ASSUME NEW w \in Workers, Start(w) PROVE TypeOK'
  BY <1>5 DEF TypeOK, Start, table, counters, Idle, Busy
<1>6. ASSUME NEW w \in Workers, Wake(w) PROVE TypeOK'
  BY <1>6 DEF TypeOK, Wake, table, counters, Idle, Busy
<1>7. ASSUME NEW w \in Workers, Stop(w) PROVE TypeOK'
  BY <1>7 DEF TypeOK, Stop, table, counters, Idle, Busy
<1>8. ASSUME NEW w \in Workers, Reclaim(w) PROVE TypeOK'
  BY <1>8 DEF TypeOK, Reclaim, Stuck, Statuses, counters, Idle, Busy
<1>9. ASSUME NEW w \in Workers, Select(w) PROVE TypeOK'
  <2>0. PICK n \in 0 .. Limit : \E b \in [1 .. n -> Pickable] :
           batch' = [batch EXCEPT ![w] =
                       [i \in 1 .. n |-> [job |-> b[i], attempt |-> attempts[b[i]]]]]
    BY <1>9 DEF Select
  <2>1. PICK b \in [1 .. n -> Pickable] :
           batch' = [batch EXCEPT ![w] =
                       [i \in 1 .. n |-> [job |-> b[i], attempt |-> attempts[b[i]]]]]
    BY <2>0
  <2>2. Pickable \subseteq Jobs
    BY DEF TypeOK, Pickable
  <2>3. [i \in 1 .. n |-> [job |-> b[i], attempt |-> attempts[b[i]]]] \in Seq(Take)
    BY <2>2 DEF TypeOK, Take
  <2>4. batch' \in [Workers -> Seq(Take)]
    BY <2>1, <2>3 DEF TypeOK
  <2> QED
    BY <1>9, <2>1, <2>4 DEF TypeOK, Select, table, counters, Idle, Busy
<1>10. ASSUME NEW w \in Workers, Claim(w) PROVE TypeOK'
  <2>1. batch[w] \in Seq(Take)
    BY DEF TypeOK
  <2>2. DOMAIN batch[w] = 1 .. Len(batch[w]) /\ Len(batch[w]) \in Nat
    BY <2>1
  <2>3. \A i \in 1 .. Len(batch[w]) :
           [job |-> batch[w][i].job, attempt |-> batch[w][i].attempt + 1] \in Take
    BY <2>2, BatchElement DEF Take
  <2>4. [i \in DOMAIN batch[w] |->
           [job |-> batch[w][i].job, attempt |-> batch[w][i].attempt + 1]] \in Seq(Take)
    BY <2>2, <2>3
  <2>5. batch' \in [Workers -> Seq(Take)]
    BY <1>10, <2>4 DEF TypeOK, Claim, SyncAttempts
  <2>6. TableTyped'
    <3>1. status' \in [Jobs -> Statuses] /\ attempts' \in [Jobs -> Nat]
      BY <1>10 DEF TypeOK, Claim, Statuses
    <3>2. lockedBy' \in [Jobs -> Workers \cup {NoWorker}] /\ expired' \subseteq Jobs
      BY <1>10 DEF TypeOK, Claim
    <3> QED
      BY <1>10, <3>1, <3>2 DEF TypeOK, TableTyped, Claim, counters
  <2>7. LoopTyped'
    <3>1. pc' = [pc EXCEPT ![w] = "run"] /\ stopping' = stopping
      BY <1>10 DEF Claim
    <3>2. \A v \in Workers \ {w} : batch'[v] = batch[v]
      BY <1>10 DEF Claim, TypeOK
    <3>3. \A v \in Workers : /\ pc'[v] \in Idle => batch'[v] = <<>>
                             /\ pc'[v] \in Busy => batch'[v] # <<>>
      BY <3>1, <3>2 DEF TypeOK, Idle, Busy
    <3> QED
      BY <2>5, <3>1, <3>3 DEF TypeOK, LoopTyped
  <2> QED
    BY <1>0, <2>6, <2>7
<1>11. ASSUME NEW w \in Workers, EndBatch(w) PROVE TypeOK'
  BY <1>11 DEF TypeOK, EndBatch, table, counters, Idle, Busy
<1>12. ASSUME NEW w \in Workers, HandlerReturns(w) \/ HandlerRaises(w) \/ NoHandler(w)
       PROVE TypeOK'
  BY <1>12 DEF TypeOK, HandlerReturns, HandlerRaises, NoHandler, table, counters, Idle, Busy
<1>13. ASSUME NEW w \in Workers, MarkDone(w) PROVE TypeOK'
  <2>1. batch[w] # <<>> /\ batch[w] \in Seq(Take)
    BY <1>13 DEF TypeOK, MarkDone, Busy
  <2>2. "done" \in Statuses /\ Finalize(w, "done")
    BY <1>13 DEF MarkDone, Statuses
  <2>3. Tail(batch[w]) \in Seq(Take)
    BY <2>1, TailTake
  <2> QED
    BY <1>13, <2>1, <2>2, <2>3, FinalizeType DEF TypeOK, MarkDone, counters, Idle, Busy
<1>14. ASSUME NEW w \in Workers, Reschedule(w) PROVE TypeOK'
  <2>1. batch[w] # <<>> /\ batch[w] \in Seq(Take)
    BY <1>14 DEF TypeOK, Reschedule, Busy
  <2>2. "pending" \in Statuses /\ Finalize(w, "pending")
    BY <1>14 DEF Reschedule, Statuses
  <2>3. Tail(batch[w]) \in Seq(Take)
    BY <2>1, TailTake
  <2> QED
    BY <1>14, <2>1, <2>2, <2>3, FinalizeType DEF TypeOK, Reschedule, counters, Idle, Busy
<1>15. ASSUME NEW w \in Workers, MarkFailedTerminal(w) PROVE TypeOK'
  <2>1. batch[w] # <<>>
    BY <1>15 DEF TypeOK, MarkFailedTerminal, Busy
  <2>2. "failed" \in Statuses /\ Finalize(w, "failed")
    BY <1>15 DEF MarkFailedTerminal, Statuses
  <2> QED
    BY <1>15, <2>1, <2>2, FinalizeType
    DEF TypeOK, MarkFailedTerminal, counters, Idle, Busy
<1>16. ASSUME NEW w \in Workers, SendOperatorAlert(w) PROVE TypeOK'
  <2>1. batch[w] # <<>> /\ batch[w] \in Seq(Take)
    BY <1>16 DEF TypeOK, SendOperatorAlert, Busy
  <2>2. Tail(batch[w]) \in Seq(Take) /\ Current(w).job \in Jobs
    BY <2>1, TailTake DEF Current, Take
  <2> QED
    BY <1>16, <2>1, <2>2 DEF TypeOK, SendOperatorAlert, table, counters, Idle, Busy
<1>17. ASSUME NEW w \in Workers, TickError(w) PROVE TypeOK'
  BY <1>17 DEF TypeOK, TickError, table, Idle, Busy
<1>18. ASSUME NEW w \in Workers, Crash(w) PROVE TypeOK'
  BY <1>18 DEF TypeOK, Crash, table, Idle, Busy
<1>19. ASSUME NEW w \in Workers, Signal(w) PROVE TypeOK'
  BY <1>19 DEF TypeOK, Signal, table, Idle, Busy
<1>20. CASE UNCHANGED vars
  BY <1>20 DEF TypeOK, vars, table, counters
<1> QED
  BY <1>1, <1>2, <1>3, <1>4, <1>5, <1>6, <1>7, <1>8, <1>9, <1>10, <1>11, <1>12,
     <1>13, <1>14, <1>15, <1>16, <1>17, <1>18, <1>19, <1>20
  DEF Next, RunWorker

\* Every reachable state is well typed: in particular a worker between batches
\* holds no job and one that is busy has a job at the head of its batch.
THEOREM TypeCorrect == Spec => []TypeOK
  BY TypeInit, TypeStep, PTL DEF Spec

-----------------------------------------------------------------------------
(***************************************************************************)
(* One take per attempt number.                                            *)
(*                                                                         *)
(* OneTakePerAttempt is not inductive: a second take under the same number *)
(* would come from a claim that read attempts before another claim raised  *)
(* it.  The strengthening says what the row locks are worth: the rows of   *)
(* an open pick are pending, locked by that pick alone, and have the       *)
(* attempts it read; and no committed take is numbered above its row.      *)
(***************************************************************************)

\* run_at order is irreflexive, and only rows that exist have a run_at.
DueOrder ==
  /\ \A j \in due : status[j] # "absent"
  /\ \A j \in Jobs : <<j, j>> \notin earlier

\* The rows a pick has locked are as it read them.
RowsAsRead ==
  \A w \in Workers : \A i \in DOMAIN batch[w] : pc[w] = "claim" =>
     /\ status[batch[w][i].job] = "pending"
     /\ batch[w][i].attempt = attempts[batch[w][i].job]

\* No row is locked by two picks, or picked twice by one.
RowLocks ==
  \A v, w \in Workers : \A i \in DOMAIN batch[v], k \in DOMAIN batch[w] :
     /\ pc[v] = "claim"
     /\ pc[w] = "claim"
     /\ batch[v][i].job = batch[w][k].job
     => v = w /\ i = k

\* The attempt number of a committed take was written to its row.
TakesNumbered ==
  \A w \in Workers : \A i \in DOMAIN batch[w] :
     pc[w] # "claim" => batch[w][i].attempt <= attempts[batch[w][i].job]

\* OneTakePerAttempt, with the positions not bounded by Limit.
TakesDistinct ==
  \A v, w \in Workers : \A i \in DOMAIN batch[v], k \in DOMAIN batch[w] :
     /\ pc[v] # "claim"
     /\ pc[w] # "claim"
     /\ batch[v][i] = batch[w][k]
     => v = w /\ i = k

TakeInv == DueOrder /\ RowsAsRead /\ RowLocks /\ TakesNumbered /\ TakesDistinct

\* Steps that leave the batches alone keep the facts about them, as long as
\* the rows of open picks stay pending.
LEMMA QuietStep ==
  ASSUME TypeOK, TakeInv,
         batch' = batch, attempts' = attempts,
         \A v \in Workers : (pc'[v] = "claim") <=> (pc[v] = "claim"),
         \A j \in LockedRows : status[j] = "pending" => status'[j] = "pending"
  PROVE  (RowsAsRead /\ RowLocks /\ TakesNumbered /\ TakesDistinct)'
<1>1. ASSUME NEW w \in Workers, NEW i \in DOMAIN batch[w], pc[w] = "claim"
      PROVE  batch[w][i].job \in LockedRows
  BY <1>1 DEF LockedRows, BatchJobs
<1>2. RowsAsRead'
  BY <1>1 DEF TakeInv, RowsAsRead
<1>3. (RowLocks /\ TakesNumbered /\ TakesDistinct)'
  BY DEF TakeInv, RowLocks, TakesNumbered, TakesDistinct
<1> QED
  BY <1>2, <1>3

\* Steps in which a worker drops the head of its committed batch, or all of it.
LEMMA DropStep ==
  ASSUME TypeOK, TakeInv, NEW w \in Workers,
         attempts' = attempts,
         pc'[w] # "claim",
         \A v \in Workers \ {w} : pc'[v] = pc[v] /\ batch'[v] = batch[v],
         \/ batch'[w] = <<>>
         \/ pc[w] # "claim" /\ batch[w] # <<>> /\ batch'[w] = Tail(batch[w]),
         \A j \in LockedRows : status[j] = "pending" => status'[j] = "pending"
  PROVE  (RowsAsRead /\ RowLocks /\ TakesNumbered /\ TakesDistinct)'
<1>1. ASSUME NEW v \in Workers, NEW i \in DOMAIN batch[v], pc[v] = "claim"
      PROVE  batch[v][i].job \in LockedRows
  BY <1>1 DEF LockedRows, BatchJobs
<1>2. RowsAsRead'
  BY <1>1 DEF TakeInv, RowsAsRead
<1>3. RowLocks'
  BY DEF TakeInv, RowLocks
<1>4. \A i \in DOMAIN batch'[w] :
         /\ pc[w] # "claim"
         /\ i + 1 \in DOMAIN batch[w]
         /\ batch'[w][i] = batch[w][i + 1]
         /\ i \in Nat
  <2>1. batch[w] \in Seq(Take)
    BY DEF TypeOK
  <2>2. CASE batch'[w] = <<>>
    BY <2>2
  <2>3. CASE pc[w] # "claim" /\ batch[w] # <<>> /\ batch'[w] = Tail(batch[w])
    BY <2>1, <2>3, TailTake, SeqTake
  <2> QED
    BY <2>2, <2>3
<1>5. TakesNumbered'
  BY <1>4 DEF TakeInv, TakesNumbered
<1>6. TakesDistinct'
  <2> SUFFICES ASSUME NEW u \in Workers, NEW v \in Workers,
                      NEW i \in DOMAIN batch'[u], NEW k \in DOMAIN batch'[v],
                      pc'[u] # "claim", pc'[v] # "claim",
                      batch'[u][i] = batch'[v][k]
               PROVE  u = v /\ i = k
    BY DEF TakesDistinct
  <2>1. CASE u # w /\ v # w
    BY <2>1 DEF TakeInv, TakesDistinct
  <2>2. CASE u = w /\ v # w
    BY <2>2, <1>4 DEF TakeInv, TakesDistinct
  <2>3. CASE u # w /\ v = w
    BY <2>3, <1>4 DEF TakeInv, TakesDistinct
  <2>4. CASE u = w /\ v = w
    <3>1. i + 1 = k + 1 /\ i \in Nat /\ k \in Nat
      BY <2>4, <1>4 DEF TakeInv, TakesDistinct
    <3> QED
      BY <3>1, <2>4
  <2> QED
    BY <2>1, <2>2, <2>3, <2>4
<1> QED
  BY <1>2, <1>3, <1>5, <1>6

\* A pick locks rows that no other pick has, each of them once.
LEMMA SelectStep ==
  ASSUME TypeOK, TakeInv, NEW w \in Workers, Select(w)
  PROVE  TakeInv'
<1>1. PICK n \in 0 .. Limit : \E b \in [1 .. n -> Pickable] :
         /\ InRunAtOrder(b)
         /\ batch' = [batch EXCEPT ![w] =
                        [i \in 1 .. n |-> [job |-> b[i], attempt |-> attempts[b[i]]]]]
  BY DEF Select
<1>2. PICK b \in [1 .. n -> Pickable] :
         /\ InRunAtOrder(b)
         /\ batch' = [batch EXCEPT ![w] =
                        [i \in 1 .. n |-> [job |-> b[i], attempt |-> attempts[b[i]]]]]
  BY <1>1
<1>3. /\ pc' = [pc EXCEPT ![w] = "claim"]
      /\ pc[w] = "select"
      /\ UNCHANGED <<status, attempts, due, earlier>>
  BY DEF Select, table
<1>4. batch'[w] = [i \in 1 .. n |-> [job |-> b[i], attempt |-> attempts[b[i]]]]
  BY <1>2 DEF TypeOK
<1>5. DOMAIN batch'[w] = 1 .. n /\ n \in Nat
  BY <1>4, JobQueueAssumption
<1>6. \A i \in 1 .. n : /\ batch'[w][i].job = b[i]
                        /\ batch'[w][i].attempt = attempts[b[i]]
                        /\ b[i] \in Pickable
  BY <1>2, <1>4
<1>7. \A v \in Workers \ {w} : batch'[v] = batch[v] /\ pc'[v] = pc[v]
  BY <1>2, <1>3 DEF TypeOK
<1>8. pc'[w] = "claim"
  BY <1>3 DEF TypeOK
<1>9. \A i, k \in 1 .. n : b[i] = b[k] => i = k
  <2> SUFFICES ASSUME NEW i \in 1 .. n, NEW k \in 1 .. n, b[i] = b[k], i # k
               PROVE  FALSE
    OBVIOUS
  <2>1. b[i] \in Jobs
    BY <1>6 DEF Pickable, TypeOK
  <2>2. DOMAIN b = 1 .. n
    BY <1>2
  <2>3. i < k \/ k < i
    BY <1>5
  <2>4. <<b[i], b[k]>> \in earlier \/ <<b[k], b[i]>> \in earlier
    BY <2>2, <2>3, <1>2 DEF InRunAtOrder
  <2> QED
    BY <2>1, <2>4 DEF TakeInv, DueOrder
<1>10. \A v \in Workers : \A k \in DOMAIN batch[v] :
          pc[v] = "claim" => batch[v][k].job \notin Pickable
  BY DEF Pickable, LockedRows, BatchJobs
<1>11. DueOrder'
  BY <1>3 DEF TakeInv, DueOrder
<1>12. RowsAsRead'
  <2> SUFFICES ASSUME NEW v \in Workers, NEW i \in DOMAIN batch'[v], pc'[v] = "claim"
               PROVE  /\ status[batch'[v][i].job] = "pending"
                      /\ batch'[v][i].attempt = attempts[batch'[v][i].job]
    BY <1>3 DEF RowsAsRead
  <2>1. CASE v = w
    BY <2>1, <1>5, <1>6 DEF Pickable
  <2>2. CASE v # w
    BY <2>2, <1>7 DEF TakeInv, RowsAsRead
  <2> QED
    BY <2>1, <2>2
<1>13. RowLocks'
  <2> SUFFICES ASSUME NEW u \in Workers, NEW v \in Workers,
                      NEW i \in DOMAIN batch'[u], NEW k \in DOMAIN batch'[v],
                      pc'[u] = "claim", pc'[v] = "claim",
                      batch'[u][i].job = batch'[v][k].job
               PROVE  u = v /\ i = k
    BY DEF RowLocks
  <2>1. CASE u = w /\ v = w
    BY <2>1, <1>5, <1>6, <1>9
  <2>2. CASE u = w /\ v # w
    BY <2>2, <1>5, <1>6, <1>7, <1>10
  <2>3. CASE u # w /\ v = w
    BY <2>3, <1>5, <1>6, <1>7, <1>10
  <2>4. CASE u # w /\ v # w
    BY <2>4, <1>7 DEF TakeInv, RowLocks
  <2> QED
    BY <2>1, <2>2, <2>3, <2>4
<1>14. TakesNumbered'
  BY <1>3, <1>7, <1>8 DEF TakeInv, TakesNumbered
<1>15. TakesDistinct'
  BY <1>7, <1>8 DEF TakeInv, TakesDistinct
<1> QED
  BY <1>11, <1>12, <1>13, <1>14, <1>15 DEF TakeInv

\* The commit of a pick numbers its takes above every earlier take of the rows.
LEMMA ClaimStep ==
  ASSUME TypeOK, TakeInv, NEW w \in Workers, Claim(w)
  PROVE  TakeInv'
<1>1. /\ pc[w] = "claim"
      /\ pc'[w] = "run"
      /\ \A v \in Workers \ {w} : batch'[v] = batch[v] /\ pc'[v] = pc[v]
      /\ batch'[w] = [i \in DOMAIN batch[w] |->
                        [job |-> batch[w][i].job, attempt |-> batch[w][i].attempt + 1]]
      /\ UNCHANGED <<due, earlier>>
  BY DEF Claim, SyncAttempts, TypeOK
<1>2. \A j \in Jobs :
         /\ j \in BatchJobs(w) => status'[j] = "running" /\ attempts'[j] = attempts[j] + 1
         /\ j \notin BatchJobs(w) => status'[j] = status[j] /\ attempts'[j] = attempts[j]
  BY DEF Claim
<1>3. \A j \in Jobs : attempts[j] \in Nat
  BY DEF TypeOK
<1>4. \A i \in DOMAIN batch'[w] :
         /\ i \in DOMAIN batch[w]
         /\ batch'[w][i].job = batch[w][i].job
         /\ batch[w][i].job \in BatchJobs(w)
         /\ batch[w][i].job \in Jobs
         /\ batch'[w][i].attempt = attempts[batch[w][i].job] + 1
  BY <1>1, BatchElement DEF TakeInv, RowsAsRead, BatchJobs
<1>5. \A v \in Workers \ {w} : \A k \in DOMAIN batch[v] :
         pc[v] = "claim" => batch[v][k].job \notin BatchJobs(w)
  BY <1>1 DEF TakeInv, RowLocks, BatchJobs
<1>6. DueOrder'
  <2>1. due \subseteq Jobs
    BY DEF TypeOK
  <2> QED
    BY <1>1, <1>2, <2>1 DEF TakeInv, DueOrder
<1>7. RowsAsRead'
  <2> SUFFICES ASSUME NEW v \in Workers, NEW i \in DOMAIN batch'[v], pc'[v] = "claim"
               PROVE  /\ status'[batch'[v][i].job] = "pending"
                      /\ batch'[v][i].attempt = attempts'[batch'[v][i].job]
    BY DEF RowsAsRead
  <2>1. v # w /\ batch'[v] = batch[v] /\ pc[v] = "claim"
    BY <1>1
  <2>2. batch[v][i].job \in Jobs /\ batch[v][i].job \notin BatchJobs(w)
    BY <2>1, <1>5, BatchElement
  <2> QED
    BY <2>1, <2>2, <1>2 DEF TakeInv, RowsAsRead
<1>8. RowLocks'
  BY <1>1 DEF TakeInv, RowLocks
<1>9. TakesNumbered'
  <2> SUFFICES ASSUME NEW v \in Workers, NEW i \in DOMAIN batch'[v], pc'[v] # "claim"
               PROVE  batch'[v][i].attempt <= attempts'[batch'[v][i].job]
    BY DEF TakesNumbered
  <2>1. CASE v = w
    BY <2>1, <1>2, <1>3, <1>4
  <2>2. CASE v # w
    <3>1. batch[v][i].job \in Jobs /\ batch[v][i].attempt \in Nat
      BY <2>2, <1>1, BatchElement
    <3>2. batch[v][i].attempt <= attempts[batch[v][i].job]
      BY <2>2, <1>1 DEF TakeInv, TakesNumbered
    <3> QED
      BY <3>1, <3>2, <2>2, <1>1, <1>2, <1>3
  <2> QED
    BY <2>1, <2>2
<1>10. TakesDistinct'
  <2> SUFFICES ASSUME NEW u \in Workers, NEW v \in Workers,
                      NEW i \in DOMAIN batch'[u], NEW k \in DOMAIN batch'[v],
                      pc'[u] # "claim", pc'[v] # "claim",
                      batch'[u][i] = batch'[v][k]
               PROVE  u = v /\ i = k
    BY DEF TakesDistinct
  <2>1. CASE u = w /\ v = w
    BY <2>1, <1>1, <1>4 DEF TakeInv, RowLocks
  <2>2. ASSUME NEW x \in Workers \ {w}, pc'[x] # "claim",
               NEW m \in DOMAIN batch'[x], NEW l \in DOMAIN batch'[w]
        PROVE  batch'[x][m] # batch'[w][l]
    <3>1. m \in DOMAIN batch[x] /\ batch'[x] = batch[x] /\ pc[x] # "claim"
      BY <2>2, <1>1
    <3>2. batch[x][m].attempt <= attempts[batch[x][m].job]
      BY <3>1 DEF TakeInv, TakesNumbered
    <3>3. batch[x][m].job \in Jobs /\ batch[x][m].attempt \in Nat
      BY <3>1, BatchElement
    <3>4. batch'[w][l].attempt = attempts[batch'[w][l].job] + 1
      BY <1>4
    <3> QED
      BY <3>1, <3>2, <3>3, <3>4, <1>3
  <2>3. CASE (u = w /\ v # w) \/ (u # w /\ v = w)
    BY <2>2, <2>3
  <2>4. CASE u # w /\ v # w
    BY <2>4, <1>1 DEF TakeInv, TakesDistinct
  <2> QED
    BY <2>1, <2>3, <2>4
<1> QED
  BY <1>6, <1>7, <1>8, <1>9, <1>10 DEF TakeInv

\* A finalize changes the status of one row, which no pick has locked.
LEMMA FinalizeStatus ==
  ASSUME TypeOK, NEW w \in Workers, NEW r \in {"done", "pending", "failed"}, Finalize(w, r)
  PROVE  /\ \A j \in LockedRows : status[j] = "pending" => status'[j] = "pending"
         /\ \A j \in Jobs : status'[j] # status[j] => status'[j] # "absent"
<1>1. LockedRows \subseteq Jobs
  BY BatchElement DEF LockedRows, BatchJobs
<1> QED
  BY <1>1 DEF Finalize, TypeOK

LEMMA TakeInit == Init => TakeInv
  BY DEF Init, TakeInv, DueOrder, RowsAsRead, RowLocks, TakesNumbered, TakesDistinct

LEMMA TakeStep == TypeOK /\ TakeInv /\ [Next]_vars => TakeInv'
<1> SUFFICES ASSUME TypeOK, TakeInv, [Next]_vars PROVE TakeInv'
  OBVIOUS
<1> DEFINE Rest == RowsAsRead /\ RowLocks /\ TakesNumbered /\ TakesDistinct
<1>t. /\ due \subseteq Jobs
      /\ earlier \subseteq Jobs \X Jobs
      /\ pc \in [Workers -> Idle \cup Busy \cup {"claim", "run"}]
  BY DEF TypeOK
<1>1. ASSUME NEW j \in Jobs, Enqueue(j) PROVE TakeInv'
  <2>1. Rest'
    BY <1>1, QuietStep DEF Enqueue, TypeOK
  <2>2. DueOrder'
    BY <1>1, <1>t DEF Enqueue, TakeInv, DueOrder, TypeOK
  <2> QED
    BY <2>1, <2>2 DEF TakeInv
<1>2. ASSUME NEW j \in Jobs, BecomeDue(j) PROVE TakeInv'
  <2>1. Rest'
    BY <1>2, QuietStep DEF BecomeDue, TypeOK
  <2>2. DueOrder'
    BY <1>2, <1>t DEF BecomeDue, TakeInv, DueOrder
  <2> QED
    BY <2>1, <2>2 DEF TakeInv
<1>3. ASSUME NEW j \in Jobs, LeaseExpires(j) \/ LeaseOverruns(j) PROVE TakeInv'
  <2>1. Rest'
    BY <1>3, QuietStep DEF LeaseExpires, LeaseOverruns
  <2>2. DueOrder'
    BY <1>3 DEF LeaseExpires, LeaseOverruns, TakeInv, DueOrder
  <2> QED
    BY <2>1, <2>2 DEF TakeInv
<1>4. ASSUME NEW w \in Workers,
             \/ Start(w) \/ Wake(w) \/ Stop(w) \/ EndBatch(w) \/ Signal(w)
             \/ HandlerReturns(w) \/ HandlerRaises(w) \/ NoHandler(w)
      PROVE  TakeInv'
  <2>1. /\ UNCHANGED <<table, batch>>
        /\ \A v \in Workers : (pc'[v] = "claim") <=> (pc[v] = "claim")
    BY <1>4, <1>t DEF Start, Wake, Stop, EndBatch, Signal, HandlerReturns, HandlerRaises, NoHandler
  <2>2. Rest'
    BY <2>1, QuietStep DEF table
  <2>3. DueOrder'
    BY <2>1 DEF TakeInv, DueOrder, table
  <2> QED
    BY <2>2, <2>3 DEF TakeInv
<1>5. ASSUME NEW w \in Workers, Reclaim(w) PROVE TakeInv'
  <2>1. LockedRows \subseteq Jobs
    BY BatchElement DEF LockedRows, BatchJobs
  <2>2. \A j \in Jobs : status[j] = "pending" => status'[j] = "pending"
    BY <1>5 DEF Reclaim
  <2>3. \A v \in Workers : (pc'[v] = "claim") <=> (pc[v] = "claim")
    BY <1>5, <1>t DEF Reclaim
  <2>4. Rest'
    BY <1>5, <2>1, <2>2, <2>3, QuietStep DEF Reclaim
  <2>5. DueOrder'
    BY <1>5, <1>t DEF Reclaim, Stuck, TakeInv, DueOrder
  <2> QED
    BY <2>4, <2>5 DEF TakeInv
<1>6. ASSUME NEW w \in Workers, Select(w) PROVE TakeInv'
  BY <1>6, SelectStep
<1>7. ASSUME NEW w \in Workers, Claim(w) PROVE TakeInv'
  BY <1>7, ClaimStep
<1>8. ASSUME NEW w \in Workers, MarkDone(w) \/ Reschedule(w) PROVE TakeInv'
  <2>1. batch[w] # <<>> /\ pc[w] # "claim"
    BY <1>8 DEF MarkDone, Reschedule, TypeOK, Busy
  <2>2. /\ pc'[w] # "claim"
        /\ batch'[w] = Tail(batch[w])
        /\ \A v \in Workers \ {w} : pc'[v] = pc[v] /\ batch'[v] = batch[v]
    BY <1>8 DEF MarkDone, Reschedule, TypeOK
  <2>3. /\ attempts' = attempts
        /\ \E r \in {"done", "pending"} : Finalize(w, r)
    BY <1>8 DEF MarkDone, Reschedule, Finalize
  <2>t. /\ \A j \in LockedRows : status[j] = "pending" => status'[j] = "pending"
        /\ \A j \in Jobs : status'[j] # status[j] => status'[j] # "absent"
    BY <2>3, FinalizeStatus
  <2>4. Rest'
    BY <2>1, <2>2, <2>3, <2>t, DropStep
  <2>5. due' \subseteq due /\ earlier' \subseteq earlier
    BY <1>8 DEF MarkDone, Reschedule
  <2>6. DueOrder'
    BY <1>t, <2>t, <2>5 DEF TakeInv, DueOrder
  <2> QED
    BY <2>4, <2>6 DEF TakeInv
<1>9. ASSUME NEW w \in Workers, MarkFailedTerminal(w) PROVE TakeInv'
  <2>1. /\ attempts' = attempts /\ batch' = batch
        /\ Finalize(w, "failed")
        /\ UNCHANGED <<due, earlier>>
    BY <1>9 DEF MarkFailedTerminal, Finalize
  <2>2. \A v \in Workers : (pc'[v] = "claim") <=> (pc[v] = "claim")
    BY <1>9, <1>t DEF MarkFailedTerminal
  <2>t. /\ \A j \in LockedRows : status[j] = "pending" => status'[j] = "pending"
        /\ \A j \in Jobs : status'[j] # status[j] => status'[j] # "absent"
    BY <2>1, FinalizeStatus
  <2>3. Rest'
    BY <2>1, <2>2, <2>t, QuietStep
  <2>4. DueOrder'
    BY <1>t, <2>1, <2>t DEF TakeInv, DueOrder
  <2> QED
    BY <2>3, <2>4 DEF TakeInv
<1>10. ASSUME NEW w \in Workers, SendOperatorAlert(w) PROVE TakeInv'
  <2>1. batch[w] # <<>> /\ pc[w] # "claim" /\ UNCHANGED table
    BY <1>10 DEF SendOperatorAlert, TypeOK, Busy
  <2>2. /\ pc'[w] # "claim"
        /\ batch'[w] = Tail(batch[w])
        /\ \A v \in Workers \ {w} : pc'[v] = pc[v] /\ batch'[v] = batch[v]
    BY <1>10 DEF SendOperatorAlert, TypeOK
  <2>3. Rest'
    BY <2>1, <2>2, DropStep DEF table
  <2>4. DueOrder'
    BY <2>1 DEF TakeInv, DueOrder, table
  <2> QED
    BY <2>3, <2>4 DEF TakeInv
<1>11. ASSUME NEW w \in Workers, TickError(w) \/ Crash(w) PROVE TakeInv'
  <2>1. /\ pc'[w] # "claim"
        /\ batch'[w] = <<>>
        /\ \A v \in Workers \ {w} : pc'[v] = pc[v] /\ batch'[v] = batch[v]
        /\ UNCHANGED table
    BY <1>11 DEF TickError, Crash, TypeOK
  <2>2. Rest'
    BY <2>1, DropStep DEF table
  <2>3. DueOrder'
    BY <2>1 DEF TakeInv, DueOrder, table
  <2> QED
    BY <2>2, <2>3 DEF TakeInv
<1>12. CASE UNCHANGED vars
  BY <1>12 DEF vars, table, TakeInv, DueOrder, RowsAsRead, RowLocks, TakesNumbered, TakesDistinct
<1> QED
  BY <1>1, <1>2, <1>3, <1>4, <1>5, <1>6, <1>7, <1>8, <1>9, <1>10, <1>11, <1>12
  DEF Next, RunWorker

\* No job is ever held twice under one attempt number, for any number of
\* workers, however leases expire and workers crash: what SELECT ... FOR UPDATE
\* SKIP LOCKED and the attempts column give a job handler to build on.
THEOREM OneTakePerAttemptHolds == Spec => []OneTakePerAttempt
<1>1. TypeOK /\ TakeInv => OneTakePerAttempt
  <2> SUFFICES ASSUME TakeInv, NEW p \in Taken, NEW q \in Taken, TakeAt(p) = TakeAt(q)
               PROVE  p = q
    BY DEF OneTakePerAttempt
  <2>1. /\ p \in Workers \X (1 .. Limit) /\ pc[p[1]] # "claim" /\ p[2] \in DOMAIN batch[p[1]]
        /\ q \in Workers \X (1 .. Limit) /\ pc[q[1]] # "claim" /\ q[2] \in DOMAIN batch[q[1]]
    BY DEF Taken
  <2>2. p[1] = q[1] /\ p[2] = q[2]
    BY <2>1 DEF TakeInv, TakesDistinct, TakeAt
  <2> QED
    BY <2>1, <2>2
<1> QED
  BY <1>1, TypeInit, TypeStep, TakeInit, TakeStep, PTL DEF Spec

-----------------------------------------------------------------------------
(***************************************************************************)
(* As long as no worker outlives its lease: one worker at a time, and done *)
(* and failed are final.                                                   *)
(*                                                                         *)
(* A finalize checks neither the status nor the owner of the row it        *)
(* writes.  What makes it right, until a lease overruns, is that every     *)
(* committed take is the row's latest one and the row still says so.       *)
(***************************************************************************)

\* Only running rows have a locked_at that can be too old.
ExpiredRunning == \A j \in expired : status[j] = "running"

\* A take of a job with no overrun lease carries the row's attempt number, its
\* lease is not up, and the row is running, unless the worker has just failed it.
TakesCurrent ==
  \A w \in Workers : \A i \in DOMAIN batch[w] :
     pc[w] # "claim" /\ overruns[batch[w][i].job] = 0 =>
       /\ batch[w][i].attempt = attempts[batch[w][i].job]
       /\ batch[w][i].job \notin expired
       /\ pc[w] = "alert" /\ i = 1 => status[batch[w][i].job] = "failed"
       /\ ~(pc[w] = "alert" /\ i = 1) => status[batch[w][i].job] = "running"

LeaseInv == ExpiredRunning /\ TakesCurrent

\* Two takes of such a job are one.
LEMMA OneHolder ==
  ASSUME TypeOK, TakeInv, LeaseInv,
         NEW v \in Workers, NEW w \in Workers,
         NEW i \in DOMAIN batch[v], NEW k \in DOMAIN batch[w],
         pc[v] # "claim", pc[w] # "claim",
         batch[v][i].job = batch[w][k].job, overruns[batch[w][k].job] = 0
  PROVE  v = w /\ i = k
<1>1. batch[v][i].attempt = batch[w][k].attempt
  BY DEF LeaseInv, TakesCurrent
<1>2. batch[v][i] \in Take /\ batch[w][k] \in Take
  BY BatchElement
<1>3. batch[v][i] = batch[w][k]
  BY <1>1, <1>2 DEF Take
<1> QED
  BY <1>3 DEF TakeInv, TakesDistinct

\* The head of a busy worker's batch is its first take.
LEMMA HeadTake ==
  ASSUME TypeOK, NEW w \in Workers, batch[w] # <<>>
  PROVE  /\ 1 \in DOMAIN batch[w]
         /\ Current(w) = batch[w][1]
         /\ Current(w).job \in Jobs
         /\ Current(w).attempt \in Nat
<1>1. batch[w] \in Seq(Take)
  BY DEF TypeOK
<1>2. 1 \in DOMAIN batch[w] /\ Current(w) = batch[w][1]
  BY <1>1 DEF Current
<1> QED
  BY <1>2, BatchElement

\* Steps that leave the table alone and shorten or keep batches.
LEMMA LeaseQuiet ==
  ASSUME TypeOK, LeaseInv, NEW w \in Workers,
         UNCHANGED <<status, attempts, expired, overruns>>,
         pc'[w] # "alert",
         \A v \in Workers \ {w} : pc'[v] = pc[v] /\ batch'[v] = batch[v],
         \/ pc'[w] = "claim"
         \/ batch'[w] = <<>>
         \/ pc[w] \notin {"claim", "alert"} /\ batch'[w] = batch[w]
         \/ pc[w] # "claim" /\ batch[w] # <<>> /\ batch'[w] = Tail(batch[w])
  PROVE  LeaseInv'
<1>1. \A i \in DOMAIN batch'[w] : pc'[w] # "claim" =>
         \E k \in DOMAIN batch[w] : /\ pc[w] # "claim"
                                    /\ ~(pc[w] = "alert" /\ k = 1)
                                    /\ batch'[w][i] = batch[w][k]
  <2>1. batch[w] \in Seq(Take)
    BY DEF TypeOK
  <2>2. CASE batch'[w] = <<>> \/ pc'[w] = "claim"
    BY <2>2
  <2>3. CASE pc[w] \notin {"claim", "alert"} /\ batch'[w] = batch[w]
    BY <2>3
  <2>4. CASE pc[w] # "claim" /\ batch[w] # <<>> /\ batch'[w] = Tail(batch[w])
    <3>1. \A i \in DOMAIN Tail(batch[w]) : i \in Nat /\ i >= 1
      BY <2>1, <2>4, TailTake, SeqTake
    <3> QED
      BY <2>1, <2>4, <3>1, TailTake
  <2> QED
    BY <2>2, <2>3, <2>4
<1>2. TakesCurrent'
  <2> SUFFICES ASSUME NEW v \in Workers, NEW i \in DOMAIN batch'[v],
                      pc'[v] # "claim", overruns[batch'[v][i].job] = 0
               PROVE  /\ batch'[v][i].attempt = attempts[batch'[v][i].job]
                      /\ batch'[v][i].job \notin expired
                      /\ pc'[v] = "alert" /\ i = 1 => status[batch'[v][i].job] = "failed"
                      /\ ~(pc'[v] = "alert" /\ i = 1) => status[batch'[v][i].job] = "running"
    BY DEF TakesCurrent
  <2>1. CASE v = w
    BY <2>1, <1>1 DEF LeaseInv, TakesCurrent
  <2>2. CASE v # w
    BY <2>2 DEF LeaseInv, TakesCurrent
  <2> QED
    BY <2>1, <2>2
<1> QED
  BY <1>2 DEF LeaseInv, ExpiredRunning

LEMMA LeaseInit == Init => LeaseInv
  BY DEF Init, LeaseInv, ExpiredRunning, TakesCurrent

\* A finalize that drops the job: no other take has it.
LEMMA LeaseDrop ==
  ASSUME TypeOK, TakeInv, LeaseInv, NEW w \in Workers, NEW r \in Statuses,
         batch[w] # <<>>, pc[w] \notin {"claim", "alert"},
         Finalize(w, r), overruns' = overruns,
         pc'[w] \notin {"claim", "alert"}, batch'[w] = Tail(batch[w]),
         \A v \in Workers \ {w} : pc'[v] = pc[v] /\ batch'[v] = batch[v]
  PROVE  LeaseInv'
<1> DEFINE j == Current(w).job
<1>1. 1 \in DOMAIN batch[w] /\ j = batch[w][1].job /\ j \in Jobs
  BY HeadTake
<1>2. /\ expired' = expired \ {j} /\ attempts' = attempts
      /\ \A k \in Jobs \ {j} : status'[k] = status[k]
  BY DEF Finalize, TypeOK
<1>3. expired \subseteq Jobs
  BY DEF TypeOK
<1>4. ExpiredRunning'
  BY <1>2, <1>3 DEF LeaseInv, ExpiredRunning
<1>5. ASSUME NEW v \in Workers, NEW k \in DOMAIN batch[v], pc[v] # "claim",
             v # w \/ k # 1, overruns[batch[v][k].job] = 0
      PROVE  batch[v][k].job \in Jobs \ {j}
  <2>1. batch[v][k].job \in Jobs
    BY <1>5, BatchElement
  <2>2. batch[v][k].job # j
    BY <1>1, <1>5, OneHolder
  <2> QED
    BY <2>1, <2>2
<1>6. TakesCurrent'
  <2> SUFFICES ASSUME NEW v \in Workers, NEW i \in DOMAIN batch'[v],
                      pc'[v] # "claim", overruns[batch'[v][i].job] = 0
               PROVE  /\ batch'[v][i].attempt = attempts[batch'[v][i].job]
                      /\ batch'[v][i].job \notin expired'
                      /\ pc'[v] = "alert" /\ i = 1 => status'[batch'[v][i].job] = "failed"
                      /\ ~(pc'[v] = "alert" /\ i = 1) => status'[batch'[v][i].job] = "running"
    BY <1>2 DEF TakesCurrent
  <2>1. CASE v = w
    <3>1. /\ i + 1 \in DOMAIN batch[w] /\ batch'[w][i] = batch[w][i + 1]
          /\ i + 1 # 1
      <4>1. batch[w] \in Seq(Take)
        BY DEF TypeOK
      <4>2. Tail(batch[w]) \in Seq(Take) /\ i \in DOMAIN Tail(batch[w])
        BY <2>1, <4>1, TailTake
      <4>3. i \in Nat /\ i >= 1
        BY <4>2, SeqTake
      <4> QED
        BY <4>1, <4>2, <4>3, TailTake
    <3>2. batch[w][i + 1].job \in Jobs \ {j}
      BY <2>1, <3>1, <1>5
    <3>3. /\ batch[w][i + 1].attempt = attempts[batch[w][i + 1].job]
          /\ batch[w][i + 1].job \notin expired
          /\ status[batch[w][i + 1].job] = "running"
      BY <2>1, <3>1 DEF LeaseInv, TakesCurrent
    <3> QED
      BY <2>1, <3>1, <3>2, <3>3, <1>2
  <2>2. CASE v # w
    <3>1. batch'[v] = batch[v] /\ pc'[v] = pc[v] /\ batch[v][i].job \in Jobs \ {j}
      BY <2>2, <1>5
    <3> QED
      BY <3>1, <1>2 DEF LeaseInv, TakesCurrent
  <2> QED
    BY <2>1, <2>2
<1> QED
  BY <1>4, <1>6 DEF LeaseInv

\* A pick makes its takes the latest ones of their rows; a row that was pending
\* had no other take.
LEMMA LeaseClaim ==
  ASSUME TypeOK, TakeInv, LeaseInv, NEW w \in Workers, Claim(w)
  PROVE  LeaseInv'
<1>1. /\ pc[w] = "claim" /\ pc'[w] = "run"
      /\ \A v \in Workers \ {w} : batch'[v] = batch[v] /\ pc'[v] = pc[v]
      /\ batch'[w] = [i \in DOMAIN batch[w] |->
                        [job |-> batch[w][i].job, attempt |-> batch[w][i].attempt + 1]]
      /\ expired' = expired \ BatchJobs(w) /\ overruns' = overruns
  BY DEF Claim, SyncAttempts, TypeOK, counters
<1>2. \A j \in Jobs :
         /\ j \in BatchJobs(w) => status'[j] = "running" /\ attempts'[j] = attempts[j] + 1
         /\ j \notin BatchJobs(w) => status'[j] = status[j] /\ attempts'[j] = attempts[j]
  BY DEF Claim
<1>3. \A j \in BatchJobs(w) : status[j] = "pending"
  BY <1>1 DEF TakeInv, RowsAsRead, BatchJobs
<1>4. ExpiredRunning'
  <2>1. expired \subseteq Jobs
    BY DEF TypeOK
  <2> QED
    BY <1>1, <1>2, <2>1 DEF LeaseInv, ExpiredRunning
<1>5. TakesCurrent'
  <2> SUFFICES ASSUME NEW v \in Workers, NEW i \in DOMAIN batch'[v],
                      pc'[v] # "claim", overruns[batch'[v][i].job] = 0
               PROVE  /\ batch'[v][i].attempt = attempts'[batch'[v][i].job]
                      /\ batch'[v][i].job \notin expired'
                      /\ pc'[v] = "alert" /\ i = 1 => status'[batch'[v][i].job] = "failed"
                      /\ ~(pc'[v] = "alert" /\ i = 1) => status'[batch'[v][i].job] = "running"
    BY <1>1 DEF TakesCurrent
  <2>1. CASE v = w
    <3>1. /\ i \in DOMAIN batch[w]
          /\ batch'[w][i].job = batch[w][i].job
          /\ batch'[w][i].attempt = attempts[batch[w][i].job] + 1
          /\ batch[w][i].job \in BatchJobs(w) /\ batch[w][i].job \in Jobs
      BY <2>1, <1>1, BatchElement DEF TakeInv, RowsAsRead, BatchJobs
    <3> QED
      BY <2>1, <3>1, <1>1, <1>2
  <2>2. CASE v # w
    <3>1. /\ batch'[v] = batch[v] /\ pc'[v] = pc[v] /\ pc[v] # "claim"
          /\ batch[v][i].job \in Jobs /\ overruns[batch[v][i].job] = 0
      BY <2>2, <1>1, BatchElement
    <3>2. status[batch[v][i].job] # "pending"
      BY <3>1, <2>2 DEF LeaseInv, TakesCurrent
    <3>3. batch[v][i].job \notin BatchJobs(w)
      BY <3>2, <1>3
    <3> QED
      BY <3>1, <3>3, <1>1, <1>2 DEF LeaseInv, TakesCurrent
  <2> QED
    BY <2>1, <2>2
<1> QED
  BY <1>4, <1>5 DEF LeaseInv

LEMMA LeaseStep == TypeOK /\ TakeInv /\ LeaseInv /\ [Next]_vars => LeaseInv'
<1> SUFFICES ASSUME TypeOK, TakeInv, LeaseInv, [Next]_vars PROVE LeaseInv'
  OBVIOUS
<1>1. ASSUME NEW j \in Jobs, Enqueue(j) \/ BecomeDue(j) PROVE LeaseInv'
  <2>1. /\ UNCHANGED <<attempts, expired, overruns, pc, batch>>
        /\ \A k \in Jobs : status'[k] # status[k] => status[k] = "absent"
    BY <1>1 DEF Enqueue, BecomeDue, TypeOK, counters
  <2>2. expired \subseteq Jobs
    BY DEF TypeOK
  <2>3. ExpiredRunning'
    BY <2>1, <2>2 DEF LeaseInv, ExpiredRunning
  <2>4. TakesCurrent'
    BY <2>1, BatchElement DEF LeaseInv, TakesCurrent
  <2> QED
    BY <2>3, <2>4 DEF LeaseInv
<1>2. ASSUME NEW j \in Jobs, LeaseExpires(j) PROVE LeaseInv'
  <2>1. \A w \in Workers : \A i \in DOMAIN batch[w] :
           pc[w] # "claim" /\ overruns[batch[w][i].job] = 0 => batch[w][i].job # j
    <3> SUFFICES ASSUME NEW w \in Workers, NEW i \in DOMAIN batch[w],
                        pc[w] # "claim", overruns[j] = 0, batch[w][i].job = j
                 PROVE  FALSE
      OBVIOUS
    <3>1. batch[w][i].attempt = attempts[j]
      BY DEF LeaseInv, TakesCurrent
    <3>2. batch[w][i] = [job |-> j, attempt |-> attempts[j]]
      BY <3>1, BatchElement DEF Take
    <3> QED
      BY <1>2, <3>2 DEF LeaseExpires, Held
  <2>2. /\ UNCHANGED <<status, attempts, overruns, pc, batch>>
        /\ expired' = expired \cup {j}
        /\ status[j] = "running"
    BY <1>2 DEF LeaseExpires, counters
  <2> QED
    BY <2>1, <2>2 DEF LeaseInv, ExpiredRunning, TakesCurrent
<1>3. ASSUME NEW j \in Jobs, LeaseOverruns(j) PROVE LeaseInv'
  <2>1. /\ UNCHANGED <<status, attempts, pc, batch>>
        /\ expired' = expired \cup {j}
        /\ status[j] = "running"
        /\ overruns'[j] # 0
        /\ \A k \in Jobs \ {j} : overruns'[k] = overruns[k]
    BY <1>3, JobQueueAssumption DEF LeaseOverruns, TypeOK
  <2>2. ExpiredRunning'
    BY <2>1 DEF LeaseInv, ExpiredRunning
  <2>3. TakesCurrent'
    BY <2>1, BatchElement DEF LeaseInv, TakesCurrent
  <2> QED
    BY <2>2, <2>3 DEF LeaseInv
<1>4. ASSUME NEW w \in Workers,
             \/ Start(w) \/ Wake(w) \/ Stop(w) \/ EndBatch(w) \/ Select(w)
             \/ HandlerReturns(w) \/ HandlerRaises(w) \/ NoHandler(w)
             \/ SendOperatorAlert(w) \/ TickError(w) \/ Crash(w)
      PROVE  LeaseInv'
  <2>1. /\ UNCHANGED <<status, attempts, expired, overruns>>
        /\ pc'[w] # "alert"
        /\ \A v \in Workers \ {w} : pc'[v] = pc[v] /\ batch'[v] = batch[v]
    BY <1>4 DEF TypeOK, table, counters, Start, Wake, Stop, EndBatch, Select,
                HandlerReturns, HandlerRaises, NoHandler, SendOperatorAlert, TickError, Crash
  <2>2. \/ pc'[w] = "claim"
        \/ batch'[w] = <<>>
        \/ pc[w] \notin {"claim", "alert"} /\ batch'[w] = batch[w]
        \/ pc[w] # "claim" /\ batch[w] # <<>> /\ batch'[w] = Tail(batch[w])
    BY <1>4 DEF TypeOK, Busy, Start, Wake, Stop, EndBatch, Select,
                HandlerReturns, HandlerRaises, NoHandler, SendOperatorAlert, TickError, Crash
  <2> QED
    BY <2>1, <2>2, LeaseQuiet
<1>5. ASSUME NEW w \in Workers, Signal(w) PROVE LeaseInv'
  BY <1>5 DEF Signal, table, LeaseInv, ExpiredRunning, TakesCurrent
<1>6. ASSUME NEW w \in Workers, Reclaim(w) PROVE LeaseInv'
  <2>1. /\ UNCHANGED <<attempts, overruns, batch>>
        /\ expired' = {}
        /\ \A k \in Jobs \ expired : status'[k] = status[k]
        /\ \A v \in Workers : (pc'[v] = pc[v]) \/ (pc[v] = "reclaim" /\ pc'[v] = "select")
    BY <1>6 DEF Reclaim, Stuck, LeaseInv, ExpiredRunning, counters, TypeOK
  <2> QED
    BY <2>1, BatchElement DEF LeaseInv, ExpiredRunning, TakesCurrent
<1>7. ASSUME NEW w \in Workers, Claim(w) PROVE LeaseInv'
  BY <1>7, LeaseClaim
<1>8. ASSUME NEW w \in Workers, MarkDone(w) \/ Reschedule(w) PROVE LeaseInv'
  <2>1. batch[w] # <<>> /\ pc[w] \notin {"claim", "alert"}
    BY <1>8 DEF MarkDone, Reschedule, TypeOK, Busy
  <2>2. /\ \E r \in Statuses : Finalize(w, r)
        /\ overruns' = overruns
        /\ pc'[w] \notin {"claim", "alert"}
        /\ batch'[w] = Tail(batch[w])
        /\ \A v \in Workers \ {w} : pc'[v] = pc[v] /\ batch'[v] = batch[v]
    BY <1>8 DEF MarkDone, Reschedule, Statuses, TypeOK, counters
  <2> QED
    BY <2>1, <2>2, LeaseDrop
<1>9. ASSUME NEW w \in Workers, MarkFailedTerminal(w) PROVE LeaseInv'
  <2> DEFINE j == Current(w).job
  <2>1. batch[w] # <<>> /\ pc[w] \notin {"claim", "alert"}
    BY <1>9 DEF MarkFailedTerminal, TypeOK, Busy
  <2>2. 1 \in DOMAIN batch[w] /\ j = batch[w][1].job /\ j \in Jobs
    BY <2>1, HeadTake
  <2>3. /\ expired' = expired \ {j} /\ UNCHANGED <<attempts, overruns, batch>>
        /\ status'[j] = "failed"
        /\ \A k \in Jobs \ {j} : status'[k] = status[k]
        /\ pc'[w] = "alert"
        /\ \A v \in Workers \ {w} : pc'[v] = pc[v]
    BY <1>9, <2>2 DEF MarkFailedTerminal, Finalize, TypeOK, counters
  <2>4. ExpiredRunning'
    BY <2>3 DEF LeaseInv, ExpiredRunning, TypeOK
  <2>5. TakesCurrent'
    <3> SUFFICES ASSUME NEW v \in Workers, NEW i \in DOMAIN batch[v],
                        pc'[v] # "claim", overruns[batch[v][i].job] = 0
                 PROVE  /\ batch[v][i].attempt = attempts[batch[v][i].job]
                        /\ batch[v][i].job \notin expired'
                        /\ pc'[v] = "alert" /\ i = 1 => status'[batch[v][i].job] = "failed"
                        /\ ~(pc'[v] = "alert" /\ i = 1) => status'[batch[v][i].job] = "running"
      BY <2>3 DEF TakesCurrent
    <3>1. pc[v] # "claim"
      BY <2>1, <2>3
    <3>2. CASE v = w /\ i = 1
      BY <3>1, <3>2, <2>2, <2>3 DEF LeaseInv, TakesCurrent
    <3>3. CASE v # w \/ i # 1
      <4>1. batch[v][i].job # j /\ batch[v][i].job \in Jobs
        BY <3>1, <3>3, <2>1, <2>2, OneHolder, BatchElement
      <4> QED
        BY <3>1, <3>3, <4>1, <2>1, <2>3 DEF LeaseInv, TakesCurrent
    <3> QED
      BY <3>2, <3>3
  <2> QED
    BY <2>4, <2>5 DEF LeaseInv
<1>10. CASE UNCHANGED vars
  BY <1>10 DEF vars, table, counters, LeaseInv, ExpiredRunning, TakesCurrent
<1> QED
  BY <1>1, <1>2, <1>3, <1>4, <1>5, <1>6, <1>7, <1>8, <1>9, <1>10 DEF Next, RunWorker

\* A job whose lease no live worker has overrun is in the hands of one worker at
\* a time, whatever crashes, failed ticks and shutdowns happen: only a handler
\* that outlasts LEASE_TIMEOUT makes the queue run a job twice at once.
THEOREM SingleTake == Spec => []SingleTakeUnlessOverrun
<1>1. TypeOK /\ TakeInv /\ LeaseInv => SingleTakeUnlessOverrun
  <2> SUFFICES ASSUME TypeOK, TakeInv, LeaseInv, NEW p \in Taken, NEW q \in Taken,
                      TakeAt(p).job = TakeAt(q).job, overruns[TakeAt(p).job] = 0
               PROVE  p = q
    BY DEF SingleTakeUnlessOverrun
  <2>1. /\ p \in Workers \X (1 .. Limit) /\ pc[p[1]] # "claim" /\ p[2] \in DOMAIN batch[p[1]]
        /\ q \in Workers \X (1 .. Limit) /\ pc[q[1]] # "claim" /\ q[2] \in DOMAIN batch[q[1]]
    BY DEF Taken
  <2>2. p[1] = q[1] /\ p[2] = q[2]
    BY <2>1, OneHolder DEF TakeAt
  <2> QED
    BY <2>1, <2>2
<1> QED
  BY <1>1, TypeInit, TypeStep, TakeInit, TakeStep, LeaseInit, LeaseStep, PTL DEF Spec

\* A step changes a done or failed row only if a lease of the job was overrun.
LEMMA TerminalStep ==
  ASSUME TypeOK, TakeInv, LeaseInv, [Next]_vars,
         NEW j \in Jobs, status[j] \in Terminal, overruns[j] = 0
  PROVE  status'[j] = status[j]
<1>1. CASE UNCHANGED status
  BY <1>1
<1>2. CASE Enqueue(j)
  BY <1>2 DEF Enqueue, Terminal
<1>3. ASSUME NEW k \in Jobs, k # j, Enqueue(k) PROVE status'[j] = status[j]
  BY <1>3 DEF Enqueue, TypeOK
<1>4. ASSUME NEW w \in Workers, Reclaim(w) PROVE status'[j] = status[j]
  BY <1>4 DEF Reclaim, Stuck, LeaseInv, ExpiredRunning, Terminal
<1>5. ASSUME NEW w \in Workers, Claim(w) PROVE status'[j] = status[j]
  BY <1>5 DEF Claim, TakeInv, RowsAsRead, BatchJobs, Terminal
<1>6. ASSUME NEW w \in Workers, MarkDone(w) \/ Reschedule(w) \/ MarkFailedTerminal(w)
      PROVE  status'[j] = status[j]
  <2>1. batch[w] # <<>> /\ pc[w] \notin {"claim", "alert"} /\ \E r \in Statuses : Finalize(w, r)
    BY <1>6 DEF MarkDone, Reschedule, MarkFailedTerminal, TypeOK, Busy, Statuses
  <2>2. Current(w).job # j
    BY <2>1, HeadTake DEF LeaseInv, TakesCurrent, Terminal
  <2> QED
    BY <2>1, <2>2 DEF Finalize, TypeOK
<1>7. [Next]_vars =>
        \/ UNCHANGED status
        \/ \E k \in Jobs : Enqueue(k)
        \/ \E w \in Workers : Reclaim(w) \/ Claim(w) \/ MarkDone(w) \/ Reschedule(w)
                              \/ MarkFailedTerminal(w)
  BY DEF Next, RunWorker, vars, table, BecomeDue, LeaseExpires, LeaseOverruns, Start, Wake,
         Stop, Select, EndBatch, HandlerReturns, HandlerRaises, NoHandler,
         SendOperatorAlert, TickError, Crash, Signal
<1> QED
  BY <1>1, <1>2, <1>3, <1>4, <1>5, <1>6, <1>7

\* done and failed are final for every job that no worker ran past its lease,
\* although every finalize and every reclaim is an UPDATE without a check.
THEOREM TerminalFinal == Spec => TerminalFinalUnlessOverrun
<1>1. TypeOK /\ TakeInv /\ LeaseInv /\ [Next]_vars =>
        [\A j \in Jobs : status[j] \in Terminal /\ overruns[j] = 0 => status'[j] = status[j]]_vars
  BY TerminalStep
<1> QED
  BY <1>1, TypeInit, TypeStep, TakeInit, TakeStep, LeaseInit, LeaseStep, PTL
  DEF Spec, TerminalFinalUnlessOverrun

-----------------------------------------------------------------------------
(***************************************************************************)
(* A job fails only when its attempts are used up.                         *)
(***************************************************************************)

\* With the strengthening that a worker takes the no-handler path only for a
\* job whose type is not registered.
FailInv ==
  /\ FailedOnlyWhenExhausted
  /\ \A w \in Workers : pc[w] = "unknown" => Current(w).job \notin Known

LEMMA FailStep == TypeOK /\ TakeInv /\ FailInv /\ [Next]_vars => FailInv'
<1> SUFFICES ASSUME TypeOK, TakeInv, FailInv, [Next]_vars PROVE FailInv'
  OBVIOUS
<1> USE JobQueueAssumption
<1>1. ASSUME UNCHANGED attempts,
             \A j \in Jobs : status'[j] = "failed" => status[j] = "failed",
             \A w \in Workers : pc'[w] = "unknown" =>
                pc[w] = "unknown" /\ batch'[w] = batch[w]
      PROVE  FailInv'
  BY <1>1 DEF FailInv, FailedOnlyWhenExhausted, Current
<1>2. ASSUME NEW j \in Jobs,
             Enqueue(j) \/ BecomeDue(j) \/ LeaseExpires(j) \/ LeaseOverruns(j)
      PROVE  FailInv'
  BY <1>1, <1>2 DEF TypeOK, Enqueue, BecomeDue, LeaseExpires, LeaseOverruns
<1>3. ASSUME NEW w \in Workers,
             \/ Start(w) \/ Wake(w) \/ Stop(w) \/ EndBatch(w) \/ Select(w) \/ Signal(w)
             \/ HandlerReturns(w) \/ HandlerRaises(w)
             \/ SendOperatorAlert(w) \/ TickError(w) \/ Crash(w)
      PROVE  FailInv'
  <2>1. UNCHANGED <<status, attempts>>
    BY <1>3 DEF table, Start, Wake, Stop, EndBatch, Select, Signal,
                HandlerReturns, HandlerRaises, SendOperatorAlert, TickError, Crash
  <2>2. \A v \in Workers : pc'[v] = "unknown" => pc[v] = "unknown" /\ batch'[v] = batch[v]
    BY <1>3 DEF TypeOK, Start, Wake, Stop, EndBatch, Select, Signal,
                HandlerReturns, HandlerRaises, SendOperatorAlert, TickError, Crash
  <2> QED
    BY <1>1, <2>1, <2>2
<1>4. ASSUME NEW w \in Workers, NoHandler(w) PROVE FailInv'
  BY <1>4 DEF NoHandler, FailInv, FailedOnlyWhenExhausted, TypeOK, table, Current
<1>5. ASSUME NEW w \in Workers, Reclaim(w) PROVE FailInv'
  BY <1>1, <1>5 DEF TypeOK, Reclaim
<1>6. ASSUME NEW w \in Workers, Claim(w) PROVE FailInv'
  <2>1. /\ \A j \in Jobs : status'[j] = "failed" => status[j] = "failed"
        /\ \A j \in Jobs : attempts'[j] >= attempts[j] /\ attempts[j] \in Nat /\ attempts'[j] \in Nat
        /\ \A v \in Workers : pc'[v] = "unknown" => pc[v] = "unknown" /\ batch'[v] = batch[v]
    BY <1>6 DEF TypeOK, Claim
  <2> QED
    BY <2>1 DEF FailInv, FailedOnlyWhenExhausted, Current
<1>7. ASSUME NEW w \in Workers, MarkDone(w) \/ Reschedule(w) PROVE FailInv'
  <2>1. batch[w] # <<>>
    BY <1>7 DEF TypeOK, MarkDone, Reschedule, Busy
  <2>2. Current(w).job \in Jobs
    BY <2>1, HeadTake
  <2>3. UNCHANGED attempts /\ \A j \in Jobs : status'[j] = "failed" => status[j] = "failed"
    BY <1>7, <2>2 DEF TypeOK, MarkDone, Reschedule, Finalize
  <2>4. \A v \in Workers : pc'[v] = "unknown" => pc[v] = "unknown" /\ batch'[v] = batch[v]
    BY <1>7 DEF TypeOK, MarkDone, Reschedule
  <2> QED
    BY <1>1, <2>3, <2>4
<1>8. ASSUME NEW w \in Workers, MarkFailedTerminal(w) PROVE FailInv'
  <2>1. batch[w] # <<>> /\ pc[w] # "claim"
    BY <1>8 DEF TypeOK, MarkFailedTerminal, Busy
  <2>2. /\ 1 \in DOMAIN batch[w] /\ Current(w) = batch[w][1]
        /\ Current(w).job \in Jobs /\ Current(w).attempt \in Nat
    BY <2>1, HeadTake
  <2>3. Current(w).attempt <= attempts[Current(w).job]
    BY <2>1, <2>2 DEF TakeInv, TakesNumbered
  <2>4. Current(w).job \in Known => attempts[Current(w).job] >= MaxAttempts
    <3>1. attempts[Current(w).job] \in Nat
      BY <2>2 DEF TypeOK
    <3>2. CASE pc[w] = "unknown"
      BY <3>2 DEF FailInv
    <3>3. CASE pc[w] = "raised" /\ Exhausted(w)
      BY <3>1, <3>3, <2>2, <2>3 DEF Exhausted
    <3> QED
      BY <1>8, <3>2, <3>3 DEF MarkFailedTerminal
  <2>5. /\ UNCHANGED <<attempts, batch>>
        /\ \A j \in Jobs : status'[j] = "failed" => status[j] = "failed" \/ j = Current(w).job
        /\ \A v \in Workers : pc'[v] = "unknown" => pc[v] = "unknown"
    BY <1>8, <2>2 DEF TypeOK, MarkFailedTerminal, Finalize
  <2> QED
    BY <2>4, <2>5 DEF FailInv, FailedOnlyWhenExhausted, Current
<1>9. CASE UNCHANGED vars
  BY <1>1, <1>9 DEF vars, table
<1> QED
  BY <1>2, <1>3, <1>4, <1>5, <1>6, <1>7, <1>8, <1>9 DEF Next, RunWorker

\* A job whose type is registered fails only after max_attempts picks, whoever
\* fails it: a take left over from an earlier lease cannot fail it early.
THEOREM FailedOnlyWhenExhaustedHolds == Spec => []FailedOnlyWhenExhausted
<1>1. Init => FailInv
  BY DEF Init, FailInv, FailedOnlyWhenExhausted
<1>2. FailInv => FailedOnlyWhenExhausted
  BY DEF FailInv
<1> QED
  BY <1>1, <1>2, FailStep, TypeInit, TypeStep, TakeInit, TakeStep, PTL DEF Spec

-----------------------------------------------------------------------------
(***************************************************************************)
(* Batches and alerts: two facts no property states that the proofs below  *)
(* need.                                                                   *)
(***************************************************************************)

\* A job is in a batch once: a worker that finalizes its head has no other take
\* of that job.
BatchDistinct ==
  \A w \in Workers : \A i, k \in DOMAIN batch[w] :
     batch[w][i].job = batch[w][k].job => i = k

\* The row a worker has failed, and is about to report, is not running again
\* under the attempt that failed.
AlertedTakeSettled ==
  \A w \in Workers :
     pc[w] = "alert" /\ batch[w] # <<>> /\ status[Current(w).job] = "running"
     => Current(w).attempt < attempts[Current(w).job]

\* Steps that keep, empty or shorten batches.
LEMMA DistinctQuiet ==
  ASSUME TypeOK, BatchDistinct, NEW w \in Workers,
         \A v \in Workers \ {w} : batch'[v] = batch[v],
         \/ batch'[w] = batch[w]
         \/ batch'[w] = <<>>
         \/ batch[w] # <<>> /\ batch'[w] = Tail(batch[w])
  PROVE  BatchDistinct'
<1>1. ASSUME NEW i \in DOMAIN batch'[w], NEW k \in DOMAIN batch'[w],
             batch'[w][i].job = batch'[w][k].job
      PROVE  i = k
  <2>1. CASE batch'[w] = batch[w] \/ batch'[w] = <<>>
    BY <1>1, <2>1 DEF BatchDistinct
  <2>2. CASE batch[w] # <<>> /\ batch'[w] = Tail(batch[w])
    <3>1. batch[w] \in Seq(Take)
      BY DEF TypeOK
    <3>2. Tail(batch[w]) \in Seq(Take)
      BY <2>2, <3>1, TailTake
    <3>3. /\ i + 1 \in DOMAIN batch[w] /\ batch'[w][i] = batch[w][i + 1] /\ i \in Nat
          /\ k + 1 \in DOMAIN batch[w] /\ batch'[w][k] = batch[w][k + 1] /\ k \in Nat
      BY <1>1, <2>2, <3>1, <3>2, TailTake, SeqTake
    <3>4. i + 1 = k + 1
      BY <1>1, <3>3 DEF BatchDistinct
    <3> QED
      BY <3>3, <3>4
  <2> QED
    BY <2>1, <2>2
<1> QED
  BY <1>1 DEF BatchDistinct

\* The rows of a pick are locked, and read, once each.
LEMMA DistinctSelect ==
  ASSUME TypeOK, TakeInv, BatchDistinct, NEW w \in Workers, Select(w)
  PROVE  BatchDistinct'
<1>1. RowLocks'
  BY SelectStep DEF TakeInv
<1>2. pc'[w] = "claim" /\ \A v \in Workers \ {w} : batch'[v] = batch[v]
  BY DEF Select, TypeOK
<1> QED
  BY <1>1, <1>2 DEF BatchDistinct, RowLocks

LEMMA DistinctClaim ==
  ASSUME TypeOK, BatchDistinct, NEW w \in Workers, Claim(w)
  PROVE  BatchDistinct'
<1>1. /\ \A v \in Workers \ {w} : batch'[v] = batch[v]
      /\ DOMAIN batch'[w] = DOMAIN batch[w]
      /\ \A i \in DOMAIN batch[w] : batch'[w][i].job = batch[w][i].job
  BY DEF Claim, SyncAttempts, TypeOK
<1> QED
  BY <1>1 DEF BatchDistinct

LEMMA DistinctStep ==
  ASSUME TypeOK, TakeInv, BatchDistinct, [Next]_vars
  PROVE  BatchDistinct'
<1>1. CASE batch' = batch
  BY <1>1 DEF BatchDistinct
<1>2. ASSUME NEW w \in Workers, Select(w) PROVE BatchDistinct'
  BY <1>2, DistinctSelect
<1>3. ASSUME NEW w \in Workers, Claim(w) PROVE BatchDistinct'
  BY <1>3, DistinctClaim
<1>4. ASSUME NEW w \in Workers,
             \/ MarkDone(w) \/ Reschedule(w) \/ SendOperatorAlert(w)
             \/ TickError(w) \/ Crash(w)
      PROVE  BatchDistinct'
  <2>1. batch'[w] = <<>> \/ (batch[w] # <<>> /\ batch'[w] = Tail(batch[w]))
    BY <1>4 DEF TypeOK, Busy, MarkDone, Reschedule, SendOperatorAlert, TickError, Crash
  <2>2. \A v \in Workers \ {w} : batch'[v] = batch[v]
    BY <1>4 DEF TypeOK, MarkDone, Reschedule, SendOperatorAlert, TickError, Crash
  <2> QED
    BY <2>1, <2>2, DistinctQuiet
<1>5. \/ batch' = batch
      \/ \E w \in Workers : \/ Select(w) \/ Claim(w) \/ MarkDone(w) \/ Reschedule(w)
                            \/ SendOperatorAlert(w) \/ TickError(w) \/ Crash(w)
  BY DEF Next, RunWorker, vars, Enqueue, BecomeDue, LeaseExpires, LeaseOverruns, Start, Wake,
         Stop, Reclaim, EndBatch, HandlerReturns, HandlerRaises, NoHandler,
         MarkFailedTerminal, Signal
<1> QED
  BY <1>1, <1>2, <1>3, <1>4, <1>5

\* Only a claim makes a row running, and it takes a new attempt number.
LEMMA AlertedStep ==
  ASSUME TypeOK, TakeInv, AlertedTakeSettled, [Next]_vars
  PROVE  AlertedTakeSettled'
<1>1. ASSUME UNCHANGED attempts,
             \A v \in Workers : pc'[v] = "alert" => pc[v] = "alert" /\ batch'[v] = batch[v],
             \A j \in Jobs : status'[j] = "running" => status[j] = "running"
      PROVE  AlertedTakeSettled'
  <2> SUFFICES ASSUME NEW v \in Workers, pc'[v] = "alert", batch'[v] # <<>>,
                      status'[Current(v)'.job] = "running"
               PROVE  Current(v)'.attempt < attempts'[Current(v)'.job]
    BY DEF AlertedTakeSettled
  <2>1. pc[v] = "alert" /\ batch[v] # <<>> /\ Current(v)' = Current(v)
    BY <1>1 DEF Current
  <2>2. Current(v).job \in Jobs
    BY <2>1, HeadTake
  <2> QED
    BY <1>1, <2>1, <2>2 DEF AlertedTakeSettled
<1>2. ASSUME NEW j \in Jobs,
             Enqueue(j) \/ BecomeDue(j) \/ LeaseExpires(j) \/ LeaseOverruns(j)
      PROVE  AlertedTakeSettled'
  BY <1>1, <1>2 DEF TypeOK, Enqueue, BecomeDue, LeaseExpires, LeaseOverruns
<1>3. ASSUME NEW w \in Workers,
             \/ Start(w) \/ Wake(w) \/ Stop(w) \/ EndBatch(w) \/ Select(w) \/ Signal(w)
             \/ HandlerReturns(w) \/ HandlerRaises(w) \/ NoHandler(w)
             \/ SendOperatorAlert(w) \/ TickError(w) \/ Crash(w)
      PROVE  AlertedTakeSettled'
  <2>1. UNCHANGED <<status, attempts>>
    BY <1>3 DEF table, Start, Wake, Stop, EndBatch, Select, Signal, HandlerReturns,
                HandlerRaises, NoHandler, SendOperatorAlert, TickError, Crash
  <2>2. \A v \in Workers : pc'[v] = "alert" => pc[v] = "alert" /\ batch'[v] = batch[v]
    BY <1>3 DEF TypeOK, Start, Wake, Stop, EndBatch, Select, Signal, HandlerReturns,
                HandlerRaises, NoHandler, SendOperatorAlert, TickError, Crash
  <2> QED
    BY <1>1, <2>1, <2>2
<1>4. ASSUME NEW w \in Workers, Reclaim(w) PROVE AlertedTakeSettled'
  BY <1>1, <1>4 DEF TypeOK, Reclaim
<1>5. ASSUME NEW w \in Workers, Claim(w) PROVE AlertedTakeSettled'
  <2> SUFFICES ASSUME NEW v \in Workers, pc'[v] = "alert", batch'[v] # <<>>,
                      status'[Current(v)'.job] = "running"
               PROVE  Current(v)'.attempt < attempts'[Current(v)'.job]
    BY DEF AlertedTakeSettled
  <2>1. pc[v] = "alert" /\ batch[v] # <<>> /\ Current(v)' = Current(v)
    BY <1>5 DEF Claim, Current, TypeOK
  <2>2. /\ 1 \in DOMAIN batch[v] /\ Current(v) = batch[v][1]
        /\ Current(v).job \in Jobs /\ Current(v).attempt \in Nat
    BY <2>1, HeadTake
  <2>3. Current(v).attempt <= attempts[Current(v).job] /\ attempts[Current(v).job] \in Nat
    BY <2>1, <2>2 DEF TakeInv, TakesNumbered, TypeOK
  <2>4. CASE Current(v).job \in BatchJobs(w)
    <3>1. attempts'[Current(v).job] = attempts[Current(v).job] + 1
      BY <1>5, <2>2, <2>4 DEF Claim
    <3> QED
      BY <2>1, <2>2, <2>3, <3>1
  <2>5. CASE Current(v).job \notin BatchJobs(w)
    <3>1. /\ status'[Current(v).job] = status[Current(v).job]
          /\ attempts'[Current(v).job] = attempts[Current(v).job]
      BY <1>5, <2>2, <2>5 DEF Claim
    <3> QED
      BY <2>1, <3>1 DEF AlertedTakeSettled
  <2> QED
    BY <2>4, <2>5
<1>6. ASSUME NEW w \in Workers, MarkDone(w) \/ Reschedule(w) PROVE AlertedTakeSettled'
  <2>1. batch[w] # <<>>
    BY <1>6 DEF TypeOK, MarkDone, Reschedule, Busy
  <2>2. Current(w).job \in Jobs
    BY <2>1, HeadTake
  <2>3. UNCHANGED attempts /\ \A j \in Jobs : status'[j] = "running" => status[j] = "running"
    BY <1>6, <2>2 DEF TypeOK, MarkDone, Reschedule, Finalize
  <2>4. \A v \in Workers : pc'[v] = "alert" => pc[v] = "alert" /\ batch'[v] = batch[v]
    BY <1>6 DEF TypeOK, MarkDone, Reschedule
  <2> QED
    BY <1>1, <2>3, <2>4
<1>7. ASSUME NEW w \in Workers, MarkFailedTerminal(w) PROVE AlertedTakeSettled'
  <2>1. batch[w] # <<>>
    BY <1>7 DEF TypeOK, MarkFailedTerminal, Busy
  <2>2. Current(w).job \in Jobs
    BY <2>1, HeadTake
  <2>3. /\ UNCHANGED <<attempts, batch>>
        /\ status'[Current(w).job] = "failed"
        /\ \A j \in Jobs : status'[j] = "running" => status[j] = "running"
        /\ \A v \in Workers \ {w} : pc'[v] = pc[v]
    BY <1>7, <2>2 DEF TypeOK, MarkFailedTerminal, Finalize
  <2> SUFFICES ASSUME NEW v \in Workers, pc'[v] = "alert", batch[v] # <<>>,
                      status'[Current(v).job] = "running"
               PROVE  Current(v).attempt < attempts[Current(v).job]
    BY <2>3 DEF AlertedTakeSettled, Current
  <2>4. v # w
    BY <2>3
  <2>5. Current(v).job \in Jobs
    BY HeadTake
  <2> QED
    BY <2>3, <2>4, <2>5 DEF AlertedTakeSettled
<1>8. CASE UNCHANGED vars
  BY <1>1, <1>8 DEF vars, table
<1> QED
  BY <1>2, <1>3, <1>4, <1>5, <1>6, <1>7, <1>8 DEF Next, RunWorker

-----------------------------------------------------------------------------
(***************************************************************************)
(* How far the attempts of a row go.                                       *)
(*                                                                         *)
(* The bound is not inductive: what a step may add depends on what the     *)
(* takes of the job that are still live can do.  Each take numbered below  *)
(* max_attempts may reschedule the row, once; and a row that is pending,   *)
(* or running past its lease or with nobody holding it, may be claimed     *)
(* once more.  Together they never exceed what is left of the budget.      *)
(***************************************************************************)

\* Worker w has committed, and not dropped yet, the take of j numbered m.
Holds(w, j, m) ==
  /\ pc[w] # "claim"
  /\ \E i \in DOMAIN batch[w] : batch[w][i] = [job |-> j, attempt |-> m]

\* The numbers of the takes of j that a failure would reschedule.
LiveNumbers(j) == {m \in 0 .. MaxAttempts - 1 : \E w \in Workers : Holds(w, j, m)}

\* The row can be claimed once more before any take of it is finalized.
Claimable(j) ==
  \/ status[j] \in {"absent", "pending"}
  \/ status[j] = "running" /\ (j \in expired \/ ~Held(j))

\* What is left: below max_attempts the take that will reach it is counted
\* among the live ones.
Left(j) == (IF attempts[j] < MaxAttempts THEN 1 ELSE MaxAttempts - attempts[j])
             + faults + overruns[j]

BudgetAt(j) ==
  Cardinality(LiveNumbers(j)) + (IF Claimable(j) THEN 1 ELSE 0) <= Left(j)

BudgetInv == \A j \in Jobs : BudgetAt(j)

\* The live numbers are below max_attempts, so there are finitely many.
LEMMA NumbersFinite ==
  ASSUME NEW j \in Jobs
  PROVE  /\ IsFiniteSet(LiveNumbers(j)) /\ Cardinality(LiveNumbers(j)) \in Nat
         /\ IsFiniteSet(LiveNumbers(j)') /\ Cardinality(LiveNumbers(j)') \in Nat
<1>1. IsFiniteSet(0 .. MaxAttempts - 1)
  BY JobQueueAssumption, FS_Interval
<1>2. LiveNumbers(j) \subseteq 0 .. MaxAttempts - 1 /\ LiveNumbers(j)' \subseteq 0 .. MaxAttempts - 1
  BY DEF LiveNumbers
<1>3. IsFiniteSet(LiveNumbers(j)) /\ IsFiniteSet(LiveNumbers(j)')
  BY <1>1, <1>2, FS_Subset
<1> QED
  BY <1>3, FS_CardinalityType

\* Steps that lose takes, or none, and open no new claim.
LEMMA BudgetQuiet ==
  ASSUME TypeOK, TypeOK', NEW j \in Jobs, BudgetAt(j),
         attempts'[j] = attempts[j],
         faults' + overruns'[j] >= faults + overruns[j],
         LiveNumbers(j)' \subseteq LiveNumbers(j),
         Claimable(j)' => Claimable(j)
  PROVE  BudgetAt(j)'
<1>1. /\ Cardinality(LiveNumbers(j)') <= Cardinality(LiveNumbers(j))
      /\ Cardinality(LiveNumbers(j)) \in Nat /\ Cardinality(LiveNumbers(j)') \in Nat
  BY NumbersFinite, FS_Subset
<1>2. attempts[j] \in Nat /\ faults \in Nat /\ overruns[j] \in Nat
      /\ faults' \in Nat /\ overruns'[j] \in Nat
  BY JobQueueAssumption DEF TypeOK
<1> QED
  BY <1>1, <1>2, JobQueueAssumption DEF BudgetAt, Left

\* Steps that open a claim and pay for it with a fault or an overrun.
LEMMA BudgetPaid ==
  ASSUME TypeOK, TypeOK', NEW j \in Jobs, BudgetAt(j),
         attempts'[j] = attempts[j],
         faults' + overruns'[j] >= faults + overruns[j] + 1,
         LiveNumbers(j)' \subseteq LiveNumbers(j)
  PROVE  BudgetAt(j)'
<1>1. /\ Cardinality(LiveNumbers(j)') <= Cardinality(LiveNumbers(j))
      /\ Cardinality(LiveNumbers(j)) \in Nat /\ Cardinality(LiveNumbers(j)') \in Nat
  BY NumbersFinite, FS_Subset
<1>2. attempts[j] \in Nat /\ faults \in Nat /\ overruns[j] \in Nat
      /\ faults' \in Nat /\ overruns'[j] \in Nat
  BY JobQueueAssumption DEF TypeOK
<1> QED
  BY <1>1, <1>2, JobQueueAssumption DEF BudgetAt, Left

\* A reschedule opens a claim and pays for it with its own take.
LEMMA BudgetSpent ==
  ASSUME TypeOK, TypeOK', NEW j \in Jobs, BudgetAt(j),
         attempts'[j] = attempts[j],
         faults' = faults, overruns' = overruns,
         NEW m \in LiveNumbers(j), LiveNumbers(j)' \subseteq LiveNumbers(j) \ {m}
  PROVE  BudgetAt(j)'
<1>1. /\ IsFiniteSet(LiveNumbers(j) \ {m})
      /\ Cardinality(LiveNumbers(j) \ {m}) = Cardinality(LiveNumbers(j)) - 1
      /\ Cardinality(LiveNumbers(j)) \in Nat /\ Cardinality(LiveNumbers(j)') \in Nat
  BY NumbersFinite, FS_RemoveElement
<1>2. Cardinality(LiveNumbers(j)') <= Cardinality(LiveNumbers(j) \ {m})
  BY <1>1, FS_Subset
<1>3. attempts[j] \in Nat /\ faults \in Nat /\ overruns[j] \in Nat
  BY JobQueueAssumption DEF TypeOK
<1> QED
  BY <1>1, <1>2, <1>3, JobQueueAssumption DEF BudgetAt, Left

\* A claim uses what was left for it: the new take is live below max_attempts,
\* and has raised attempts to it or over it otherwise.
LEMMA BudgetClaimed ==
  ASSUME TypeOK, NEW j \in Jobs, BudgetAt(j),
         attempts'[j] = attempts[j] + 1,
         faults' = faults, overruns' = overruns,
         LiveNumbers(j)' \subseteq LiveNumbers(j) \cup {attempts[j] + 1},
         Claimable(j), ~Claimable(j)'
  PROVE  BudgetAt(j)'
<1>1. /\ IsFiniteSet(LiveNumbers(j)) /\ Cardinality(LiveNumbers(j)) \in Nat
      /\ IsFiniteSet(LiveNumbers(j)') /\ Cardinality(LiveNumbers(j)') \in Nat
  BY NumbersFinite
<1>2. attempts[j] \in Nat /\ faults \in Nat /\ overruns[j] \in Nat
  BY JobQueueAssumption DEF TypeOK
<1>3. CASE attempts[j] + 1 < MaxAttempts
  <2>1. Cardinality(LiveNumbers(j)') <= Cardinality(LiveNumbers(j) \cup {attempts[j] + 1})
    BY <1>1, FS_AddElement, FS_Subset
  <2>2. Cardinality(LiveNumbers(j)') <= Cardinality(LiveNumbers(j)) + 1
    BY <2>1, <1>1, FS_AddElement
  <2> QED
    BY <1>1, <1>2, <1>3, <2>2, JobQueueAssumption DEF BudgetAt, Left
<1>4. CASE attempts[j] + 1 >= MaxAttempts
  <2>1. LiveNumbers(j)' \subseteq LiveNumbers(j)
    BY <1>2, <1>4, JobQueueAssumption DEF LiveNumbers
  <2>2. Cardinality(LiveNumbers(j)') <= Cardinality(LiveNumbers(j))
    BY <2>1, <1>1, FS_Subset
  <2> QED
    BY <1>1, <1>2, <1>4, <2>2, JobQueueAssumption DEF BudgetAt, Left
<1> QED
  BY <1>2, <1>3, <1>4, JobQueueAssumption

\* Steps that leave the batches alone keep the takes.
LEMMA HoldsQuiet ==
  ASSUME NEW w \in Workers, batch'[w] = batch[w], (pc'[w] = "claim") <=> (pc[w] = "claim"),
         NEW j, NEW m
  PROVE  Holds(w, j, m)' <=> Holds(w, j, m)
  BY DEF Holds

\* What a worker that drops the head of its batch still has.
LEMMA HoldsTail ==
  ASSUME TypeOK, TakesDistinct, NEW w \in Workers,
         pc[w] # "claim", pc'[w] # "claim",
         batch[w] # <<>>, batch'[w] = Tail(batch[w]),
         \A v \in Workers \ {w} : pc'[v] = pc[v] /\ batch'[v] = batch[v],
         NEW v \in Workers, NEW j \in Jobs, NEW m \in Nat
  PROVE  Holds(v, j, m)' <=> Holds(v, j, m) /\ Current(w) # [job |-> j, attempt |-> m]
<1>1. /\ batch[w] \in Seq(Take) /\ Tail(batch[w]) \in Seq(Take)
      /\ 1 \in DOMAIN batch[w] /\ Current(w) = batch[w][1]
  BY TailTake, HeadTake DEF TypeOK
<1>2. ASSUME Holds(v, j, m)'
      PROVE  Holds(v, j, m) /\ Current(w) # [job |-> j, attempt |-> m]
  <2>1. PICK i \in DOMAIN batch'[v] : batch'[v][i] = [job |-> j, attempt |-> m]
    BY <1>2 DEF Holds
  <2>2. CASE v = w
    <3>0. i \in DOMAIN Tail(batch[w]) /\ Tail(batch[w])[i] = [job |-> j, attempt |-> m]
      BY <2>1, <2>2
    <3>1. /\ i + 1 \in DOMAIN batch[w] /\ i \in Nat /\ i >= 1
          /\ batch[w][i + 1] = [job |-> j, attempt |-> m]
      BY <1>1, <3>0, TailTake, SeqTake
    <3>2. batch[w][i + 1] = batch[w][1] => i + 1 = 1
      BY <1>1, <3>1 DEF TakesDistinct
    <3> QED
      BY <1>1, <2>2, <3>1, <3>2 DEF Holds
  <2>3. CASE v # w
    <3>1. i \in DOMAIN batch[v] /\ batch[v][i] = [job |-> j, attempt |-> m] /\ pc[v] # "claim"
      BY <1>2, <2>1, <2>3 DEF Holds
    <3>2. batch[v][i] # batch[w][1]
      BY <1>1, <2>3, <3>1 DEF TakesDistinct
    <3> QED
      BY <1>1, <3>1, <3>2 DEF Holds
  <2> QED
    BY <2>2, <2>3
<1>3. ASSUME Holds(v, j, m), Current(w) # [job |-> j, attempt |-> m]
      PROVE  Holds(v, j, m)'
  <2>1. PICK i \in DOMAIN batch[v] : batch[v][i] = [job |-> j, attempt |-> m]
    BY <1>3 DEF Holds
  <2>2. CASE v = w
    <3>1. i # 1 /\ i \in 1 .. Len(batch[w])
      BY <1>1, <1>3, <2>1, <2>2
    <3>2. i - 1 \in DOMAIN Tail(batch[w]) /\ Tail(batch[w])[i - 1] = batch[w][i]
      BY <1>1, <3>1
    <3> QED
      BY <2>1, <2>2, <3>2 DEF Holds
  <2>3. CASE v # w
    BY <1>3, <2>1, <2>3 DEF Holds
  <2> QED
    BY <2>2, <2>3
<1> QED
  BY <1>2, <1>3

\* Held, in these terms.
LEMMA HeldTake ==
  ASSUME NEW j \in Jobs, NEW m
  PROVE  /\ m = attempts[j] => (Held(j) <=> \E w \in Workers : Holds(w, j, m))
         /\ m = attempts'[j] => (Held(j)' <=> \E w \in Workers : Holds(w, j, m)')
  BY DEF Held, Holds

\* Steps that keep the takes of j: its row stays as it is, is finished, or could
\* be claimed before.
LEMMA BudgetFrame ==
  ASSUME TypeOK, TypeOK', NEW j \in Jobs, BudgetAt(j),
         attempts'[j] = attempts[j], faults' = faults, overruns'[j] = overruns[j],
         \A w \in Workers : \A m \in Nat : Holds(w, j, m)' <=> Holds(w, j, m),
         \/ status'[j] = status[j] /\ (j \in expired' => j \in expired)
         \/ status'[j] \in Terminal
         \/ Claimable(j)
  PROVE  BudgetAt(j)'
<1>1. LiveNumbers(j)' = LiveNumbers(j)
  BY JobQueueAssumption DEF LiveNumbers
<1>2. Held(j)' <=> Held(j)
  <2>1. attempts[j] \in Nat
    BY DEF TypeOK
  <2> QED
    BY <2>1, HeldTake
<1>3. Claimable(j)' => Claimable(j)
  BY <1>2 DEF Claimable, Terminal
<1>4. faults' + overruns'[j] >= faults + overruns[j]
  BY JobQueueAssumption DEF TypeOK
<1> QED
  BY <1>1, <1>3, <1>4, BudgetQuiet

\* What a finalize does to the row it writes, and to the others.
LEMMA FinalizeRow ==
  ASSUME TypeOK, NEW w \in Workers, NEW r \in Statuses, batch[w] # <<>>, Finalize(w, r)
  PROVE  /\ status'[Current(w).job] = r
         /\ UNCHANGED attempts
         /\ \A j \in Jobs \ {Current(w).job} : /\ status'[j] = status[j]
                                               /\ lockedBy'[j] = lockedBy[j]
                                               /\ j \in expired' <=> j \in expired
  BY HeadTake DEF Finalize, TypeOK

\* Every step leaves each job within its budget.
LEMMA BudgetStep ==
  ASSUME TypeOK, TypeOK', TakeInv, AlertedTakeSettled, [Next]_vars, NEW j \in Jobs, BudgetAt(j)
  PROVE  BudgetAt(j)'
<1> USE JobQueueAssumption
<1>1. ASSUME NEW k \in Jobs, Enqueue(k) \/ BecomeDue(k) \/ LeaseExpires(k) PROVE BudgetAt(j)'
  <2>1. /\ UNCHANGED <<attempts, faults, overruns>>
        /\ \A w \in Workers : pc'[w] = pc[w] /\ batch'[w] = batch[w]
    BY <1>1 DEF Enqueue, BecomeDue, LeaseExpires, counters
  <2>2. \/ status'[j] = status[j] /\ (j \in expired' => j \in expired)
        \/ Claimable(j)
    BY <1>1 DEF TypeOK, Enqueue, BecomeDue, LeaseExpires, Claimable
  <2> QED
    BY <2>1, <2>2, HoldsQuiet, BudgetFrame
<1>2. ASSUME NEW k \in Jobs, LeaseOverruns(k) PROVE BudgetAt(j)'
  <2>1. /\ UNCHANGED <<attempts, status, faults>>
        /\ \A w \in Workers : pc'[w] = pc[w] /\ batch'[w] = batch[w]
    BY <1>2 DEF LeaseOverruns
  <2>2. CASE j = k
    <3>1. overruns'[j] = overruns[j] + 1 /\ faults + (overruns[j] + 1) >= faults + overruns[j] + 1
      BY <1>2, <2>2 DEF LeaseOverruns, TypeOK
    <3>2. LiveNumbers(j)' = LiveNumbers(j)
      BY <2>1, HoldsQuiet DEF LiveNumbers
    <3> QED
      BY <2>1, <3>1, <3>2, BudgetPaid
  <2>3. CASE j # k
    <3>1. overruns'[j] = overruns[j] /\ (j \in expired' => j \in expired)
      BY <1>2, <2>3 DEF LeaseOverruns, TypeOK
    <3> QED
      BY <2>1, <3>1, HoldsQuiet, BudgetFrame
  <2> QED
    BY <2>2, <2>3
<1>3. ASSUME NEW w \in Workers,
             \/ Start(w) \/ Wake(w) \/ Stop(w) \/ EndBatch(w) \/ Signal(w)
             \/ HandlerReturns(w) \/ HandlerRaises(w) \/ NoHandler(w)
      PROVE  BudgetAt(j)'
  <2>1. UNCHANGED <<table, faults, overruns, batch>>
    BY <1>3 DEF Start, Wake, Stop, EndBatch, Signal, HandlerReturns, HandlerRaises, NoHandler, counters
  <2>2. \A v \in Workers : (pc'[v] = "claim") <=> (pc[v] = "claim")
    BY <1>3 DEF TypeOK, Start, Wake, Stop, EndBatch, Signal, HandlerReturns, HandlerRaises, NoHandler
  <2> QED
    BY <2>1, <2>2, HoldsQuiet, BudgetFrame DEF table
<1>4. ASSUME NEW w \in Workers, Select(w) PROVE BudgetAt(j)'
  <2>1. UNCHANGED <<table, faults, overruns>>
    BY <1>4 DEF Select, counters
  <2>2. ASSUME NEW v \in Workers, NEW m \in Nat PROVE Holds(v, j, m)' <=> Holds(v, j, m)
    <3>1. CASE v = w
      <4>1. batch[w] = <<>> /\ pc'[w] = "claim"
        BY <1>4 DEF Select, TypeOK, Idle
      <4> QED
        BY <3>1, <4>1 DEF Holds
    <3>2. CASE v # w
      <4>1. batch'[v] = batch[v] /\ pc'[v] = pc[v]
        BY <1>4, <3>2 DEF Select, TypeOK
      <4> QED
        BY <4>1, HoldsQuiet
    <3> QED
      BY <3>1, <3>2
  <2> QED
    BY <2>1, <2>2, BudgetFrame DEF table
<1>5. ASSUME NEW w \in Workers, Reclaim(w) PROVE BudgetAt(j)'
  <2>1. /\ UNCHANGED <<attempts, faults, overruns, batch>>
        /\ \A v \in Workers : (pc'[v] = "claim") <=> (pc[v] = "claim")
    BY <1>5 DEF Reclaim, counters, TypeOK
  <2>2. \/ status'[j] = status[j] /\ (j \in expired' => j \in expired)
        \/ Claimable(j)
    BY <1>5 DEF Reclaim, Stuck, Claimable
  <2> QED
    BY <2>1, <2>2, HoldsQuiet, BudgetFrame
<1>6. ASSUME NEW w \in Workers, Claim(w) PROVE BudgetAt(j)'
  <2>1. /\ pc[w] = "claim" /\ pc'[w] = "run"
        /\ \A v \in Workers \ {w} : batch'[v] = batch[v] /\ pc'[v] = pc[v]
        /\ batch'[w] = [i \in DOMAIN batch[w] |->
                          [job |-> batch[w][i].job, attempt |-> batch[w][i].attempt + 1]]
        /\ UNCHANGED <<faults, overruns>>
    BY <1>6 DEF Claim, SyncAttempts, TypeOK, counters
  <2>2. \A v \in Workers \ {w} : \A m \in Nat : Holds(v, j, m)' <=> Holds(v, j, m)
    BY <2>1, HoldsQuiet
  <2>3. \A m \in Nat : ~Holds(w, j, m)
    BY <2>1 DEF Holds
  <2>4. CASE j \in BatchJobs(w)
    <3>1. /\ attempts'[j] = attempts[j] + 1
          /\ status'[j] = "running" /\ j \notin expired'
      BY <1>6, <2>4 DEF Claim
    <3>2. \A i \in DOMAIN batch[w] : batch[w][i].job = j =>
             batch[w][i].attempt = attempts[j] /\ status[j] = "pending"
      BY <2>1 DEF TakeInv, RowsAsRead
    <3>3. \A m \in Nat : Holds(w, j, m)' <=> m = attempts[j] + 1
      <4>1. PICK i \in DOMAIN batch[w] : batch[w][i].job = j
        BY <2>4 DEF BatchJobs
      <4>2. batch'[w][i] = [job |-> j, attempt |-> attempts[j] + 1]
        BY <2>1, <3>2, <4>1
      <4>3. ASSUME NEW m \in Nat, Holds(w, j, m)' PROVE m = attempts[j] + 1
        <5>1. PICK k \in DOMAIN batch'[w] : batch'[w][k] = [job |-> j, attempt |-> m]
          BY <4>3 DEF Holds
        <5>2. k \in DOMAIN batch[w] /\ batch[w][k].job = j /\ m = batch[w][k].attempt + 1
          BY <2>1, <5>1
        <5> QED
          BY <3>2, <5>2
      <4> QED
        BY <2>1, <4>1, <4>2, <4>3 DEF Holds
    <3>4. LiveNumbers(j)' \subseteq LiveNumbers(j) \cup {attempts[j] + 1}
      <4> SUFFICES ASSUME NEW m \in 0 .. MaxAttempts - 1, NEW v \in Workers, Holds(v, j, m)'
                   PROVE  m = attempts[j] + 1 \/ \E u \in Workers : Holds(u, j, m)
        BY DEF LiveNumbers
      <4> QED
        BY <2>2, <3>3
    <3>5. Claimable(j)
      BY <2>4, <3>2 DEF Claimable, BatchJobs
    <3>6. ~Claimable(j)'
      <4>1. PICK m \in Nat : m = attempts[j] + 1
        BY DEF TypeOK
      <4>2. Holds(w, j, m)'
        BY <3>3, <4>1
      <4>3. Held(j)'
        BY <3>1, <4>1, <4>2, HeldTake
      <4> QED
        BY <3>1, <4>3 DEF Claimable
    <3> QED
      BY <2>1, <3>1, <3>4, <3>5, <3>6, BudgetClaimed
  <2>5. CASE j \notin BatchJobs(w)
    <3>1. attempts'[j] = attempts[j] /\ status'[j] = status[j] /\ (j \in expired' => j \in expired)
      BY <1>6, <2>5 DEF Claim
    <3>2. ASSUME NEW m \in Nat, Holds(w, j, m)' PROVE FALSE
      <4>1. PICK i \in DOMAIN batch'[w] : batch'[w][i] = [job |-> j, attempt |-> m]
        BY <3>2 DEF Holds
      <4>2. i \in DOMAIN batch[w] /\ batch[w][i].job = j
        BY <2>1, <4>1
      <4> QED
        BY <2>5, <4>2 DEF BatchJobs
    <3> QED
      BY <2>1, <2>2, <2>3, <3>1, <3>2, BudgetFrame
  <2> QED
    BY <2>4, <2>5
<1>7. ASSUME NEW w \in Workers, MarkDone(w) \/ Reschedule(w) PROVE BudgetAt(j)'
  <2>1. batch[w] # <<>> /\ pc[w] # "claim"
    BY <1>7 DEF MarkDone, Reschedule, TypeOK, Busy
  <2>2. /\ pc'[w] # "claim" /\ batch'[w] = Tail(batch[w])
        /\ \A v \in Workers \ {w} : pc'[v] = pc[v] /\ batch'[v] = batch[v]
        /\ UNCHANGED <<attempts, faults, overruns>>
    BY <1>7 DEF MarkDone, Reschedule, Finalize, TypeOK, counters
  <2>3. \A v \in Workers : \A m \in Nat :
           Holds(v, j, m)' <=> Holds(v, j, m) /\ Current(w) # [job |-> j, attempt |-> m]
    BY <2>1, <2>2, HoldsTail DEF TakeInv
  <2>4. LiveNumbers(j)' \subseteq LiveNumbers(j)
    BY <2>3 DEF LiveNumbers
  <2>5. CASE j # Current(w).job
    <3>1. status'[j] = status[j] /\ (j \in expired' => j \in expired)
      BY <1>7, <2>1, <2>5, FinalizeRow DEF MarkDone, Reschedule, Statuses
    <3> QED
      BY <2>2, <2>3, <2>5, <3>1, BudgetFrame
  <2>6. CASE j = Current(w).job /\ MarkDone(w)
    <3>1. status'[j] = "done"
      BY <2>1, <2>6, FinalizeRow DEF MarkDone, Statuses
    <3>2. ~Claimable(j)'
      BY <3>1 DEF Claimable
    <3>3. faults' + overruns'[j] >= faults + overruns[j]
      BY <2>2 DEF TypeOK
    <3> QED
      BY <2>2, <2>4, <3>2, <3>3, BudgetQuiet
  <2>7. CASE j = Current(w).job /\ Reschedule(w)
    <3>1. /\ Current(w) \in Take /\ Current(w) = [job |-> j, attempt |-> Current(w).attempt]
          /\ Current(w).attempt \in 0 .. MaxAttempts - 1
          /\ Current(w) = batch[w][1] /\ 1 \in DOMAIN batch[w]
      <4>1. batch[w] \in Seq(Take)
        BY DEF TypeOK
      <4>2. Current(w) \in Take
        BY <2>1, <4>1, TailTake DEF Current
      <4>3. Current(w).attempt < MaxAttempts
        BY <2>1, <2>7, HeadTake DEF Reschedule, Exhausted
      <4> QED
        BY <2>1, <2>7, <4>2, <4>3, HeadTake DEF Take
    <3>2. Current(w).attempt \in LiveNumbers(j)
      BY <2>1, <3>1 DEF LiveNumbers, Holds
    <3>3. LiveNumbers(j)' \subseteq LiveNumbers(j) \ {Current(w).attempt}
      <4> SUFFICES ASSUME NEW m \in LiveNumbers(j)' PROVE m # Current(w).attempt
        BY <2>4
      <4>1. PICK v \in Workers : Holds(v, j, m)'
        BY DEF LiveNumbers
      <4>2. m \in Nat
        BY DEF LiveNumbers
      <4> QED
        BY <2>3, <3>1, <4>1, <4>2
    <3> QED
      BY <2>2, <3>2, <3>3, BudgetSpent
  <2> QED
    BY <1>7, <2>5, <2>6, <2>7
<1>8. ASSUME NEW w \in Workers, MarkFailedTerminal(w) PROVE BudgetAt(j)'
  <2>1. batch[w] # <<>> /\ Finalize(w, "failed")
    BY <1>8 DEF MarkFailedTerminal, TypeOK, Busy
  <2>2. /\ UNCHANGED <<attempts, faults, overruns, batch>>
        /\ \A v \in Workers : (pc'[v] = "claim") <=> (pc[v] = "claim")
    BY <1>8 DEF MarkFailedTerminal, Finalize, TypeOK, counters
  <2>3. \/ status'[j] = status[j] /\ (j \in expired' => j \in expired)
        \/ status'[j] \in Terminal
    BY <2>1, FinalizeRow DEF Statuses, Terminal
  <2> QED
    BY <2>2, <2>3, HoldsQuiet, BudgetFrame
<1>9. ASSUME NEW w \in Workers, SendOperatorAlert(w) PROVE BudgetAt(j)'
  <2>1. batch[w] # <<>> /\ pc[w] = "alert"
    BY <1>9 DEF SendOperatorAlert, TypeOK, Busy
  <2>2. /\ pc'[w] # "claim" /\ batch'[w] = Tail(batch[w])
        /\ \A v \in Workers \ {w} : pc'[v] = pc[v] /\ batch'[v] = batch[v]
        /\ UNCHANGED <<table, faults, overruns>>
    BY <1>9 DEF SendOperatorAlert, TypeOK, counters
  <2>3. \A v \in Workers : \A m \in Nat :
           Holds(v, j, m)' <=> Holds(v, j, m) /\ Current(w) # [job |-> j, attempt |-> m]
    BY <2>1, <2>2, HoldsTail DEF TakeInv
  <2>4. LiveNumbers(j)' \subseteq LiveNumbers(j)
    BY <2>3 DEF LiveNumbers
  <2>5. Claimable(j)' => Claimable(j)
    <3> SUFFICES ASSUME status[j] = "running", Held(j) PROVE Held(j)'
      BY <2>2 DEF Claimable, table
    <3>1. attempts[j] \in Nat
      BY DEF TypeOK
    <3>2. Current(w) # [job |-> j, attempt |-> attempts[j]]
      BY <2>1, <3>1 DEF AlertedTakeSettled
    <3>3. PICK v \in Workers : Holds(v, j, attempts[j])
      BY HeldTake
    <3>4. Holds(v, j, attempts[j])'  <=> Holds(v, j, attempts[j])
      BY <2>2, <3>1, <3>2, <3>3, <2>3 DEF table
    <3> QED
      BY <2>2, <3>3, <3>4, HeldTake DEF table
  <2>6. faults' + overruns'[j] >= faults + overruns[j]
    BY <2>2 DEF TypeOK
  <2> QED
    BY <2>2, <2>4, <2>5, <2>6, BudgetQuiet DEF table
<1>10. ASSUME NEW w \in Workers, TickError(w) \/ Crash(w) PROVE BudgetAt(j)'
  <2>1. /\ pc'[w] # "claim" /\ batch'[w] = <<>>
        /\ \A v \in Workers \ {w} : pc'[v] = pc[v] /\ batch'[v] = batch[v]
        /\ UNCHANGED <<table, overruns>>
        /\ faults' = faults + 1
    BY <1>10 DEF TickError, Crash, TypeOK
  <2>2. \A v \in Workers : \A m \in Nat : Holds(v, j, m)' => Holds(v, j, m)
    BY <2>1 DEF Holds
  <2>3. LiveNumbers(j)' \subseteq LiveNumbers(j)
    BY <2>2 DEF LiveNumbers
  <2>4. faults' + overruns'[j] >= faults + overruns[j] + 1
    BY <2>1 DEF TypeOK
  <2> QED
    BY <2>1, <2>3, <2>4, BudgetPaid DEF table
<1>11. CASE UNCHANGED vars
  BY <1>11, HoldsQuiet, BudgetFrame DEF vars, table, counters
<1> QED
  BY <1>1, <1>2, <1>3, <1>4, <1>5, <1>6, <1>7, <1>8, <1>9, <1>10, <1>11 DEF Next, RunWorker

\* attempts never passes max_attempts by more than one for each crash or failed
\* tick and each lease of the job that was overrun, for any number of workers:
\* neither reclaim_stuck, which does not look at attempts, nor a stale worker's
\* reschedule can feed a job back without end.
THEOREM AttemptsStayInBudget == Spec => []AttemptsBudget
<1> DEFINE IInv == TypeOK /\ TakeInv /\ AlertedTakeSettled /\ BudgetInv
<1>1. Init => IInv
  <2> SUFFICES ASSUME Init PROVE IInv
    OBVIOUS
  <2>1. TypeOK /\ TakeInv /\ AlertedTakeSettled
    BY TypeInit, TakeInit DEF Init, AlertedTakeSettled
  <2>2. ASSUME NEW j \in Jobs PROVE BudgetAt(j)
    <3>1. LiveNumbers(j) = {}
      BY DEF Init, LiveNumbers, Holds
    <3>2. Cardinality(LiveNumbers(j)) = 0
      BY <3>1, FS_EmptySet
    <3>3. Left(j) = 1
      BY JobQueueAssumption DEF Init, Left
    <3> QED
      BY <3>2, <3>3 DEF BudgetAt
  <2> QED
    BY <2>1, <2>2 DEF BudgetInv
<1>2. IInv /\ [Next]_vars => IInv'
  <2> SUFFICES ASSUME IInv, [Next]_vars PROVE IInv'
    OBVIOUS
  <2>1. TypeOK' /\ TakeInv' /\ AlertedTakeSettled'
    BY TypeStep, TakeStep, AlertedStep
  <2>2. BudgetInv'
    BY <2>1, BudgetStep DEF BudgetInv
  <2> QED
    BY <2>1, <2>2
<1>3. IInv => AttemptsBudget
  <2> SUFFICES ASSUME IInv, NEW j \in Jobs
               PROVE  attempts[j] <= MaxAttempts + faults + overruns[j]
    BY DEF AttemptsBudget
  <2>1. Cardinality(LiveNumbers(j)) \in Nat
    BY NumbersFinite
  <2>2. attempts[j] \in Nat /\ faults \in Nat /\ overruns[j] \in Nat
    BY JobQueueAssumption DEF TypeOK
  <2> QED
    BY <2>1, <2>2, JobQueueAssumption DEF BudgetInv, BudgetAt, Left
<1> QED
  BY <1>1, <1>2, <1>3, PTL DEF Spec

-----------------------------------------------------------------------------
(***************************************************************************)
(* No running row is orphaned without a fault.                             *)
(*                                                                         *)
(* The invariant follows the take of the worker in locked_by through its   *)
(* batch: the head it drops is the row it has just finalized, or one whose *)
(* failure was committed before the alert.                                 *)
(***************************************************************************)

\* A batch is one pick.
ShortBatches == \A w \in Workers : \A i \in DOMAIN batch[w] : i <= Limit

\* The worker in locked_by has the row's present take.
OwnedAt(j) ==
  \E w \in Workers : \E m \in Nat : w = lockedBy[j] /\ m = attempts[j] /\ Holds(w, j, m)

HeldByOwner == faults = 0 => \A j \in Jobs : status[j] = "running" => OwnedAt(j)

\* Nothing makes a batch longer than its pick.
LEMMA ShortStep == TypeOK /\ ShortBatches /\ [Next]_vars => ShortBatches'
<1> SUFFICES ASSUME TypeOK, ShortBatches, [Next]_vars PROVE ShortBatches'
  OBVIOUS
<1>1. CASE batch' = batch
  BY <1>1 DEF ShortBatches
<1>2. ASSUME NEW w \in Workers, Select(w) PROVE ShortBatches'
  <2>1. PICK n \in 0 .. Limit : \E b \in [1 .. n -> Pickable] :
           batch' = [batch EXCEPT ![w] =
                       [i \in 1 .. n |-> [job |-> b[i], attempt |-> attempts[b[i]]]]]
    BY <1>2 DEF Select
  <2>2. DOMAIN batch'[w] = 1 .. n /\ \A v \in Workers \ {w} : batch'[v] = batch[v]
    BY <2>1 DEF TypeOK
  <2> QED
    BY <2>2, JobQueueAssumption DEF ShortBatches
<1>3. ASSUME NEW w \in Workers, Claim(w) PROVE ShortBatches'
  <2>1. \A v \in Workers : DOMAIN batch'[v] = DOMAIN batch[v]
    BY <1>3 DEF Claim, TypeOK
  <2> QED
    BY <2>1 DEF ShortBatches
<1>4. ASSUME NEW w \in Workers,
             \/ MarkDone(w) \/ Reschedule(w) \/ SendOperatorAlert(w)
             \/ TickError(w) \/ Crash(w)
      PROVE ShortBatches'
  <2>1. batch'[w] = <<>> \/ (batch[w] # <<>> /\ batch'[w] = Tail(batch[w]))
    BY <1>4 DEF TypeOK, Busy, MarkDone, Reschedule, SendOperatorAlert, TickError, Crash
  <2>2. \A v \in Workers \ {w} : batch'[v] = batch[v]
    BY <1>4 DEF TypeOK, MarkDone, Reschedule, SendOperatorAlert, TickError, Crash
  <2>3. \A i \in DOMAIN batch'[w] : i <= Limit
    <3>1. CASE batch'[w] = <<>>
      BY <3>1
    <3>2. CASE batch[w] # <<>> /\ batch'[w] = Tail(batch[w])
      <4>1. batch[w] \in Seq(Take) /\ Tail(batch[w]) \in Seq(Take)
        BY <3>2, TailTake DEF TypeOK
      <4> SUFFICES ASSUME NEW i \in DOMAIN Tail(batch[w]) PROVE i <= Limit
        BY <3>2
      <4>2. i + 1 \in DOMAIN batch[w] /\ i \in Nat
        BY <3>2, <4>1, TailTake, SeqTake
      <4>3. i + 1 <= Limit
        BY <4>2 DEF ShortBatches
      <4> QED
        BY <4>2, <4>3, JobQueueAssumption
    <3> QED
      BY <2>1, <3>1, <3>2
  <2> QED
    BY <2>2, <2>3 DEF ShortBatches
<1>5. \/ batch' = batch
      \/ \E w \in Workers : \/ Select(w) \/ Claim(w) \/ MarkDone(w) \/ Reschedule(w)
                            \/ SendOperatorAlert(w) \/ TickError(w) \/ Crash(w)
  BY DEF Next, RunWorker, vars, Enqueue, BecomeDue, LeaseExpires, LeaseOverruns, Start, Wake,
         Stop, Reclaim, EndBatch, HandlerReturns, HandlerRaises, NoHandler,
         MarkFailedTerminal, Signal
<1> QED
  BY <1>1, <1>2, <1>3, <1>4, <1>5

\* A row that keeps its owner and attempts, and whose owner keeps the take.
LEMMA OwnedKept ==
  ASSUME NEW j \in Jobs, OwnedAt(j), lockedBy'[j] = lockedBy[j], attempts'[j] = attempts[j],
         \A w \in Workers : \A m \in Nat :
            m = attempts[j] /\ Holds(w, j, m) => Holds(w, j, m)'
  PROVE  OwnedAt(j)'
  BY DEF OwnedAt

\* A row that is running has its take with its owner after every step.
LEMMA OwnerStep ==
  ASSUME TypeOK, TypeOK', TakeInv, AlertedTakeSettled, HeldByOwner, [Next]_vars
  PROVE  HeldByOwner'
<1> SUFFICES ASSUME faults' = 0, NEW j \in Jobs, status'[j] = "running"
             PROVE  OwnedAt(j)'
  BY DEF HeldByOwner
<1>a. ASSUME faults = 0, status[j] = "running" PROVE OwnedAt(j)
  BY <1>a DEF HeldByOwner
<1>1. ASSUME NEW k \in Jobs,
             Enqueue(k) \/ BecomeDue(k) \/ LeaseExpires(k) \/ LeaseOverruns(k)
      PROVE  OwnedAt(j)'
  <2>1. /\ UNCHANGED <<attempts, lockedBy, faults>>
        /\ \A w \in Workers : pc'[w] = pc[w] /\ batch'[w] = batch[w]
        /\ status[j] = "running"
    BY <1>1 DEF Enqueue, BecomeDue, LeaseExpires, LeaseOverruns, counters, TypeOK
  <2> QED
    BY <2>1, <1>a, HoldsQuiet, OwnedKept
<1>2. ASSUME NEW w \in Workers,
             \/ Start(w) \/ Wake(w) \/ Stop(w) \/ EndBatch(w) \/ Signal(w) \/ Reclaim(w)
             \/ HandlerReturns(w) \/ HandlerRaises(w) \/ NoHandler(w)
      PROVE  OwnedAt(j)'
  <2>1. /\ UNCHANGED <<attempts, faults, batch>>
        /\ lockedBy'[j] = lockedBy[j] /\ status[j] = "running"
    BY <1>2 DEF Start, Wake, Stop, EndBatch, Signal, Reclaim, HandlerReturns, HandlerRaises,
                NoHandler, counters, table
  <2>2. \A v \in Workers : (pc'[v] = "claim") <=> (pc[v] = "claim")
    BY <1>2 DEF TypeOK, Start, Wake, Stop, EndBatch, Signal, Reclaim, HandlerReturns,
                HandlerRaises, NoHandler
  <2> QED
    BY <2>1, <2>2, <1>a, HoldsQuiet, OwnedKept
<1>3. ASSUME NEW w \in Workers, Select(w) PROVE OwnedAt(j)'
  <2>1. /\ UNCHANGED <<table, faults>>
        /\ batch[w] = <<>>
        /\ \A v \in Workers \ {w} : pc'[v] = pc[v] /\ batch'[v] = batch[v]
    BY <1>3 DEF Select, counters, TypeOK, Idle
  <2>2. ASSUME NEW v \in Workers, NEW m \in Nat, Holds(v, j, m) PROVE Holds(v, j, m)'
    <3>1. v # w
      BY <2>1, <2>2 DEF Holds
    <3> QED
      BY <2>1, <2>2, <3>1, HoldsQuiet
  <2> QED
    BY <2>1, <2>2, <1>a, OwnedKept DEF table
<1>4. ASSUME NEW w \in Workers, Claim(w) PROVE OwnedAt(j)'
  <2>1. /\ pc[w] = "claim" /\ pc'[w] = "run"
        /\ \A v \in Workers \ {w} : batch'[v] = batch[v] /\ pc'[v] = pc[v]
        /\ batch'[w] = [i \in DOMAIN batch[w] |->
                          [job |-> batch[w][i].job, attempt |-> batch[w][i].attempt + 1]]
        /\ faults' = faults
    BY <1>4 DEF Claim, SyncAttempts, TypeOK, counters
  <2>2. CASE j \in BatchJobs(w)
    <3>1. PICK i \in DOMAIN batch[w] : batch[w][i].job = j
      BY <2>2 DEF BatchJobs
    <3>2. lockedBy'[j] = w /\ attempts'[j] = attempts[j] + 1 /\ attempts'[j] \in Nat
      BY <1>4, <2>2 DEF Claim, TypeOK
    <3>3. batch'[w][i] = [job |-> j, attempt |-> attempts'[j]] /\ i \in DOMAIN batch'[w]
      BY <2>1, <3>1, <3>2 DEF TakeInv, RowsAsRead
    <3> QED
      BY <2>1, <3>2, <3>3 DEF OwnedAt, Holds
  <2>3. CASE j \notin BatchJobs(w)
    <3>1. lockedBy'[j] = lockedBy[j] /\ attempts'[j] = attempts[j] /\ status[j] = "running"
      BY <1>4, <2>3 DEF Claim
    <3>2. ASSUME NEW v \in Workers, NEW m \in Nat, Holds(v, j, m) PROVE Holds(v, j, m)'
      <4>1. v # w
        BY <2>1, <3>2 DEF Holds
      <4> QED
        BY <2>1, <3>2, <4>1, HoldsQuiet
    <3> QED
      BY <2>1, <3>1, <3>2, <1>a, OwnedKept
  <2> QED
    BY <2>2, <2>3
<1>5. ASSUME NEW w \in Workers, MarkDone(w) \/ Reschedule(w) PROVE OwnedAt(j)'
  <2>1. batch[w] # <<>> /\ pc[w] # "claim"
    BY <1>5 DEF MarkDone, Reschedule, TypeOK, Busy
  <2>2. /\ pc'[w] # "claim" /\ batch'[w] = Tail(batch[w])
        /\ \A v \in Workers \ {w} : pc'[v] = pc[v] /\ batch'[v] = batch[v]
        /\ faults' = faults
    BY <1>5 DEF MarkDone, Reschedule, TypeOK, counters
  <2>3. \E r \in {"done", "pending"} : Finalize(w, r)
    BY <1>5 DEF MarkDone, Reschedule
  <2>4. /\ j # Current(w).job
        /\ status[j] = "running" /\ lockedBy'[j] = lockedBy[j] /\ attempts'[j] = attempts[j]
    BY <2>1, <2>3, FinalizeRow DEF Statuses
  <2>5. \A v \in Workers : \A m \in Nat : Holds(v, j, m) => Holds(v, j, m)'
    BY <2>1, <2>2, <2>4, HoldsTail DEF TakeInv
  <2> QED
    BY <2>2, <2>4, <2>5, <1>a, OwnedKept
<1>6. ASSUME NEW w \in Workers, MarkFailedTerminal(w) PROVE OwnedAt(j)'
  <2>1. batch[w] # <<>> /\ Finalize(w, "failed")
    BY <1>6 DEF MarkFailedTerminal, TypeOK, Busy
  <2>2. /\ UNCHANGED <<faults, batch>>
        /\ \A v \in Workers : (pc'[v] = "claim") <=> (pc[v] = "claim")
    BY <1>6 DEF MarkFailedTerminal, TypeOK, counters
  <2>3. status[j] = "running" /\ lockedBy'[j] = lockedBy[j] /\ attempts'[j] = attempts[j]
    BY <2>1, FinalizeRow DEF Statuses
  <2> QED
    BY <2>2, <2>3, <1>a, HoldsQuiet, OwnedKept
<1>7. ASSUME NEW w \in Workers, SendOperatorAlert(w) PROVE OwnedAt(j)'
  <2>1. batch[w] # <<>> /\ pc[w] = "alert"
    BY <1>7 DEF SendOperatorAlert, TypeOK, Busy
  <2>2. /\ pc'[w] # "claim" /\ batch'[w] = Tail(batch[w])
        /\ \A v \in Workers \ {w} : pc'[v] = pc[v] /\ batch'[v] = batch[v]
        /\ UNCHANGED <<table, faults>>
    BY <1>7 DEF SendOperatorAlert, TypeOK, counters
  <2>t. attempts[j] \in Nat /\ status[j] = "running"
    BY <2>2 DEF TypeOK, table
  <2>3. Current(w) # [job |-> j, attempt |-> attempts[j]]
    BY <2>1, <2>t DEF AlertedTakeSettled
  <2>4. ASSUME NEW v \in Workers, NEW m \in Nat, m = attempts[j], Holds(v, j, m)
        PROVE  Holds(v, j, m)'
    <3>1. Holds(v, j, m)' <=> Holds(v, j, m) /\ Current(w) # [job |-> j, attempt |-> m]
      BY <2>1, <2>2, HoldsTail DEF TakeInv
    <3> QED
      BY <2>t, <2>3, <2>4, <3>1
  <2> QED
    BY <2>2, <2>4, <1>a, OwnedKept DEF table
<1>8. ASSUME NEW w \in Workers, TickError(w) \/ Crash(w) PROVE OwnedAt(j)'
  BY <1>8, JobQueueAssumption DEF TickError, Crash, TypeOK
<1>9. CASE UNCHANGED vars
  <2>1. OwnedAt(j)
    BY <1>9, <1>a DEF vars, table, counters
  <2> QED
    BY <1>9, <2>1 DEF OwnedAt, Holds, vars, table
<1> QED
  BY <1>1, <1>2, <1>3, <1>4, <1>5, <1>6, <1>7, <1>8, <1>9 DEF Next, RunWorker

\* Without a crash or a failed tick every running row is in the hands of the
\* worker in locked_by, under the attempt number of the row, whatever shutdowns,
\* overrun leases and stale finalizes there were: the loop itself never orphans
\* a row, only a crash or a failed tick leaves one for reclaim_stuck to find.
THEOREM RunningIsHeld == Spec => []RunningIsHeldByOwner
<1> DEFINE IInv == TypeOK /\ TakeInv /\ AlertedTakeSettled /\ ShortBatches /\ HeldByOwner
<1>1. Init => IInv
  <2> SUFFICES ASSUME Init PROVE IInv
    OBVIOUS
  <2>1. TypeOK /\ TakeInv /\ AlertedTakeSettled
    BY TypeInit, TakeInit DEF Init, AlertedTakeSettled
  <2>2. ShortBatches /\ HeldByOwner
    BY DEF Init, ShortBatches, HeldByOwner
  <2> QED
    BY <2>1, <2>2
<1>2. IInv /\ [Next]_vars => IInv'
  <2> SUFFICES ASSUME IInv, [Next]_vars PROVE IInv'
    OBVIOUS
  <2>1. TypeOK' /\ TakeInv' /\ AlertedTakeSettled' /\ ShortBatches'
    BY TypeStep, TakeStep, AlertedStep, ShortStep
  <2>2. HeldByOwner'
    BY <2>1, OwnerStep
  <2> QED
    BY <2>1, <2>2
<1>3. IInv => RunningIsHeldByOwner
  <2> SUFFICES ASSUME IInv, faults = 0, NEW j \in Jobs, status[j] = "running"
               PROVE  \E p \in Taken : /\ p[1] = lockedBy[j]
                                       /\ TakeAt(p) = [job |-> j, attempt |-> attempts[j]]
    BY DEF RunningIsHeldByOwner
  <2>1. PICK w \in Workers : w = lockedBy[j] /\ Holds(w, j, attempts[j])
    BY DEF HeldByOwner, OwnedAt
  <2>2. PICK i \in DOMAIN batch[w] :
           pc[w] # "claim" /\ batch[w][i] = [job |-> j, attempt |-> attempts[j]]
    BY <2>1 DEF Holds
  <2>3. i \in 1 .. Limit
    <3>1. batch[w] \in Seq(Take)
      BY DEF TypeOK
    <3>2. i \in Nat /\ i >= 1
      BY <3>1, SeqTake
    <3> QED
      BY <3>2, JobQueueAssumption DEF ShortBatches
  <2>4. <<w, i>> \in Taken
    BY <2>2, <2>3 DEF Taken
  <2> QED
    BY <2>1, <2>2, <2>4 DEF TakeAt
<1> QED
  BY <1>1, <1>2, <1>3, PTL DEF Spec

-----------------------------------------------------------------------------
(***************************************************************************)
(* JobQueue implements Delivery.                                           *)
(***************************************************************************)

MapInv == BatchDistinct /\ AlertedTakeSettled
QueueInv == TypeOK /\ TakeInv /\ LeaseInv /\ MapInv

LEMMA MapInit == Init => MapInv
  BY DEF Init, MapInv, BatchDistinct, AlertedTakeSettled

LEMMA QueueInvInit == Init => QueueInv
  BY TypeInit, TakeInit, LeaseInit, MapInit DEF QueueInv

LEMMA QueueInvStep == QueueInv /\ [Next]_vars => QueueInv'
  BY TypeStep, TakeStep, LeaseStep, DistinctStep, AlertedStep DEF QueueInv, MapInv

(***************************************************************************)
(* The steps, one kind of step of Delivery at a time.                      *)
(***************************************************************************)

\* Worker w has job j: what <<w, j>> \in LiveTakes means.
Has(w, j) == /\ pc[w] # "claim"
             /\ \E i \in Unsettled(w) : batch[w][i].job = j

LEMMA HasTake ==
  ASSUME NEW w \in Workers, NEW j \in Jobs
  PROVE  /\ <<w, j>> \in LiveTakes <=> Has(w, j)
         /\ <<w, j>> \in LiveTakes' <=> Has(w, j)'
  BY DEF LiveTakes, Has

\* A worker's step leaves what the others have alone.
LEMMA HasFrame ==
  ASSUME NEW w \in Workers, NEW v \in Workers \ {w}, NEW j \in Jobs,
         pc'[v] = pc[v], batch'[v] = batch[v]
  PROVE  Has(v, j)' <=> Has(v, j)
  BY DEF Has, Unsettled

LEMMA MapInsert ==
  ASSUME TypeOK, NEW j \in Jobs, Enqueue(j)
  PROVE  Abstract!Insert(j)
<1>1. RowState[j] = "absent" /\ RowState' = [RowState EXCEPT ![j] = "open"]
  BY DEF Enqueue, RowState, OpenOr, TypeOK
<1>2. LiveTakes' = LiveTakes /\ LateJobs' = LateJobs
  BY DEF Enqueue, LiveTakes, LateJobs, Unsettled, counters
<1> QED
  BY <1>1, <1>2 DEF Abstract!Insert

\* A worker that has the row under its present attempt has it still to settle,
\* so a lease that expires under it is one that a taker outlives.
LEMMA MapOutlive ==
  ASSUME QueueInv, NEW j \in Jobs, LeaseOverruns(j)
  PROVE  Abstract!Outlive(j)
<1>1. PICK w \in Workers : /\ pc[w] # "claim"
                           /\ \E i \in DOMAIN batch[w] :
                                 batch[w][i] = [job |-> j, attempt |-> attempts[j]]
  BY DEF LeaseOverruns, Held
<1>2. PICK i \in DOMAIN batch[w] : batch[w][i] = [job |-> j, attempt |-> attempts[j]]
  BY <1>1
<1>3. i \in Unsettled(w)
  <2> SUFFICES ASSUME pc[w] = "alert", i = 1 PROVE FALSE
    BY DEF Unsettled
  <2>1. batch[w] # <<>> /\ Current(w) = batch[w][1]
    BY HeadTake DEF QueueInv, TypeOK, Busy
  <2>2. attempts[j] \in Nat /\ status[j] = "running"
    BY DEF QueueInv, TypeOK, LeaseOverruns
  <2> QED
    BY <1>2, <2>1, <2>2 DEF QueueInv, MapInv, AlertedTakeSettled
<1>4. <<w, j>> \in LiveTakes
  BY <1>1, <1>2, <1>3, HasTake DEF Has
<1>5. LateJobs' = LateJobs \cup {j}
  BY JobQueueAssumption DEF LeaseOverruns, LateJobs, QueueInv, TypeOK
<1>6. LiveTakes' = LiveTakes /\ RowState' = RowState
  BY DEF LeaseOverruns, LiveTakes, RowState, Unsettled
<1> QED
  BY <1>4, <1>5, <1>6 DEF Abstract!Outlive, Abstract!Takers

\* A pick commits: its rows were pending, so whoever else has one of them has
\* outlived a lease of it.
LEMMA MapPick ==
  ASSUME QueueInv, NEW w \in Workers, Claim(w)
  PROVE  BatchJobs(w) \in SUBSET Jobs /\ Abstract!Pick(w, BatchJobs(w))
<1>1. BatchJobs(w) \subseteq Jobs
  BY BatchElement DEF QueueInv, BatchJobs
<1>2. pc[w] = "claim" /\ \A j \in BatchJobs(w) : status[j] = "pending"
  BY DEF Claim, BatchJobs, QueueInv, TakeInv, RowsAsRead
<1>3. \A j \in Jobs : <<w, j>> \notin LiveTakes
  BY <1>2, HasTake DEF Has
<1>4. \A j \in BatchJobs(w) : RowState[j] = "open"
  BY <1>1, <1>2 DEF RowState, OpenOr
<1>5. ASSUME NEW j \in BatchJobs(w), NEW v \in Workers, <<v, j>> \in LiveTakes
      PROVE  j \in LateJobs
  <2>1. PICK i \in Unsettled(v) : pc[v] # "claim" /\ batch[v][i].job = j
    BY <1>5, <1>1, HasTake DEF Has
  <2>2. i \in DOMAIN batch[v]
    BY <2>1 DEF Unsettled
  <2>3. overruns[j] # 0
    BY <2>1, <2>2, <1>2 DEF QueueInv, LeaseInv, TakesCurrent
  <2>4. overruns[j] > 0
    BY <2>3, <1>1, JobQueueAssumption DEF QueueInv, TypeOK
  <2> QED
    BY <2>4, <1>1 DEF LateJobs
<1>6. /\ pc'[w] = "run"
      /\ DOMAIN batch'[w] = DOMAIN batch[w]
      /\ \A i \in DOMAIN batch[w] : batch'[w][i].job = batch[w][i].job
      /\ \A v \in Workers \ {w} : pc'[v] = pc[v] /\ batch'[v] = batch[v]
  BY DEF Claim, SyncAttempts, QueueInv, TypeOK
<1>7. LiveTakes' = LiveTakes \cup ({w} \X BatchJobs(w))
  <2>1. \A j \in Jobs : Has(w, j)' <=> j \in BatchJobs(w)
    BY <1>6 DEF Has, Unsettled, BatchJobs
  <2>2. \A v \in Workers \ {w} : \A j \in Jobs : Has(v, j)' <=> <<v, j>> \in LiveTakes
    BY <1>6, HasFrame, HasTake
  <2>3. \A v \in Workers, j \in Jobs :
           <<v, j>> \in LiveTakes' <=> <<v, j>> \in LiveTakes \/ (v = w /\ j \in BatchJobs(w))
    BY <2>1, <2>2, <1>3, HasTake
  <2>4. LiveTakes \subseteq Workers \X Jobs /\ LiveTakes' \subseteq Workers \X Jobs
    BY DEF LiveTakes
  <2> QED
    BY <2>3, <2>4, <1>1
<1>8. RowState' = RowState /\ LateJobs' = LateJobs
  BY <1>2, <1>1 DEF Claim, RowState, OpenOr, LateJobs, counters
<1> QED
  BY <1>1, <1>3, <1>4, <1>5, <1>7, <1>8 DEF Abstract!Pick, Abstract!Takers

\* The jobs of the rest of a batch.
LEMMA TailJobs ==
  ASSUME TypeOK, NEW w \in Workers, batch[w] # <<>>, batch'[w] = Tail(batch[w]), NEW j
  PROVE  (\E i \in DOMAIN batch'[w] : batch'[w][i].job = j)
         <=> (\E i \in DOMAIN batch[w] \ {1} : batch[w][i].job = j)
<1>1. batch[w] \in Seq(Take)
  BY DEF TypeOK
<1>2. ASSUME NEW s \in Seq(Take), s # <<>>
      PROVE  /\ \A i \in DOMAIN Tail(s) : i + 1 \in DOMAIN s \ {1} /\ Tail(s)[i] = s[i + 1]
             /\ \A i \in DOMAIN s \ {1} : i - 1 \in DOMAIN Tail(s) /\ Tail(s)[i - 1] = s[i]
  BY <1>2
<1>3. ASSUME NEW i \in DOMAIN batch'[w], batch'[w][i].job = j
      PROVE  \E k \in DOMAIN batch[w] \ {1} : batch[w][k].job = j
  <2>1. i + 1 \in DOMAIN batch[w] \ {1} /\ batch[w][i + 1].job = j
    BY <1>1, <1>2, <1>3
  <2> QED
    BY <2>1
<1>4. ASSUME NEW i \in DOMAIN batch[w] \ {1}, batch[w][i].job = j
      PROVE  \E k \in DOMAIN batch'[w] : batch'[w][k].job = j
  <2>1. i - 1 \in DOMAIN batch'[w] /\ batch'[w][i - 1].job = j
    BY <1>1, <1>2, <1>4
  <2> QED
    BY <2>1
<1> QED
  BY <1>3, <1>4

\* The takes left to a worker when the head of its batch is done with.
LEMMA HasTail ==
  ASSUME TypeOK, NEW w \in Workers, NEW j \in Jobs, batch[w] # <<>>,
         batch'[w] = Tail(batch[w]), pc'[w] \notin {"claim", "alert"}
  PROVE  Has(w, j)' <=> \E i \in DOMAIN batch[w] \ {1} : batch[w][i].job = j
<1>1. Has(w, j)' <=> \E i \in DOMAIN batch'[w] : batch'[w][i].job = j
  BY DEF Has, Unsettled
<1>2. (\E i \in DOMAIN batch'[w] : batch'[w][i].job = j)
      <=> \E i \in DOMAIN batch[w] \ {1} : batch[w][i].job = j
  BY TailJobs
<1> QED
  BY <1>1, <1>2

\* A finalize settles the head of the batch and no other take of the worker,
\* whatever another worker has made of the row.
LEMMA MapSettle ==
  ASSUME QueueInv, NEW w \in Workers, NEW r \in Statuses,
         batch[w] # <<>>, pc[w] \notin {"claim", "alert"},
         Finalize(w, r), overruns' = overruns, pc'[w] # "claim",
         \/ pc'[w] = "alert" /\ batch'[w] = batch[w]
         \/ pc'[w] # "alert" /\ batch'[w] = Tail(batch[w]),
         \A v \in Workers \ {w} : pc'[v] = pc[v] /\ batch'[v] = batch[v]
  PROVE  Abstract!Settle(w, Current(w).job, OpenOr(r))
<1> DEFINE j == Current(w).job
<1>0. TypeOK /\ MapInv
  BY DEF QueueInv
<1>1. 1 \in DOMAIN batch[w] /\ j = batch[w][1].job /\ j \in Jobs
  BY <1>0, HeadTake
<1>2. <<w, j>> \in LiveTakes
  BY <1>1, HasTake DEF Has, Unsettled
<1>3. RowState' = [RowState EXCEPT ![j] = OpenOr(r)]
  BY <1>0, <1>1 DEF Finalize, RowState, TypeOK
<1>4. \A k \in Jobs : Has(w, k)' <=> \E i \in DOMAIN batch[w] \ {1} : batch[w][i].job = k
  <2>1. CASE pc'[w] = "alert" /\ batch'[w] = batch[w]
    BY <2>1 DEF Has, Unsettled
  <2>2. CASE pc'[w] # "alert" /\ batch'[w] = Tail(batch[w])
    BY <1>0, <2>2, HasTail
  <2> QED
    BY <2>1, <2>2
<1>5. \A k \in Jobs : Has(w, k)' <=> Has(w, k) /\ k # j
  <2>1. \A i \in DOMAIN batch[w] \ {1} : batch[w][i].job # j
    BY <1>0, <1>1 DEF MapInv, BatchDistinct
  <2> QED
    BY <1>1, <1>4, <2>1 DEF Has, Unsettled
<1>6. LiveTakes' = LiveTakes \ {<<w, j>>}
  <2>1. \A v \in Workers, k \in Jobs :
           <<v, k>> \in LiveTakes' <=> <<v, k>> \in LiveTakes /\ <<v, k>> # <<w, j>>
    BY <1>5, HasFrame, HasTake
  <2>2. LiveTakes \subseteq Workers \X Jobs /\ LiveTakes' \subseteq Workers \X Jobs
    BY DEF LiveTakes
  <2> QED
    BY <2>1, <2>2
<1>7. LateJobs' = LateJobs
  BY DEF LateJobs
<1> QED
  BY <1>2, <1>3, <1>6, <1>7 DEF Abstract!Settle

\* A worker that crashes, or whose tick fails, forgets its jobs; the rows stay
\* as they are.
LEMMA MapDrop ==
  ASSUME QueueInv, NEW w \in Workers, TickError(w) \/ Crash(w)
  PROVE  Abstract!Drop(w)
<1>1. /\ batch'[w] = <<>>
      /\ \A v \in Workers \ {w} : pc'[v] = pc[v] /\ batch'[v] = batch[v]
      /\ UNCHANGED <<status, overruns>>
  BY DEF TickError, Crash, table, QueueInv, TypeOK
<1>2. \A j \in Jobs : ~Has(w, j)'
  BY <1>1 DEF Has, Unsettled
<1>3. LiveTakes' = {t \in LiveTakes : t[1] # w}
  <2>1. \A v \in Workers, k \in Jobs : <<v, k>> \in LiveTakes' <=> <<v, k>> \in LiveTakes /\ v # w
    BY <1>1, <1>2, HasFrame, HasTake
  <2>2. LiveTakes \subseteq Workers \X Jobs /\ LiveTakes' \subseteq Workers \X Jobs
    BY DEF LiveTakes
  <2> QED
    BY <2>1, <2>2
<1>4. RowState' = RowState /\ LateJobs' = LateJobs
  BY <1>1 DEF RowState, LateJobs
<1> QED
  BY <1>3, <1>4 DEF Abstract!Drop

\* The steps Delivery does not see: the loop, the clock, the reclaim, the pick
\* before its commit, the handler and the alert.
LEMMA MapStutter ==
  ASSUME QueueInv, NEW w \in Workers,
         \/ Start(w) \/ Wake(w) \/ Stop(w) \/ Reclaim(w) \/ Select(w) \/ EndBatch(w)
         \/ HandlerReturns(w) \/ HandlerRaises(w) \/ NoHandler(w)
         \/ SendOperatorAlert(w) \/ Signal(w)
  PROVE  UNCHANGED Abstract!deliveryVars
<1> USE DEF QueueInv
<1>1. /\ overruns' = overruns
      /\ \A v \in Workers \ {w} : pc'[v] = pc[v] /\ batch'[v] = batch[v]
  BY DEF TypeOK, table, counters, Start, Wake, Stop, Reclaim, Select, EndBatch,
         HandlerReturns, HandlerRaises, NoHandler, SendOperatorAlert, Signal
<1>2. RowState' = RowState
  <2>1. CASE UNCHANGED status
    BY <2>1 DEF RowState
  <2>2. CASE Reclaim(w)
    BY <2>2 DEF Reclaim, RowState, OpenOr, Stuck
  <2> QED
    BY <2>1, <2>2 DEF table, Start, Wake, Stop, Select, EndBatch, HandlerReturns,
                      HandlerRaises, NoHandler, SendOperatorAlert, Signal
<1>3. \A j \in Jobs : Has(w, j)' <=> Has(w, j)
  <2>1. CASE Signal(w)
    BY <2>1 DEF Signal, Has, Unsettled
  <2>2. CASE Select(w)
    <3>1. batch[w] = <<>> /\ pc'[w] = "claim"
      BY <2>2 DEF Select, TypeOK, Idle
    <3> QED
      BY <3>1 DEF Has, Unsettled
  <2>3. CASE SendOperatorAlert(w)
    <3>1. /\ pc[w] = "alert" /\ pc'[w] = "run"
          /\ batch[w] # <<>> /\ batch'[w] = Tail(batch[w])
      BY <2>3 DEF SendOperatorAlert, TypeOK, Busy
    <3> QED
      <4>1. \A j \in Jobs : Has(w, j)' <=> \E i \in DOMAIN batch[w] \ {1} : batch[w][i].job = j
        BY <3>1, HasTail
      <4> QED
        BY <3>1, <4>1 DEF Has, Unsettled
  <2>4. CASE \/ Start(w) \/ Wake(w) \/ Stop(w) \/ Reclaim(w) \/ EndBatch(w)
             \/ HandlerReturns(w) \/ HandlerRaises(w) \/ NoHandler(w)
    <3>1. /\ batch'[w] = batch[w]
          /\ pc[w] \notin {"claim", "alert"}
          /\ pc'[w] \notin {"claim", "alert"}
      BY <2>4 DEF TypeOK, Start, Wake, Stop, Reclaim, EndBatch,
                  HandlerReturns, HandlerRaises, NoHandler
    <3> QED
      BY <3>1 DEF Has, Unsettled
  <2> QED
    BY <2>1, <2>2, <2>3, <2>4
<1>4. LiveTakes' = LiveTakes
  <2>1. \A v \in Workers, k \in Jobs : <<v, k>> \in LiveTakes' <=> <<v, k>> \in LiveTakes
    BY <1>1, <1>3, HasFrame, HasTake
  <2>2. LiveTakes \subseteq Workers \X Jobs /\ LiveTakes' \subseteq Workers \X Jobs
    BY DEF LiveTakes
  <2> QED
    BY <2>1, <2>2
<1>5. LateJobs' = LateJobs
  BY <1>1 DEF LateJobs
<1> QED
  BY <1>2, <1>4, <1>5 DEF Abstract!deliveryVars

-----------------------------------------------------------------------------
LEMMA RefinesInit == Init => Abstract!DeliveryInit
  BY DEF Init, Abstract!DeliveryInit, RowState, OpenOr, LiveTakes, LateJobs, Unsettled

LEMMA RefinesStep == QueueInv /\ [Next]_vars => [Abstract!DeliveryNext]_(Abstract!deliveryVars)
<1> SUFFICES ASSUME QueueInv, [Next]_vars
             PROVE  Abstract!DeliveryNext \/ UNCHANGED Abstract!deliveryVars
  OBVIOUS
<1>1. ASSUME NEW j \in Jobs, Enqueue(j) PROVE Abstract!DeliveryNext
  BY <1>1, MapInsert DEF Abstract!DeliveryNext, QueueInv
<1>2. ASSUME NEW j \in Jobs, BecomeDue(j) \/ LeaseExpires(j)
      PROVE  UNCHANGED Abstract!deliveryVars
  BY <1>2 DEF BecomeDue, LeaseExpires, counters, Abstract!deliveryVars,
              RowState, LiveTakes, LateJobs, Unsettled
<1>3. ASSUME NEW j \in Jobs, LeaseOverruns(j) PROVE Abstract!DeliveryNext
  BY <1>3, MapOutlive DEF Abstract!DeliveryNext
<1>4. ASSUME NEW w \in Workers, Claim(w) PROVE Abstract!DeliveryNext
  BY <1>4, MapPick DEF Abstract!DeliveryNext
<1>5. ASSUME NEW w \in Workers, MarkDone(w) \/ Reschedule(w) \/ MarkFailedTerminal(w)
      PROVE  Abstract!DeliveryNext
  <2> DEFINE j == Current(w).job
  <2>1. batch[w] # <<>> /\ pc[w] \notin {"claim", "alert"}
    BY <1>5 DEF MarkDone, Reschedule, MarkFailedTerminal, QueueInv, TypeOK, Busy
  <2>2. j \in Jobs
    BY <2>1, HeadTake DEF QueueInv
  <2>3. CASE MarkDone(w)
    <3>1. Abstract!Settle(w, j, OpenOr("done"))
      BY <2>1, <2>3, MapSettle DEF MarkDone, Statuses, QueueInv, TypeOK, counters
    <3> QED
      BY <2>2, <3>1 DEF OpenOr, Abstract!Succeed, Abstract!DeliveryNext
  <2>4. CASE Reschedule(w)
    <3>1. Abstract!Settle(w, j, OpenOr("pending"))
      BY <2>1, <2>4, MapSettle DEF Reschedule, Statuses, QueueInv, TypeOK, counters
    <3> QED
      BY <2>2, <3>1 DEF OpenOr, Abstract!Retry, Abstract!DeliveryNext
  <2>5. CASE MarkFailedTerminal(w)
    <3>1. Abstract!Settle(w, j, OpenOr("failed"))
      BY <2>1, <2>5, MapSettle DEF MarkFailedTerminal, Statuses, QueueInv, TypeOK, counters
    <3> QED
      BY <2>2, <3>1 DEF OpenOr, Abstract!Fail, Abstract!DeliveryNext
  <2> QED
    BY <1>5, <2>3, <2>4, <2>5
<1>6. ASSUME NEW w \in Workers, TickError(w) \/ Crash(w) PROVE Abstract!DeliveryNext
  BY <1>6, MapDrop DEF Abstract!DeliveryNext
<1>7. ASSUME NEW w \in Workers,
             \/ Start(w) \/ Wake(w) \/ Stop(w) \/ Reclaim(w) \/ Select(w) \/ EndBatch(w)
             \/ HandlerReturns(w) \/ HandlerRaises(w) \/ NoHandler(w)
             \/ SendOperatorAlert(w) \/ Signal(w)
      PROVE  UNCHANGED Abstract!deliveryVars
  BY <1>7, MapStutter
<1>8. CASE UNCHANGED vars
  BY <1>8 DEF vars, table, counters, Abstract!deliveryVars,
              RowState, LiveTakes, LateJobs, Unsettled
<1> QED
  BY <1>1, <1>2, <1>3, <1>4, <1>5, <1>6, <1>7, <1>8 DEF Next, RunWorker

\* The queue delivers: every behaviour of the table and its workers is one of
\* Delivery, with expired leases, stale finalizes, crashes and failed ticks.
THEOREM Refinement == Spec => ImplementsDelivery
  BY QueueInvInit, QueueInvStep, RefinesInit, RefinesStep, PTL
  DEF Spec, ImplementsDelivery, Abstract!DeliverySpec
=============================================================================
