-------------------------- MODULE RemindersProofs ---------------------------
(***************************************************************************)
(* The safety of reminders, for any number of workers, follow-ups and      *)
(* faults.                                                                 *)
(*                                                                         *)
(* The argument: a handler that returned leaves its follow-up sent, and    *)
(* one past its message has sent it (EffectInv).  As long as the lease has *)
(* not run out under a live worker a handler is alone with its follow-up,  *)
(* so the follow-up is pending up to its commit, and every message but the *)
(* one of the handler at work was followed by a fault (CountInv).          *)
(***************************************************************************)
EXTENDS Reminders, DeliveryProofs

\* A follow-up and its job are there together, and only then does anybody have it.
Scheduled ==
  \A f \in Jobs : /\ followUp[f] = "none" <=> state[f] = "absent"
                  /\ followUp[f] = "none" => Takers(f) = {}

\* What the phase of a handler says about its follow-up.
SentAfterward    == \A w \in Workers : phase[w] = "returned" => followUp[handling[w]] = "sent"
RemindedAfterward == \A w \in Workers : Unrecorded(w) => reminders[handling[w]] > 0

EffectInv ==
  Scheduled /\ SentAfterward /\ RemindedAfterward /\ DoneMeansSent /\ SentMeansReminded

PendingBefore ==
  \A w \in Workers : phase[w] \in {"send", "recheck", "mark"} /\ handling[w] \notin late
                       => followUp[handling[w]] = "pending"

\* Between two handlers every message of a follow-up not yet sent met its fault.
Accounted ==
  \A f \in Jobs \ late :
    followUp[f] # "sent" /\ (\A w \in Workers : Unrecorded(w) => handling[w] # f)
      => reminders[f] <= interrupted[f]

CountInv == PendingBefore /\ Accounted /\ ExtraReminderIsInterrupted

RemindersInv == TypeOK /\ ExclusiveUnlessLate /\ EffectInv /\ CountInv

-----------------------------------------------------------------------------
(***************************************************************************)
(* Types, and the worker's hold on its job.                                *)
(***************************************************************************)

LEMMA InitType == Init => TypeOK /\ ExclusiveUnlessLate
  BY InitDelivery, RemindersAssumption DEF Init, TypeOK, DeliveryInv, Phases

\* A worker in a handler is among the takers of its job.
LEMMA Handled ==
  ASSUME TypeOK, NEW w \in Workers, phase[w] # "idle"
  PROVE  handling[w] \in Jobs /\ w \in Takers(handling[w])
  BY DEF TypeOK, DeliveryTypeOK, Takers

\* Nobody else runs the handler of a job whose lease has not run out.
LEMMA Alone ==
  ASSUME TypeOK, ExclusiveUnlessLate,
         NEW v \in Workers, NEW w \in Workers, phase[v] # "idle", phase[w] # "idle",
         handling[v] = handling[w], handling[w] \notin late
  PROVE  v = w
  BY Handled DEF ExclusiveUnlessLate

LEMMA InterruptType ==
  ASSUME TypeOK, NEW w \in Workers, Interrupt(w)
  PROVE  interrupted' \in [Jobs -> Nat]
  BY DEF TypeOK, Interrupt

LEMMA FaultType ==
  ASSUME TypeOK, Fault \/ UNCHANGED faults
  PROVE  faults' \in 0 .. MaxFaults
<1>1. CASE Fault
  BY <1>1, RemindersAssumption DEF TypeOK, Fault
<1>2. CASE UNCHANGED faults
  BY <1>2 DEF TypeOK
<1> QED  BY <1>1, <1>2

LEMMA ScheduleType ==
  ASSUME TypeOK, ExclusiveUnlessLate, NEW f \in Jobs, Schedule(f) \/ LeaseRunsOut(f)
  PROVE  TypeOK' /\ ExclusiveUnlessLate'
<1>1. CASE Schedule(f)
  <2>1. DeliveryInv'
    BY <1>1, InsertKeeps DEF Schedule, TypeOK, DeliveryInv
  <2> QED  BY <1>1, <2>1 DEF Schedule, Insert, TypeOK, DeliveryInv, handlerVars, bounds
<1>2. CASE LeaseRunsOut(f)
  <2>1. DeliveryInv'
    BY <1>2, OutliveKeeps DEF LeaseRunsOut, TypeOK, DeliveryInv
  <2> QED  BY <1>2, <2>1 DEF LeaseRunsOut, Outlive, TypeOK, DeliveryInv, handlerVars, effects, bounds
<1> QED  BY <1>1, <1>2

LEMMA HandlerType ==
  ASSUME TypeOK, ExclusiveUnlessLate, NEW w \in Workers, Handle(w)
  PROVE  TypeOK' /\ ExclusiveUnlessLate'
<1>1. UNCHANGED deliveryVars
  BY DEF Handle, ReadFollowUp, Send, SendRaises, Recheck, MarkSent, MarkRaises
<1>2. DeliveryTypeOK' /\ ExclusiveUnlessLate'
  BY <1>1, StutterKeepsDelivery DEF TypeOK, DeliveryInv
<1>3. handling' \in [Workers -> Jobs \cup {NoJob}] /\ phase' \in [Workers -> Phases]
  <2>1. CASE \E f \in Jobs : ReadFollowUp(w, f)
    BY <2>1 DEF TypeOK, ReadFollowUp, Enter, Phases
  <2>2. CASE \E here, next \in Phases : Goto(w, here, next)
    BY <2>2 DEF TypeOK, Goto
  <2>3. CASE Send(w) \/ SendRaises(w) \/ Recheck(w)
    BY <2>2, <2>3 DEF Send, SendRaises, Recheck, Phases
  <2>4. CASE MarkSent(w)
    BY <2>2, <2>4 DEF MarkSent, Phases
  <2>5. CASE MarkRaises(w)
    BY <2>5 DEF TypeOK, MarkRaises, Phases
  <2> QED  BY <2>1, <2>3, <2>4, <2>5 DEF Handle
<1>4. \A v \in Workers : phase'[v] # "idle" => <<v, handling'[v]>> \in takes'
  BY <1>1 DEF TypeOK, Handle, ReadFollowUp, Send, SendRaises, Recheck, MarkSent, MarkRaises, Unrecorded,
              Enter, Goto, Phases, deliveryVars
<1>5. followUp' \in [Jobs -> {"none", "pending", "sent"}] /\ reminders' \in [Jobs -> Nat]
  <2>1. CASE Send(w)
    <3>1. handling[w] \in Jobs
      BY <2>1, Handled DEF Send, Goto
    <3> QED  BY <2>1, <3>1 DEF Send, TypeOK
  <2>2. CASE MarkSent(w)
    BY <2>2 DEF MarkSent, TypeOK
  <2> QED  BY <2>1, <2>2 DEF Handle, ReadFollowUp, SendRaises, Recheck, MarkRaises, effects, TypeOK
<1>6. faults' \in 0 .. MaxFaults
  BY FaultType DEF Handle, ReadFollowUp, Send, SendRaises, Recheck, MarkSent, MarkRaises, bounds
<1>7. interrupted' \in [Jobs -> Nat]
  BY InterruptType DEF Handle, ReadFollowUp, Send, SendRaises, Recheck, MarkSent, MarkRaises, bounds, TypeOK
<1> QED  BY <1>2, <1>3, <1>4, <1>5, <1>6, <1>7 DEF TypeOK

LEMMA WorkerType ==
  ASSUME TypeOK, ExclusiveUnlessLate, NEW w \in Workers,
         PickJobs(w) \/ Finalize(w) \/ LoseWorker(w)
  PROVE  TypeOK' /\ ExclusiveUnlessLate'
<1>1. CASE PickJobs(w)
  <2>1. PICK picked \in SUBSET Jobs : Pick(w, picked)
    BY <1>1 DEF PickJobs
  <2>2. DeliveryInv'
    BY <2>1, PickKeeps DEF TypeOK, DeliveryInv
  <2> QED  BY <1>1, <2>1, <2>2 DEF PickJobs, Pick, TypeOK, DeliveryInv, handlerVars, effects, bounds
<1>2. CASE Finalize(w)
  <2>1. phase[w] # "idle" /\ handling[w] \in Jobs
    BY <1>2, Handled DEF Finalize
  <2>2. PICK result \in {"open", "done", "failed"} : Settle(w, handling[w], result)
    BY <1>2 DEF Finalize, Succeed, Retry, Fail
  <2>3. DeliveryInv'
    BY <2>1, <2>2, SettleKeeps DEF TypeOK, DeliveryInv
  <2>4. handling' \in [Workers -> Jobs \cup {NoJob}] /\ phase' \in [Workers -> Phases]
    BY <1>2 DEF Finalize, TypeOK, Enter, Phases
  <2>5. ASSUME NEW v \in Workers, phase'[v] # "idle"
        PROVE  <<v, handling'[v]>> \in takes'
    BY <1>2, <2>2, <2>5 DEF Finalize, Settle, TypeOK, Enter
  <2> QED  BY <1>2, <2>3, <2>4, <2>5 DEF Finalize, TypeOK, DeliveryInv, effects, bounds
<1>3. CASE LoseWorker(w)
  <2>1. DeliveryInv'
    BY <1>3, DropKeeps DEF LoseWorker, TypeOK, DeliveryInv
  <2>2. handling' \in [Workers -> Jobs \cup {NoJob}] /\ phase' \in [Workers -> Phases]
    BY <1>3 DEF LoseWorker, TypeOK, Enter, Phases
  <2>3. ASSUME NEW v \in Workers, phase'[v] # "idle"
        PROVE  <<v, handling'[v]>> \in takes'
    BY <1>3, <2>3 DEF LoseWorker, Drop, TypeOK, Enter
  <2>4. faults' \in 0 .. MaxFaults /\ interrupted' \in [Jobs -> Nat]
    BY <1>3, FaultType, InterruptType DEF LoseWorker
  <2> QED  BY <1>3, <2>1, <2>2, <2>3, <2>4 DEF LoseWorker, TypeOK, DeliveryInv, effects
<1> QED  BY <1>1, <1>2, <1>3

LEMMA TypeStep ==
  ASSUME TypeOK, ExclusiveUnlessLate, [Next]_vars
  PROVE  TypeOK' /\ ExclusiveUnlessLate'
<1>1. CASE UNCHANGED vars
  BY <1>1, StutterKeepsDelivery
  DEF vars, TypeOK, DeliveryInv, deliveryVars, handlerVars, effects, bounds
<1> QED  BY <1>1, ScheduleType, HandlerType, WorkerType DEF Next

-----------------------------------------------------------------------------
(***************************************************************************)
(* What a handler leaves behind.                                           *)
(***************************************************************************)

LEMMA InitInv == Init => EffectInv /\ CountInv
  BY DEF Init, DeliveryInit, Takers, Unrecorded, EffectInv, Scheduled, SentAfterward, RemindedAfterward,
         DoneMeansSent, SentMeansReminded, CountInv, PendingBefore, Accounted, ExtraReminderIsInterrupted

\* Every step but the insert of the follow-up keeps Scheduled.
LEMMA ScheduledStep ==
  ASSUME TypeOK, Scheduled, [Next]_vars
  PROVE  Scheduled'
<1>1. ASSUME NEW f \in Jobs, Schedule(f)
      PROVE  Scheduled'
  BY <1>1 DEF Schedule, Insert, Scheduled, Takers, TypeOK, DeliveryTypeOK
<1>2. ASSUME NEW f \in Jobs, LeaseRunsOut(f)
      PROVE  Scheduled'
  BY <1>2 DEF LeaseRunsOut, Outlive, Scheduled, Takers, effects
<1>3. ASSUME NEW w \in Workers, PickJobs(w)
      PROVE  Scheduled'
  BY <1>3 DEF PickJobs, Pick, Scheduled, Takers, effects
<1>4. ASSUME NEW w \in Workers, Handle(w)
      PROVE  Scheduled'
  <2>1. UNCHANGED <<state, takes>>
    BY <1>4 DEF Handle, ReadFollowUp, Send, SendRaises, Recheck, MarkSent, MarkRaises, deliveryVars
  <2>2. \A f \in Jobs : followUp'[f] = followUp[f] \/ (followUp'[f] = "sent" /\ w \in Takers(f))
    <3>1. CASE MarkSent(w)
      <4>1. handling[w] \in Jobs /\ w \in Takers(handling[w])
        BY <3>1, Handled DEF MarkSent, Goto
      <4> QED  BY <3>1, <4>1 DEF MarkSent, TypeOK
    <3>2. CASE followUp' = followUp
      BY <3>2
    <3> QED  BY <1>4, <3>1, <3>2 DEF Handle, ReadFollowUp, Send, SendRaises, Recheck, MarkRaises, effects
  <2> QED  BY <2>1, <2>2 DEF Scheduled, Takers
<1>5. ASSUME NEW w \in Workers, Finalize(w)
      PROVE  Scheduled'
  <2>1. followUp' = followUp /\ takes' \subseteq takes
    BY <1>5 DEF Finalize, Succeed, Retry, Fail, Settle, effects
  <2>2. PICK result \in {"open", "done", "failed"} : Settle(w, handling[w], result)
    BY <1>5 DEF Finalize, Succeed, Retry, Fail
  <2>3. \A f \in Jobs : state'[f] = state[f] \/ (state'[f] # "absent" /\ w \in Takers(f))
    BY <2>2 DEF Settle, Takers, TypeOK, DeliveryTypeOK
  <2> QED  BY <2>1, <2>3 DEF Scheduled, Takers
<1>6. ASSUME NEW w \in Workers, LoseWorker(w)
      PROVE  Scheduled'
  BY <1>6 DEF LoseWorker, Drop, Scheduled, Takers, effects
<1>7. ASSUME UNCHANGED vars
      PROVE  Scheduled'
  BY <1>7 DEF vars, deliveryVars, effects, Scheduled, Takers
<1> QED  BY <1>1, <1>2, <1>3, <1>4, <1>5, <1>6, <1>7 DEF Next

LEMMA EffectStep ==
  ASSUME TypeOK, TypeOK', EffectInv, [Next]_vars
  PROVE  EffectInv'
<1> DEFINE Rest == SentAfterward /\ RemindedAfterward /\ DoneMeansSent /\ SentMeansReminded
<1>1. Scheduled'
  BY ScheduledStep DEF EffectInv
<1>2. \A v \in Workers : phase[v] # "idle" => handling[v] \in Jobs /\ v \in Takers(handling[v])
  BY Handled
<1>3. ASSUME UNCHANGED <<handlerVars, effects>>, \A f \in Jobs : state'[f] = "done" => state[f] = "done"
      PROVE  Rest'
  BY <1>3 DEF EffectInv, SentAfterward, RemindedAfterward, DoneMeansSent, SentMeansReminded, Unrecorded,
              handlerVars, effects
<1>4. ASSUME NEW f \in Jobs, Schedule(f)
      PROVE  Rest'
  <2>1. state[f] = "absent" /\ followUp[f] # "sent"
    BY <1>4 DEF Schedule, Insert, EffectInv, Scheduled, DoneMeansSent, TypeOK
  <2> QED  BY <1>4, <2>1, <1>2
    DEF Schedule, Insert, EffectInv, Scheduled, SentAfterward, RemindedAfterward, DoneMeansSent,
        SentMeansReminded, Unrecorded, TypeOK, DeliveryTypeOK, handlerVars
<1>5. ASSUME NEW w \in Workers, NEW f \in Jobs, ReadFollowUp(w, f)
      PROVE  Rest'
  <2>1. followUp[f] # "none"
    BY <1>5 DEF ReadFollowUp, EffectInv, Scheduled, Takers
  <2> QED  BY <1>5, <2>1
    DEF ReadFollowUp, Enter, EffectInv, SentAfterward, RemindedAfterward, DoneMeansSent,
        SentMeansReminded, Unrecorded, TypeOK, deliveryVars, effects
<1>6. ASSUME NEW w \in Workers, Send(w)
      PROVE  Rest'
  <2>1. /\ UNCHANGED <<state, followUp, handling>>
        /\ phase'[w] = "recheck" /\ \A v \in Workers \ {w} : phase'[v] = phase[v]
    BY <1>6 DEF Send, Goto, TypeOK, deliveryVars
  <2>2. reminders'[handling[w]] > 0 /\ \A f \in Jobs : reminders[f] > 0 => reminders'[f] > 0
    BY <1>6, <1>2 DEF Send, Goto, TypeOK
  <2> QED  BY <2>1, <2>2, <1>2
    DEF EffectInv, SentAfterward, RemindedAfterward, DoneMeansSent, SentMeansReminded, Unrecorded
<1>7. ASSUME NEW w \in Workers, SendRaises(w) \/ MarkRaises(w) \/ Recheck(w)
      PROVE  Rest'
  <2>1. UNCHANGED <<state, followUp, reminders, handling>>
    BY <1>7 DEF SendRaises, MarkRaises, Recheck, Goto, deliveryVars, effects
  <2>2. \A v \in Workers \ {w} : phase'[v] = phase[v]
    BY <1>7 DEF SendRaises, MarkRaises, Recheck, Goto, TypeOK
  <2>3. \/ phase'[w] = "raised"
        \/ phase[w] = "recheck" /\ phase'[w] = "mark"
        \/ phase[w] = "recheck" /\ phase'[w] = "returned" /\ followUp[handling[w]] # "pending"
    BY <1>7 DEF SendRaises, MarkRaises, Recheck, Goto, TypeOK
  <2>4. phase[w] = "recheck" => followUp[handling[w]] # "none"
    BY <1>2 DEF EffectInv, Scheduled
  <2>5. phase[w] = "recheck" => followUp[handling[w]] \in {"pending", "sent"}
    BY <2>4, <1>2 DEF TypeOK
  <2> QED  BY <2>1, <2>2, <2>3, <2>5
    DEF EffectInv, SentAfterward, RemindedAfterward, DoneMeansSent, SentMeansReminded, Unrecorded
<1>8. ASSUME NEW w \in Workers, MarkSent(w)
      PROVE  Rest'
  <2>1. /\ UNCHANGED <<state, reminders, handling>>
        /\ phase[w] = "mark" /\ phase'[w] = "returned"
        /\ \A v \in Workers \ {w} : phase'[v] = phase[v]
    BY <1>8 DEF MarkSent, Goto, TypeOK, deliveryVars
  <2>2. /\ handling[w] \in Jobs /\ reminders[handling[w]] > 0
        /\ followUp' = [followUp EXCEPT ![handling[w]] = "sent"]
    BY <1>8, <2>1, <1>2 DEF MarkSent, EffectInv, RemindedAfterward, Unrecorded
  <2> QED  BY <2>1, <2>2, <1>2
    DEF EffectInv, SentAfterward, RemindedAfterward, DoneMeansSent, SentMeansReminded, Unrecorded, TypeOK
<1>9. ASSUME NEW w \in Workers, Finalize(w) \/ LoseWorker(w)
      PROVE  Rest'
  <2>1. Enter(w, NoJob, "idle") /\ UNCHANGED effects
    BY <1>9 DEF Finalize, LoseWorker
  <2>2. \A v \in Workers : phase'[v] # "idle" => phase'[v] = phase[v] /\ handling'[v] = handling[v]
    BY <2>1 DEF Enter, TypeOK
  <2>3. \A f \in Jobs : state'[f] = "done" =>
           state[f] = "done" \/ (f = handling[w] /\ phase[w] = "returned")
    BY <1>9 DEF Finalize, Succeed, Retry, Fail, Settle, LoseWorker, Drop, TypeOK, DeliveryTypeOK
  <2> QED  BY <2>1, <2>2, <2>3
    DEF EffectInv, SentAfterward, RemindedAfterward, DoneMeansSent, SentMeansReminded, Unrecorded, effects
<1>10. ASSUME (\E f \in Jobs : LeaseRunsOut(f)) \/ (\E w \in Workers : PickJobs(w)) \/ UNCHANGED vars
       PROVE  Rest'
  BY <1>10, <1>3 DEF LeaseRunsOut, Outlive, PickJobs, Pick, vars, deliveryVars
<1>11. Rest'
  BY <1>4, <1>5, <1>6, <1>7, <1>8, <1>9, <1>10 DEF Next, Handle
<1> QED  BY <1>1, <1>11 DEF EffectInv

-----------------------------------------------------------------------------
(***************************************************************************)
(* How often the operator is reminded.                                     *)
(***************************************************************************)

LEMMA CountStep ==
  ASSUME RemindersInv, TypeOK', [Next]_vars
  PROVE  CountInv'
<1> USE DEF RemindersInv
<1>1. \A v \in Workers : phase[v] # "idle" => handling[v] \in Jobs
  BY Handled
<1>2. \A u, v \in Workers : /\ phase[u] # "idle" /\ phase[v] # "idle"
                            /\ handling[u] = handling[v] /\ handling[v] \notin late
                            => u = v
  BY Alone
<1>3. \A f \in Jobs : reminders[f] \in Nat /\ interrupted[f] \in Nat
  BY DEF TypeOK
<1>4. ASSUME UNCHANGED <<handlerVars, effects, interrupted>>, late \subseteq late'
      PROVE  CountInv'
  BY <1>4 DEF CountInv, PendingBefore, Accounted, ExtraReminderIsInterrupted, Unrecorded,
              handlerVars, effects
<1>5. ASSUME NEW f \in Jobs, Schedule(f)
      PROVE  CountInv'
  <2>1. followUp[f] = "none"
    BY <1>5 DEF Schedule, Insert, EffectInv, Scheduled
  <2>2. \A v \in Workers : phase[v] # "idle" => handling[v] # f
    BY <1>5, Handled DEF Schedule, Insert, EffectInv, Scheduled
  <2> QED  BY <1>1, <1>5, <2>1, <2>2
    DEF Schedule, Insert, CountInv, PendingBefore, Accounted, ExtraReminderIsInterrupted, Unrecorded,
        TypeOK, handlerVars, bounds
<1>6. ASSUME NEW w \in Workers, NEW f \in Jobs, ReadFollowUp(w, f)
      PROVE  CountInv'
  <2>1. UNCHANGED <<late, followUp, reminders, interrupted>>
    BY <1>6 DEF ReadFollowUp, deliveryVars, effects, bounds
  <2>2. /\ phase[w] = "idle" /\ phase'[w] \in {"send", "returned"} /\ handling'[w] = f
        /\ phase'[w] = "send" => followUp[f] = "pending"
        /\ \A v \in Workers \ {w} : phase'[v] = phase[v] /\ handling'[v] = handling[v]
    BY <1>6 DEF ReadFollowUp, Enter, TypeOK
  <2> QED  BY <2>1, <2>2
    DEF CountInv, PendingBefore, Accounted, ExtraReminderIsInterrupted, Unrecorded
<1>7. ASSUME NEW w \in Workers, Send(w)
      PROVE  CountInv'
  <2>1. /\ UNCHANGED <<late, followUp, interrupted, handling>>
        /\ phase[w] = "send" /\ phase'[w] = "recheck"
        /\ \A v \in Workers \ {w} : phase'[v] = phase[v]
    BY <1>7 DEF Send, Goto, TypeOK, deliveryVars, bounds
  <2>2. /\ handling[w] \in Jobs
        /\ reminders'[handling[w]] = reminders[handling[w]] + 1
        /\ \A f \in Jobs \ {handling[w]} : reminders'[f] = reminders[f]
    BY <1>1, <1>7, <2>1 DEF Send, TypeOK
  <2>3. handling[w] \notin late => reminders[handling[w]] <= interrupted[handling[w]]
    BY <1>2, <2>1, <2>2 DEF CountInv, PendingBefore, Accounted, Unrecorded
  <2>4. PendingBefore'
    BY <2>1 DEF CountInv, PendingBefore
  <2>5. Accounted'
    BY <2>1, <2>2 DEF CountInv, Accounted, Unrecorded
  <2>6. ExtraReminderIsInterrupted'
    BY <1>3, <2>1, <2>2, <2>3 DEF CountInv, ExtraReminderIsInterrupted
  <2> QED  BY <2>4, <2>5, <2>6 DEF CountInv
<1>8. ASSUME NEW w \in Workers, SendRaises(w)
      PROVE  CountInv'
  <2>1. UNCHANGED <<late, followUp, reminders, interrupted, handling>>
    BY <1>8 DEF SendRaises, Goto, deliveryVars, effects
  <2>2. /\ phase[w] = "send" /\ phase'[w] = "raised"
        /\ \A v \in Workers \ {w} : phase'[v] = phase[v]
    BY <1>8 DEF SendRaises, Goto, TypeOK
  <2> QED  BY <2>1, <2>2
    DEF CountInv, PendingBefore, Accounted, ExtraReminderIsInterrupted, Unrecorded
<1>9. ASSUME NEW w \in Workers, Recheck(w)
      PROVE  CountInv'
  <2>1. UNCHANGED <<late, followUp, reminders, interrupted, handling>>
    BY <1>9 DEF Recheck, Goto, deliveryVars, effects, bounds
  <2>2. /\ phase[w] = "recheck"
        /\ phase'[w] = IF followUp[handling[w]] = "pending" THEN "mark" ELSE "returned"
        /\ \A v \in Workers \ {w} : phase'[v] = phase[v]
    BY <1>9 DEF Recheck, Goto, TypeOK
  <2> QED  BY <2>1, <2>2
    DEF CountInv, PendingBefore, Accounted, ExtraReminderIsInterrupted, Unrecorded
<1>10. ASSUME NEW w \in Workers, MarkSent(w)
       PROVE  CountInv'
  <2>1. /\ UNCHANGED <<late, reminders, interrupted, handling>>
        /\ phase[w] = "mark" /\ phase'[w] = "returned"
        /\ \A v \in Workers \ {w} : phase'[v] = phase[v]
    BY <1>10 DEF MarkSent, Goto, TypeOK, deliveryVars, bounds
  <2>2. /\ handling[w] \in Jobs
        /\ followUp' = [followUp EXCEPT ![handling[w]] = "sent"]
    BY <1>1, <1>10, <2>1 DEF MarkSent
  <2>3. PendingBefore'
    BY <1>1, <1>2, <2>1, <2>2 DEF CountInv, PendingBefore, TypeOK
  <2>4. Accounted'
    BY <2>1, <2>2 DEF CountInv, Accounted, Unrecorded, TypeOK
  <2>5. ExtraReminderIsInterrupted'
    BY <2>1 DEF CountInv, ExtraReminderIsInterrupted
  <2> QED  BY <2>3, <2>4, <2>5 DEF CountInv
<1>11. ASSUME NEW w \in Workers, MarkRaises(w) \/ LoseWorker(w)
       PROVE  CountInv'
  <2>1. /\ UNCHANGED <<late, followUp, reminders>> /\ Interrupt(w)
        /\ phase'[w] \in {"raised", "idle"}
        /\ \A v \in Workers \ {w} : phase'[v] = phase[v] /\ handling'[v] = handling[v]
    BY <1>11 DEF MarkRaises, LoseWorker, Drop, Enter, TypeOK, deliveryVars, effects
  <2>2. \A f \in Jobs : interrupted'[f] =
           IF Unrecorded(w) /\ handling[w] = f THEN interrupted[f] + 1 ELSE interrupted[f]
    BY <2>1 DEF Interrupt
  <2>3. PendingBefore'
    BY <2>1 DEF CountInv, PendingBefore
  <2>4. Accounted'
    <3>1. ASSUME NEW f \in Jobs \ late, followUp[f] # "sent",
                 \A v \in Workers : Unrecorded(v)' => handling'[v] # f
          PROVE  reminders[f] <= interrupted'[f]
      <4>1. CASE Unrecorded(w) /\ handling[w] = f
        BY <4>1, <1>3, <2>2, <3>1 DEF CountInv, ExtraReminderIsInterrupted
      <4>2. CASE ~(Unrecorded(w) /\ handling[w] = f)
        BY <4>2, <2>1, <2>2, <3>1 DEF CountInv, Accounted, Unrecorded
      <4> QED  BY <4>1, <4>2
    <3> QED  BY <2>1, <3>1 DEF Accounted
  <2>5. ExtraReminderIsInterrupted'
    BY <1>3, <2>1, <2>2 DEF CountInv, ExtraReminderIsInterrupted
  <2> QED  BY <2>3, <2>4, <2>5 DEF CountInv
<1>12. ASSUME NEW w \in Workers, Finalize(w)
       PROVE  CountInv'
  <2>1. UNCHANGED <<late, followUp, reminders, interrupted>> /\ phase[w] \in {"returned", "raised"}
    BY <1>12 DEF Finalize, Succeed, Retry, Fail, Settle, effects, bounds
  <2>2. phase'[w] = "idle" /\ \A v \in Workers \ {w} : phase'[v] = phase[v] /\ handling'[v] = handling[v]
    BY <1>12 DEF Finalize, Enter, TypeOK
  <2> QED  BY <2>1, <2>2
    DEF CountInv, PendingBefore, Accounted, ExtraReminderIsInterrupted, Unrecorded
<1>13. ASSUME (\E f \in Jobs : LeaseRunsOut(f)) \/ (\E w \in Workers : PickJobs(w)) \/ UNCHANGED vars
       PROVE  CountInv'
  BY <1>13, <1>4 DEF LeaseRunsOut, Outlive, PickJobs, Pick, vars, deliveryVars, bounds
<1> QED  BY <1>5, <1>6, <1>7, <1>8, <1>9, <1>10, <1>11, <1>12, <1>13 DEF Next, Handle

LEMMA Inductive == Spec => []RemindersInv
<1>1. Init => RemindersInv
  BY InitType, InitInv DEF RemindersInv
<1>2. RemindersInv /\ [Next]_vars => RemindersInv'
  BY TypeStep, EffectStep, CountStep DEF RemindersInv
<1> QED  BY <1>1, <1>2, PTL DEF Spec

-----------------------------------------------------------------------------
\* Every reachable state is well typed, and a worker in a handler has picked its
\* job.
THEOREM TypeCorrect == Spec => []TypeOK
<1>1. RemindersInv => TypeOK
  BY DEF RemindersInv
<1> QED  BY Inductive, <1>1, PTL

\* The job of a reminder is done only when its follow-up is marked as sent.
THEOREM DoneHasSent == Spec => []DoneMeansSent
<1>1. RemindersInv => DoneMeansSent
  BY DEF RemindersInv, EffectInv
<1> QED  BY Inductive, <1>1, PTL

\* A follow-up is marked as sent only after a message reached the operator.
THEOREM SentHasReminder == Spec => []SentMeansReminded
<1>1. RemindersInv => SentMeansReminded
  BY DEF RemindersInv, EffectInv
<1> QED  BY Inductive, <1>1, PTL

\* Unless the lease runs out under a live worker, the operator gets one message
\* and at most one more for each fault between a message and its commit.
THEOREM ExtraReminderHasFault == Spec => []ExtraReminderIsInterrupted
<1>1. RemindersInv => ExtraReminderIsInterrupted
  BY DEF RemindersInv, CountInv
<1> QED  BY Inductive, <1>1, PTL

-----------------------------------------------------------------------------
(***************************************************************************)
(* Without faults no reminder fails.                                       *)
(***************************************************************************)

NothingRaised == faults = 0 => \A w \in Workers : phase[w] # "raised"

LEMMA FailStep ==
  ASSUME SenderTakesButtons, TypeOK, NothingRaised, FailedOnlyByFault, [Next]_vars
  PROVE  NothingRaised' /\ FailedOnlyByFault'
<1> SUFFICES ASSUME faults' = 0
             PROVE  /\ \A w \in Workers : phase'[w] # "raised"
                    /\ \A f \in Jobs : state'[f] # "failed"
  BY DEF NothingRaised, FailedOnlyByFault
<1>1. ~Fault
  BY DEF Fault, TypeOK
<1>2. faults = 0
  BY <1>1 DEF Next, Schedule, LeaseRunsOut, PickJobs, Handle, ReadFollowUp, Send, SendRaises, Recheck,
              MarkSent, MarkRaises, Finalize, LoseWorker, bounds, vars
<1>3. (\A w \in Workers : phase[w] # "raised") /\ (\A f \in Jobs : state[f] # "failed")
  BY <1>2 DEF NothingRaised, FailedOnlyByFault
<1>4. ASSUME NEW w \in Workers, Handle(w)
      PROVE  state' = state /\ \A v \in Workers : phase'[v] # "raised"
  BY <1>1, <1>3, <1>4
  DEF Handle, ReadFollowUp, Send, SendRaises, Recheck, MarkSent, MarkRaises, Enter, Goto, TypeOK, deliveryVars
<1>5. ASSUME NEW w \in Workers, Finalize(w)
      PROVE  /\ \A v \in Workers : phase'[v] # "raised"
             /\ \A f \in Jobs : state'[f] # "failed"
  <2>1. Settle(w, handling[w], "done")
    BY <1>3, <1>5 DEF Finalize, Succeed
  <2> QED  BY <1>3, <1>5, <2>1 DEF Finalize, Enter, Settle, TypeOK, DeliveryTypeOK
<1>6. ASSUME NEW f \in Jobs, Schedule(f)
      PROVE  phase' = phase /\ \A g \in Jobs : state'[g] # "failed"
  BY <1>3, <1>6 DEF Schedule, Insert, TypeOK, DeliveryTypeOK, handlerVars
<1>7. ASSUME (\E f \in Jobs : LeaseRunsOut(f)) \/ (\E w \in Workers : PickJobs(w)) \/ UNCHANGED vars
      PROVE  UNCHANGED <<state, phase>>
  BY <1>7 DEF LeaseRunsOut, Outlive, PickJobs, Pick, vars, deliveryVars, handlerVars
<1>8. \A w \in Workers : ~LoseWorker(w)
  BY <1>1 DEF LoseWorker
<1> QED  BY <1>3, <1>4, <1>5, <1>6, <1>7, <1>8 DEF Next

\* With a sender that takes buttons, and no fault, no reminder's job fails: two
\* workers with one job, and the one that comes second, included.
THEOREM FailedHasFault ==
  ASSUME SenderTakesButtons
  PROVE  Spec => []FailedOnlyByFault
<1>1. Init => NothingRaised /\ FailedOnlyByFault
  BY DEF Init, DeliveryInit, NothingRaised, FailedOnlyByFault
<1>2. RemindersInv /\ NothingRaised /\ FailedOnlyByFault /\ [Next]_vars => NothingRaised' /\ FailedOnlyByFault'
  BY FailStep DEF RemindersInv
<1> QED  BY Inductive, <1>1, <1>2, PTL DEF Spec
=============================================================================
