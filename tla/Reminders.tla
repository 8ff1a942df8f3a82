----------------------------- MODULE Reminders ------------------------------
(***************************************************************************)
(* The reminder of a follow-up: marking a proposal as sent schedules it,   *)
(* and the handler of its job sends the operator a message with the        *)
(* outcome buttons and then marks the follow-up as sent.                   *)
(*                                                                         *)
(* A job of this type has the key send_follow_up:{id}, so a member of Jobs *)
(* stands for a follow-up and for its job.  Delivery says when a worker    *)
(* has it.  A step is one read, one commit or one external call.           *)
(***************************************************************************)
EXTENDS Integers, Delivery

CONSTANTS SenderTakesButtons,  \* telegram_sender.send_message has reply_markup
          NoJob,               \* a worker between two handlers
          MaxFaults            \* bound: workers lost, failed sends and commits

ASSUME RemindersAssumption ==
  /\ SenderTakesButtons \in BOOLEAN
  /\ NoJob \notin Jobs
  /\ MaxFaults \in Nat

VARIABLES
  followUp,     \* follow_ups.status, "none" before the insert
  handling,     \* the job whose handler each worker runs
  phase,        \* where it is in send_follow_up
  reminders,    \* messages that reached the operator, per follow-up
  interrupted,  \* history: faults between a message and the commit recording it
  faults        \* how much of MaxFaults is used

handlerVars == <<handling, phase>>
effects     == <<followUp, reminders>>
bounds      == <<interrupted, faults>>
vars        == <<deliveryVars, handlerVars, effects, bounds>>

Init ==
  /\ DeliveryInit
  /\ followUp = [f \in Jobs |-> "none"]
  /\ handling = [w \in Workers |-> NoJob]
  /\ phase = [w \in Workers |-> "idle"]
  /\ reminders = [f \in Jobs |-> 0]
  /\ interrupted = [f \in Jobs |-> 0]
  /\ faults = 0

Fault == faults < MaxFaults /\ faults' = faults + 1

\* The message of f is out and not recorded yet.
Unrecorded(w) == phase[w] \in {"recheck", "mark"}

Interrupt(w) ==
  interrupted' = [f \in Jobs |->
    IF Unrecorded(w) /\ handling[w] = f THEN interrupted[f] + 1 ELSE interrupted[f]]

Enter(w, f, next) ==
  /\ handling' = [handling EXCEPT ![w] = f]
  /\ phase' = [phase EXCEPT ![w] = next]

Goto(w, here, next) ==
  /\ phase[w] = here
  /\ phase' = [phase EXCEPT ![w] = next]
  /\ UNCHANGED handling

-----------------------------------------------------------------------------
\* mark_proposal_sent inserts the follow-up and its job in one transaction.
Schedule(f) ==
  /\ Insert(f)
  /\ followUp' = [followUp EXCEPT ![f] = "pending"]
  /\ UNCHANGED <<handlerVars, reminders, bounds>>

PickJobs(w) ==
  /\ phase[w] = "idle"
  /\ \E picked \in SUBSET Jobs : picked # {} /\ Pick(w, picked)
  /\ UNCHANGED <<handlerVars, effects, bounds>>

LeaseRunsOut(f) ==
  /\ f \notin late
  /\ Outlive(f)
  /\ UNCHANGED <<handlerVars, effects, bounds>>

\* Mutant: the first look at the status is dropped.
ReadFollowUpBlindly(w, f) ==
  /\ phase[w] = "idle"
  /\ <<w, f>> \in takes
  /\ Enter(w, f, "send")
  /\ UNCHANGED <<deliveryVars, effects, bounds>>

\* The first transaction: a follow-up that is not pending is left alone.
ReadFollowUp(w, f) ==
  /\ phase[w] = "idle"
  /\ <<w, f>> \in takes
  /\ Enter(w, f, IF followUp[f] = "pending" THEN "send" ELSE "returned")
  /\ UNCHANGED <<deliveryVars, effects, bounds>>

\* The message, outside any transaction, with the outcome buttons.
Send(w) ==
  /\ SenderTakesButtons
  /\ Goto(w, "send", "recheck")
  /\ reminders' = [reminders EXCEPT ![handling[w]] = @ + 1]
  /\ UNCHANGED <<deliveryVars, followUp, bounds>>

\* Mutant: the exception is not raised again.
SendSwallowed(w) ==
  /\ Fault
  /\ Goto(w, "send", "recheck")
  /\ UNCHANGED <<deliveryVars, effects, interrupted>>

\* Mutant: nor is the follow-up marked.
SendAbandoned(w) ==
  /\ Fault
  /\ Goto(w, "send", "returned")
  /\ UNCHANGED <<deliveryVars, effects, interrupted>>

\* A send that fails is raised again.  The sender the container builds refuses
\* every message with buttons: it has no parameter reply_markup.
SendRaises(w) ==
  /\ IF SenderTakesButtons THEN Fault ELSE UNCHANGED faults
  /\ Goto(w, "send", "raised")
  /\ UNCHANGED <<deliveryVars, effects, interrupted>>

\* The second transaction reads the status again.
Recheck(w) ==
  /\ Goto(w, "recheck", IF followUp[handling[w]] = "pending" THEN "mark" ELSE "returned")
  /\ UNCHANGED <<deliveryVars, effects, bounds>>

\* ... and commits, whatever another worker committed in between.
MarkSent(w) ==
  /\ Goto(w, "mark", "returned")
  /\ followUp' = [followUp EXCEPT ![handling[w]] = "sent"]
  /\ UNCHANGED <<deliveryVars, reminders, bounds>>

\* The second transaction fails and is rolled back.
MarkRaises(w) ==
  /\ Fault
  /\ Unrecorded(w)
  /\ phase' = [phase EXCEPT ![w] = "raised"]
  /\ Interrupt(w)
  /\ UNCHANGED <<deliveryVars, handling, effects>>

\* The worker finalizes the job: done, pending again, or failed.
Finalize(w) ==
  /\ \/ phase[w] = "returned" /\ Succeed(w, handling[w])
     \/ phase[w] = "raised" /\ Retry(w, handling[w])
     \/ phase[w] = "raised" /\ Fail(w, handling[w])
  /\ Enter(w, NoJob, "idle")
  /\ UNCHANGED <<effects, bounds>>

\* Mutant: the tick gives up its jobs and its handler goes on.
LoseJobsOnly(w) ==
  /\ Fault
  /\ \E f \in Jobs : <<w, f>> \in takes
  /\ Drop(w)
  /\ Interrupt(w)
  /\ UNCHANGED <<handlerVars, effects>>

\* The worker crashes, or a transaction of its tick fails.
LoseWorker(w) ==
  /\ Fault
  /\ \E f \in Jobs : <<w, f>> \in takes
  /\ Drop(w)
  /\ Enter(w, NoJob, "idle")
  /\ Interrupt(w)
  /\ UNCHANGED effects

-----------------------------------------------------------------------------
Handle(w) ==
  \/ \E f \in Jobs : ReadFollowUp(w, f)
  \/ Send(w) \/ SendRaises(w)
  \/ Recheck(w) \/ MarkSent(w) \/ MarkRaises(w)

Next ==
  \/ \E f \in Jobs : Schedule(f) \/ LeaseRunsOut(f)
  \/ \E w \in Workers : PickJobs(w) \/ Handle(w) \/ Finalize(w) \/ LoseWorker(w)

Spec == Init /\ [][Next]_vars

-----------------------------------------------------------------------------
(***************************************************************************)
(* Properties.                                                             *)
(***************************************************************************)

Phases == {"idle", "send", "recheck", "mark", "returned", "raised"}

\* The types of the variables; a worker in a handler has picked the job.
TypeOK ==
  /\ DeliveryTypeOK
  /\ followUp \in [Jobs -> {"none", "pending", "sent"}]
  /\ handling \in [Workers -> Jobs \cup {NoJob}]
  /\ phase \in [Workers -> Phases]
  /\ reminders \in [Jobs -> Nat]
  /\ interrupted \in [Jobs -> Nat]
  /\ faults \in 0 .. MaxFaults
  /\ \A w \in Workers : phase[w] # "idle" => <<w, handling[w]>> \in takes

\* A reminder's job is done only when the follow-up is marked as sent, so the
\* operator's answer will be taken: whichever take finalized the job.
DoneMeansSent ==
  \A f \in Jobs : state[f] = "done" => followUp[f] = "sent"

\* A follow-up is marked as sent only after a message reached the operator.
SentMeansReminded ==
  \A f \in Jobs : followUp[f] = "sent" => reminders[f] > 0

\* How often the promise NotifiedOnce, which does not hold, is broken: an extra
\* message takes a fault of its own between a message and the commit that records
\* it, or a lease that ran out under a live worker.
ExtraReminderIsInterrupted ==
  \A f \in Jobs \ late : reminders[f] <= 1 + interrupted[f]

\* Without a fault no reminder fails: two workers with one job, one of which
\* finds the follow-up sent by the other, included.
FailedOnlyByFault ==
  faults = 0 => \A f \in Jobs : state[f] # "failed"

-----------------------------------------------------------------------------
(***************************************************************************)
(* What the documents say, and the code does not do.                       *)
(***************************************************************************)

\* "3 days later get a reminder": when nothing goes wrong, the job of a reminder
\* does not end before a message reached the operator.
ReminderComes ==
  faults = 0 => \A f \in Jobs : state[f] \in {"done", "failed"} => reminders[f] > 0

\* "The underlying lease-reclaim retry path therefore can't double-notify": for
\* the status is checked before sending.  It is set in a commit after it.
NotifiedOnce ==
  \A f \in Jobs : reminders[f] <= 1
=============================================================================
