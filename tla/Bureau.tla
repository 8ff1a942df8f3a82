------------------------------- MODULE Bureau -------------------------------
(***************************************************************************)
(* The bot and the workers together, on the way of one lead: LeadWorkflow, *)
(* Publication and Reminders composed.  Each of the three leaves the       *)
(* others' part open (a link arrives at any time, a follow-up is scheduled *)
(* at any time, a proposal is asked for at any time); here the steps they  *)
(* share are one step:                                                     *)
(*                                                                         *)
(*   the commit of mark_proposal_sent inserts the follow-up's job;         *)
(*   the link a worker sends is the operator's mark_sent button;           *)
(*   the commit of send_follow_up is what makes an answer possible;        *)
(*   only a proposal with a text is published;                             *)
(*   a worker picks jobs of both types, and runs one handler at a time.    *)
(***************************************************************************)
EXTENDS Integers, FiniteSets

CONSTANTS Tasks, Proposals, FollowUps, HasName, None,
          Workers, Clicks, NoJob, SenderTakesButtons,
          MaxFaults  \* bound: the faults of either job type

VARIABLES
  \* the bot's use cases and the rows they write: see LeadWorkflow
  lead, clients, linked, proposal, written, about, buttons, task,
  raced, lastMoved, repeated,
  \* the publish jobs: see Publication
  pubState, pubTakes, pubLate, request, asked, pubHandling, pubPhase,
  created, documents, links, pubFaults,
  \* the reminder jobs: see Reminders
  remState, remTakes, remLate, followUp, remHandling, remPhase,
  reminders, interrupted, remFaults

L == INSTANCE LeadWorkflow WITH
  reminded <- {f \in FollowUps : followUp[f] = "sent"}

P == INSTANCE Publication WITH
  Jobs <- Proposals, state <- pubState, takes <- pubTakes, late <- pubLate,
  handling <- pubHandling, phase <- pubPhase, faults <- pubFaults

R == INSTANCE Reminders WITH
  Jobs <- FollowUps, state <- remState, takes <- remTakes, late <- remLate,
  handling <- remHandling, phase <- remPhase, faults <- remFaults

ASSUME BureauAssumption ==
  /\ HasName \in BOOLEAN
  /\ None \notin Proposals \cup FollowUps
  /\ {"confirm", "propose"} \cap Proposals = {}
  /\ NoJob \notin Proposals \cup FollowUps
  /\ SenderTakesButtons \in BOOLEAN
  /\ MaxFaults \in Nat

workflowVars == <<lead, clients, linked, proposal, written, about, buttons, task,
                  raced, lastMoved, repeated>>
publishVars  == <<pubState, pubTakes, pubLate, request, asked, pubHandling, pubPhase,
                  created, documents, links, pubFaults>>
reminderVars == <<remState, remTakes, remLate, followUp, remHandling, remPhase,
                  reminders, interrupted, remFaults>>
vars == <<workflowVars, publishVars, reminderVars>>

Init == P!Init /\ R!Init /\ L!Init

-----------------------------------------------------------------------------
(***************************************************************************)
(* The bot.                                                                *)
(***************************************************************************)

\* The steps of a use case that no job has a part in.
UseCase(t) ==
  /\ UNCHANGED <<publishVars, reminderVars>>
  /\ \/ L!Intake(t) \/ L!Qualify(t) \/ L!Generate(t) \/ L!Answer(t) \/ L!LoseTask(t)
     \/ \E p \in Proposals : L!ClickSent(t, p)
     \/ L!ReadLead(t, "send", "send commit")

\* Mutant: the follow-up is committed, its job is not.
CommitUnscheduled(t) ==
  /\ UNCHANGED <<publishVars, reminderVars>>
  /\ L!CommitSent(t)

\* mark_proposal_sent: the follow-up and its job are inserted in the same
\* transaction as the two statuses.
CommitSent(t) ==
  /\ UNCHANGED publishVars
  /\ \E f \in FollowUps :
       /\ R!Schedule(f)
       /\ L!CommitSent(t)
       /\ about'[f] = task[t].p

\* The publish button, which comes with the text.
PublishClick(c) ==
  /\ \/ \E p \in written : P!LookUp(c, p)
     \/ P!RequestFound(c) \/ P!RequestInserts(c) \/ P!RequestCollides(c)
  /\ UNCHANGED <<workflowVars, reminderVars>>

-----------------------------------------------------------------------------
(***************************************************************************)
(* The workers.                                                            *)
(***************************************************************************)

\* One batch, of both types.
PickJobs(w) ==
  /\ pubPhase[w] = "idle" /\ remPhase[w] = "idle"
  /\ \E ps \in SUBSET Proposals, fs \in SUBSET FollowUps :
       /\ ps # {} \/ fs # {}
       /\ P!Pick(w, ps)
       /\ R!Pick(w, fs)
  /\ UNCHANGED <<workflowVars, request, asked, pubHandling, pubPhase,
                 created, documents, links, pubFaults,
                 followUp, remHandling, remPhase, reminders, interrupted, remFaults>>

\* handle_publish_proposal_to_gdoc up to the message, and what follows it.
Publish(w) ==
  /\ remPhase[w] = "idle"
  /\ \/ \E p \in Proposals : P!ReadProposal(w, p)
     \/ P!CreateDoc(w) \/ P!CreateRaises(w) \/ P!CreateAnswerLost(w)
     \/ P!StoreDocument(w) \/ P!StoreRaises(w)
     \/ P!SendLinkFails(w) \/ P!Finalize(w)
  /\ UNCHANGED <<workflowVars, reminderVars>>

\* The message with the mark_sent button; a second one shows the same button.
SendLink(w) ==
  /\ P!SendLink(w)
  /\ UNCHANGED reminderVars
  /\ L!LinkArrives(pubHandling[w]) \/ (pubHandling[w] \in buttons /\ UNCHANGED workflowVars)

\* Mutant: a worker starts its jobs all at once.
RemindStepBeside(w) ==
  /\ \/ \E f \in FollowUps : R!ReadFollowUp(w, f)
     \/ R!Send(w) \/ R!SendRaises(w)
     \/ R!Recheck(w) \/ R!MarkRaises(w) \/ R!Finalize(w)
  /\ UNCHANGED <<workflowVars, publishVars>>

\* handle_send_follow_up, to the message and from the commit on.
RemindStep(w) ==
  /\ pubPhase[w] = "idle"
  /\ \/ \E f \in FollowUps : R!ReadFollowUp(w, f)
     \/ R!Send(w) \/ R!SendRaises(w)
     \/ R!Recheck(w) \/ R!MarkRaises(w) \/ R!Finalize(w)
  /\ UNCHANGED <<workflowVars, publishVars>>

\* The commit, which takes effect on the bot's side the first time.
MarkReminded(w) ==
  /\ R!MarkSent(w)
  /\ UNCHANGED <<workflowVars, publishVars>>

\* A crash or a failed tick takes the whole batch away.
LoseWorker(w) ==
  /\ P!LoseWorker(w) \/ (UNCHANGED publishVars /\ \A p \in Proposals : <<w, p>> \notin pubTakes)
  /\ R!LoseWorker(w) \/ (UNCHANGED reminderVars /\ \A f \in FollowUps : <<w, f>> \notin remTakes)
  /\ UNCHANGED workflowVars

LeaseRunsOut ==
  \/ /\ \E p \in Proposals : P!LeaseRunsOut(p)
     /\ UNCHANGED <<workflowVars, reminderVars>>
  \/ /\ \E f \in FollowUps : R!LeaseRunsOut(f)
     /\ UNCHANGED <<workflowVars, publishVars>>

-----------------------------------------------------------------------------
Work(w) == Publish(w) \/ SendLink(w) \/ RemindStep(w) \/ MarkReminded(w)

Next ==
  \/ \E t \in Tasks : UseCase(t) \/ CommitSent(t)
  \/ \E c \in Clicks : PublishClick(c)
  \/ \E w \in Workers : PickJobs(w) \/ Work(w) \/ LoseWorker(w)
  \/ LeaseRunsOut

Spec == Init /\ [][Next]_vars

\* A worker goes on with what it has, and a due job does not stay behind others
\* for ever: the due rows are picked in the order of run_at.
PickReminder(w, f) == PickJobs(w) /\ <<w, f>> \in remTakes'

FairSpec ==
  /\ Spec
  /\ \A w \in Workers : WF_vars(Work(w))
  /\ \A f \in FollowUps : SF_vars(\E w \in Workers : PickReminder(w, f))

-----------------------------------------------------------------------------
(***************************************************************************)
(* Properties.                                                             *)
(***************************************************************************)

\* The parts are well typed and agree on what they share: the button and the
\* link, the follow-up and its job; a worker runs one handler.
TypeOK ==
  /\ L!TypeOK /\ P!TypeOK /\ R!TypeOK
  /\ \A p \in Proposals : p \in buttons <=> links[p] > 0
  /\ \A f \in FollowUps : about[f] # None <=> remState[f] # "absent"
  /\ \A w \in Workers : pubPhase[w] = "idle" \/ remPhase[w] = "idle"

\* The operator marks as sent only what can have been sent: a proposal with a
\* text, whose Document is in the table and whose link came.
SentOnlyWithDocument ==
  \A p \in Proposals : proposal[p] \in L!Moved =>
    p \in written /\ documents[p] > 0 /\ links[p] > 0

\* Accepted and declined are answers to a message that reached the operator.
AnsweredOnlyIfReminderCame ==
  \A p \in Proposals : proposal[p] \in L!Outcomes =>
    \E f \in FollowUps : about[f] = p /\ reminders[f] > 0

\* The lead cannot be ahead of its paper: once it says that a proposal went out,
\* one did, with a Document and a follow-up that has a job.
LeadHasPaper ==
  lead \in {"proposal_sent"} \cup L!Outcomes =>
    \E f \in FollowUps : /\ about[f] # None
                         /\ remState[f] # "absent"
                         /\ documents[about[f]] > 0

\* Every follow-up of a proposal that was sent can be answered in the end, or its
\* job has failed: with crashes, leases that run out, failed sends, and publish
\* jobs that are tried for ever.
SentIsReminded ==
  \A f \in FollowUps :
    about[f] # None ~> followUp[f] = "sent" \/ remState[f] = "failed"
=============================================================================
