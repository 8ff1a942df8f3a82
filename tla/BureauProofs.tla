---------------------------- MODULE BureauProofs ----------------------------
(***************************************************************************)
(* The composition, for any number of tasks, workers, proposals,           *)
(* follow-ups, clicks and faults.                                          *)
(*                                                                         *)
(* The argument is compositional.  Every step of Bureau is a step or a     *)
(* stutter of each of the three parts (Reminders first, as it needs no     *)
(* other; LeadWorkflow with what Reminders guarantees; Publication with    *)
(* what LeadWorkflow guarantees), so Bureau inherits the invariants proved *)
(* of the parts.  What is left to prove here is that the parts agree on    *)
(* what they share (Agree).                                                *)
(*                                                                         *)
(* LP, PP and RP are the proof modules of the parts; Same... says that     *)
(* they speak of the same specifications.                                  *)
(***************************************************************************)
EXTENDS Bureau, TLAPS

LP == INSTANCE LeadWorkflowProofs WITH
  reminded <- {f \in FollowUps : followUp[f] = "sent"}

PP == INSTANCE PublicationProofs WITH
  Jobs <- Proposals, state <- pubState, takes <- pubTakes, late <- pubLate,
  handling <- pubHandling, phase <- pubPhase, faults <- pubFaults

RP == INSTANCE RemindersProofs WITH
  Jobs <- FollowUps, state <- remState, takes <- remTakes, late <- remLate,
  handling <- remHandling, phase <- remPhase, faults <- remFaults

LEMMA SameWorkflowInit == L!Init => LP!Init
  BY DEF L!Init, L!Resting, LP!Init, LP!Resting

LEMMA SameWorkflowStep == [L!Next]_L!vars => [LP!Next]_LP!vars
  BY DEF L!Next, L!vars, L!Intake, L!Qualify, L!Generate, L!Send, L!Answer, L!LoseTask,
         L!LinkArrives, L!Remind, L!rows, L!history, L!CreateLead, L!ExtractLead, L!Reply,
         L!Confirm, L!CommitQualify, L!Propose, L!CommitDraft, L!WriteText, L!ClickSent,
         L!ReadLead, L!CommitSent, L!Outcomes, L!ClickOutcome, L!CommitOutcome, L!CommitNotes,
         L!At, L!Rest, L!Qualifiable, L!AddClient, L!NeedsClient, L!WriteLead, L!CommitHistory,
         L!Resting, L!Sendable, L!WriteProposal, L!Answerable, L!AlreadyFinal, L!Stale,
         LP!Next, LP!vars, LP!Intake, LP!Qualify, LP!Generate, LP!Send, LP!Answer, LP!LoseTask,
         LP!LinkArrives, LP!Remind, LP!rows, LP!history, LP!CreateLead, LP!ExtractLead,
         LP!Reply, LP!Confirm, LP!CommitQualify, LP!Propose, LP!CommitDraft, LP!WriteText,
         LP!ClickSent, LP!ReadLead, LP!CommitSent, LP!Outcomes, LP!ClickOutcome,
         LP!CommitOutcome, LP!CommitNotes, LP!At, LP!Rest, LP!Qualifiable, LP!AddClient,
         LP!NeedsClient, LP!WriteLead, LP!CommitHistory, LP!Resting, LP!Sendable,
         LP!WriteProposal, LP!Answerable, LP!AlreadyFinal, LP!Stale

LEMMA SameWorkflow == L!Spec => LP!Spec
  BY SameWorkflowInit, SameWorkflowStep, PTL DEF L!Spec, LP!Spec

LEMMA SamePublicationInit == P!Init => PP!Init
  BY DEF P!Init, P!DeliveryInit, PP!Init, PP!DeliveryInit

LEMMA SamePublicationStep == [P!Next]_P!vars => [PP!Next]_PP!vars
  BY DEF P!Next, P!vars, P!LookUp, P!RequestFound, P!RequestInserts, P!RequestCollides,
         P!LeaseRunsOut, P!PickJobs, P!Handle, P!Finalize, P!LoseWorker, P!deliveryVars,
         P!clickVars, P!handlerVars, P!effects, P!Insert, P!Outlive, P!Pick, P!ReadProposal,
         P!CreateDoc, P!CreateRaises, P!CreateAnswerLost, P!StoreDocument, P!StoreRaises,
         P!SendLink, P!SendLinkFails, P!Succeed, P!Retry, P!Fail, P!Enter, P!Fault, P!Drop,
         P!Takers, P!Goto, P!Settle, PP!Next, PP!vars, PP!LookUp, PP!RequestFound,
         PP!RequestInserts, PP!RequestCollides, PP!LeaseRunsOut, PP!PickJobs, PP!Handle,
         PP!Finalize, PP!LoseWorker, PP!deliveryVars, PP!clickVars, PP!handlerVars, PP!effects,
         PP!Insert, PP!Outlive, PP!Pick, PP!ReadProposal, PP!CreateDoc, PP!CreateRaises,
         PP!CreateAnswerLost, PP!StoreDocument, PP!StoreRaises, PP!SendLink, PP!SendLinkFails,
         PP!Succeed, PP!Retry, PP!Fail, PP!Enter, PP!Fault, PP!Drop, PP!Takers, PP!Goto,
         PP!Settle

LEMMA SamePublication == P!Spec => PP!Spec
  BY SamePublicationInit, SamePublicationStep, PTL DEF P!Spec, PP!Spec

LEMMA SameRemindersInit == R!Init => RP!Init
  BY DEF R!Init, R!DeliveryInit, RP!Init, RP!DeliveryInit

LEMMA SameRemindersStep == [R!Next]_R!vars => [RP!Next]_RP!vars
  BY DEF R!Next, R!vars, R!Schedule, R!LeaseRunsOut, R!PickJobs, R!Handle, R!Finalize,
         R!LoseWorker, R!deliveryVars, R!handlerVars, R!effects, R!bounds, R!Insert, R!Outlive,
         R!Pick, R!ReadFollowUp, R!Send, R!SendRaises, R!Recheck, R!MarkSent, R!MarkRaises,
         R!Succeed, R!Retry, R!Fail, R!Enter, R!Fault, R!Drop, R!Interrupt, R!Takers, R!Goto,
         R!Unrecorded, R!Settle, RP!Next, RP!vars, RP!Schedule, RP!LeaseRunsOut, RP!PickJobs,
         RP!Handle, RP!Finalize, RP!LoseWorker, RP!deliveryVars, RP!handlerVars, RP!effects,
         RP!bounds, RP!Insert, RP!Outlive, RP!Pick, RP!ReadFollowUp, RP!Send, RP!SendRaises,
         RP!Recheck, RP!MarkSent, RP!MarkRaises, RP!Succeed, RP!Retry, RP!Fail, RP!Enter,
         RP!Fault, RP!Drop, RP!Interrupt, RP!Takers, RP!Goto, RP!Unrecorded, RP!Settle

LEMMA SameReminders == R!Spec => RP!Spec
  BY SameRemindersInit, SameRemindersStep, PTL DEF R!Spec, RP!Spec

-----------------------------------------------------------------------------
(***************************************************************************)
(* Reminders.                                                              *)
(***************************************************************************)

LEMMA ReminderStep == [Next]_vars => [R!Next]_R!vars
<1> SUFFICES ASSUME [Next]_vars PROVE [R!Next]_R!vars
  OBVIOUS
<1>1. CASE UNCHANGED reminderVars
  BY <1>1 DEF reminderVars, R!vars, R!deliveryVars, R!handlerVars, R!effects, R!bounds
<1>2. ASSUME NEW t \in Tasks, CommitSent(t) PROVE R!Next
  BY <1>2 DEF CommitSent, R!Next
<1>3. ASSUME NEW w \in Workers, PickJobs(w) PROVE [R!Next]_R!vars
  <2>1. PICK fs \in SUBSET FollowUps : R!Pick(w, fs)
    BY <1>3 DEF PickJobs
  <2>2. UNCHANGED <<R!handlerVars, R!effects, R!bounds>> /\ remPhase[w] = "idle"
    BY <1>3 DEF PickJobs, R!handlerVars, R!effects, R!bounds
  <2>3. CASE fs = {}
    <3>1. remTakes' = remTakes
      BY <2>1, <2>3 DEF R!Pick
    <3> QED
      BY <2>1, <2>2, <3>1 DEF R!Pick, R!vars, R!deliveryVars
  <2>4. CASE fs # {}
    <3>1. R!PickJobs(w)
      BY <2>1, <2>2, <2>4 DEF R!PickJobs
    <3> QED
      BY <3>1 DEF R!Next
  <2> QED
    BY <2>3, <2>4
<1>4. ASSUME NEW w \in Workers, RemindStep(w) PROVE R!Next
  BY <1>4 DEF RemindStep, R!Next, R!Handle
<1>5. ASSUME NEW w \in Workers, MarkReminded(w) PROVE R!Next
  BY <1>5 DEF MarkReminded, R!Next, R!Handle
<1>6. ASSUME NEW w \in Workers, LoseWorker(w) PROVE R!Next \/ UNCHANGED reminderVars
  BY <1>6 DEF LoseWorker, R!Next
<1>7. ASSUME LeaseRunsOut PROVE R!Next \/ UNCHANGED reminderVars
  BY <1>7 DEF LeaseRunsOut, R!Next
<1> QED
  BY <1>1, <1>2, <1>3, <1>4, <1>5, <1>6, <1>7
  DEF Next, Work, UseCase, PublishClick, Publish, SendLink, vars

LEMMA RemindersHold == Spec => R!Spec /\ []RP!RemindersInv
<1>1. Init => R!Init
  BY DEF Init
<1>2. Spec => R!Spec
  BY <1>1, ReminderStep, PTL DEF Spec, R!Spec
<1>3. SenderTakesButtons \in BOOLEAN /\ NoJob \notin FollowUps /\ MaxFaults \in Nat
  BY BureauAssumption
<1>4. RP!Spec => []RP!RemindersInv
  BY <1>3, RP!Inductive
<1> QED
  BY <1>2, <1>4, SameReminders, PTL

-----------------------------------------------------------------------------
(***************************************************************************)
(* LeadWorkflow and Publication, and what the parts share.                 *)
(***************************************************************************)

\* A link that came and a button are the same message.
ButtonIsLink == \A p \in Proposals : p \in buttons <=> links[p] > 0

\* A follow-up and its job are committed together.
FollowUpHasJob == \A f \in FollowUps : about[f] # None <=> remState[f] # "absent"

\* The assumptions of the parts.
LEMMA Assumptions ==
  /\ HasName \in BOOLEAN /\ SenderTakesButtons \in BOOLEAN /\ MaxFaults \in Nat
  /\ None \notin Proposals \cup FollowUps /\ NoJob \notin Proposals
  /\ {"confirm", "propose"} \cap Proposals = {}
  BY BureauAssumption

\* The job that a worker marks belongs to a follow-up of this lead.
LEMMA MarkedFollowUp ==
  ASSUME RP!RemindersInv, FollowUpHasJob, NEW w \in Workers, MarkReminded(w)
  PROVE  /\ remHandling[w] \in FollowUps
         /\ about[remHandling[w]] # None
         /\ followUp' = [followUp EXCEPT ![remHandling[w]] = "sent"]
         /\ followUp \in [FollowUps -> {"none", "pending", "sent"}]
<1>1. remPhase[w] = "mark" /\ followUp' = [followUp EXCEPT ![remHandling[w]] = "sent"]
  BY DEF MarkReminded, R!MarkSent, R!Goto
<1>2. <<w, remHandling[w]>> \in remTakes /\ remTakes \subseteq Workers \X FollowUps
  BY <1>1 DEF RP!RemindersInv, RP!TypeOK, RP!DeliveryTypeOK
<1>3. remState[remHandling[w]] # "absent"
  BY <1>2 DEF RP!RemindersInv, RP!EffectInv, RP!Scheduled, RP!Takers
<1> QED
  BY <1>1, <1>2, <1>3 DEF FollowUpHasJob, RP!RemindersInv, RP!TypeOK

\* Reminder steps but the insert and the commit leave the follow-ups alone.
LEMMA OtherReminderSteps ==
  ASSUME [Next]_vars,
         \A t \in Tasks : ~CommitSent(t),
         \A w \in Workers : ~MarkReminded(w)
  PROVE  followUp' = followUp
<1>1. ASSUME NEW w \in Workers, RemindStep(w) PROVE followUp' = followUp
  BY <1>1 DEF RemindStep, R!ReadFollowUp, R!Send, R!SendRaises, R!Recheck, R!MarkRaises,
              R!Finalize, R!effects
<1>2. ASSUME NEW w \in Workers, LoseWorker(w) PROVE followUp' = followUp
  BY <1>2 DEF LoseWorker, R!LoseWorker, R!effects, reminderVars
<1>3. ASSUME LeaseRunsOut PROVE followUp' = followUp
  BY <1>3 DEF LeaseRunsOut, R!LeaseRunsOut, R!effects, reminderVars
<1> QED
  BY <1>1, <1>2, <1>3
  DEF Next, Work, UseCase, PublishClick, PickJobs, Publish, SendLink, vars, reminderVars

LEMMA WorkflowStep ==
  ASSUME RP!RemindersInv, PP!PublicationInv, FollowUpHasJob, [Next]_vars
  PROVE  [L!Next]_L!vars
<1>1. ASSUME UNCHANGED workflowVars, followUp' = followUp PROVE UNCHANGED L!vars
  BY <1>1 DEF workflowVars, L!vars, L!rows, L!history
<1>2. ASSUME NEW t \in Tasks, UseCase(t) PROVE L!Next
  BY <1>2 DEF UseCase, L!Next, L!Send
<1>3. ASSUME NEW t \in Tasks, CommitSent(t) PROVE L!Next
  BY <1>3 DEF CommitSent, L!Next, L!Send
<1>4. ASSUME NEW w \in Workers, SendLink(w) PROVE [L!Next]_L!vars
  <2>1. pubPhase[w] = "notify"
    BY <1>4 DEF SendLink, P!SendLink, P!Goto
  <2>2. pubHandling[w] \in Proposals
    BY <2>1 DEF PP!PublicationInv, PP!TypeOK, PP!DeliveryTypeOK
  <2>3. CASE L!LinkArrives(pubHandling[w])
    BY <2>2, <2>3 DEF L!Next
  <2>4. CASE UNCHANGED workflowVars
    BY <1>1, <1>4, <2>4 DEF SendLink, reminderVars
  <2> QED
    BY <1>4, <2>3, <2>4 DEF SendLink
<1>5. ASSUME NEW w \in Workers, MarkReminded(w) PROVE [L!Next]_L!vars
  <2>0. PICK f \in FollowUps : f = remHandling[w]
    BY <1>5, MarkedFollowUp
  <2>1. /\ f \in FollowUps /\ about[f] # None
        /\ followUp \in [FollowUps -> {"none", "pending", "sent"}]
        /\ followUp' = [followUp EXCEPT ![f] = "sent"]
    BY <1>5, <2>0, MarkedFollowUp
  <2>2. UNCHANGED workflowVars
    BY <1>5 DEF MarkReminded
  <2>3. CASE followUp[f] = "sent"
    <3>1. followUp' = followUp
      BY <2>1, <2>3
    <3> QED
      BY <1>1, <2>2, <3>1
  <2>4. CASE followUp[f] # "sent"
    <3>1. {g \in FollowUps : followUp'[g] = "sent"} = {g \in FollowUps : followUp[g] = "sent"} \cup {f}
      BY <2>1
    <3>2. L!Remind(f)
      BY <2>1, <2>2, <2>4, <3>1 DEF L!Remind, L!history, workflowVars
    <3> QED
      BY <2>1, <3>2 DEF L!Next
  <2> QED
    BY <2>3, <2>4
<1>6. CASE /\ \A t \in Tasks : ~UseCase(t) /\ ~CommitSent(t)
           /\ \A w \in Workers : ~SendLink(w) /\ ~MarkReminded(w)
  <2>1. UNCHANGED workflowVars
    BY <1>6 DEF Next, Work, PublishClick, PickJobs, Publish, RemindStep, LoseWorker,
                LeaseRunsOut, vars
  <2> QED
    BY <1>1, <1>6, <2>1, OtherReminderSteps
<1> QED
  BY <1>2, <1>3, <1>4, <1>5, <1>6

LEMMA PublicationStep ==
  ASSUME LP!TypeOK, [Next]_vars
  PROVE  [P!Next]_P!vars
<1>1. CASE UNCHANGED publishVars
  BY <1>1 DEF publishVars, P!vars, P!deliveryVars, P!clickVars, P!handlerVars, P!effects
<1>2. ASSUME NEW c \in Clicks, PublishClick(c) PROVE P!Next
  <2>1. written \subseteq Proposals
    BY DEF LP!TypeOK
  <2> QED
    BY <1>2, <2>1 DEF PublishClick, P!Next
<1>3. ASSUME NEW w \in Workers, PickJobs(w) PROVE [P!Next]_P!vars
  <2>1. PICK ps \in SUBSET Proposals : P!Pick(w, ps)
    BY <1>3 DEF PickJobs
  <2>2. UNCHANGED <<P!clickVars, P!handlerVars, P!effects, pubFaults>> /\ pubPhase[w] = "idle"
    BY <1>3 DEF PickJobs, P!clickVars, P!handlerVars, P!effects
  <2>3. CASE ps = {}
    <3>1. pubTakes' = pubTakes
      BY <2>1, <2>3 DEF P!Pick
    <3> QED
      BY <2>1, <2>2, <3>1 DEF P!Pick, P!vars, P!deliveryVars
  <2>4. CASE ps # {}
    <3>1. P!PickJobs(w)
      BY <2>1, <2>2, <2>4 DEF P!PickJobs
    <3> QED
      BY <3>1 DEF P!Next
  <2> QED
    BY <2>3, <2>4
<1>4. ASSUME NEW w \in Workers, Publish(w) \/ SendLink(w) PROVE P!Next
  BY <1>4 DEF Publish, SendLink, P!Next, P!Handle
<1>5. ASSUME NEW w \in Workers, LoseWorker(w) PROVE P!Next \/ UNCHANGED publishVars
  BY <1>5 DEF LoseWorker, P!Next
<1>6. ASSUME LeaseRunsOut PROVE P!Next \/ UNCHANGED publishVars
  BY <1>6 DEF LeaseRunsOut, P!Next
<1> QED
  BY <1>1, <1>2, <1>3, <1>4, <1>5, <1>6
  DEF Next, Work, UseCase, CommitSent, RemindStep, MarkReminded, vars

LEMMA ButtonStep ==
  ASSUME LP!TypeOK, PP!PublicationInv, ButtonIsLink, [Next]_vars
  PROVE  ButtonIsLink'
<1> SUFFICES ASSUME NEW p \in Proposals PROVE p \in buttons' <=> links'[p] > 0
  BY DEF ButtonIsLink
<1>1. (p \in buttons <=> links[p] > 0) /\ links \in [Proposals -> Nat]
  BY DEF ButtonIsLink, PP!PublicationInv, PP!TypeOK
<1>2. p # "confirm" /\ p # "propose"
  BY Assumptions
<1>3. ASSUME NEW t \in Tasks, UseCase(t) PROVE p \in buttons' <=> p \in buttons
  <2>1. CASE L!Intake(t) \/ L!Qualify(t) \/ L!Generate(t)
    BY <1>2, <2>1 DEF L!Intake, L!Qualify, L!Generate, L!CreateLead, L!ExtractLead, L!Reply,
       L!Confirm, L!CommitQualify, L!Propose, L!CommitDraft, L!WriteText
  <2>2. CASE ~(L!Intake(t) \/ L!Qualify(t) \/ L!Generate(t))
    BY <1>3, <2>2 DEF UseCase, L!Answer, L!ClickOutcome, L!ReadLead, L!CommitOutcome,
       L!CommitNotes, L!LoseTask, L!ClickSent
  <2> QED
    BY <2>1, <2>2
<1>4. ASSUME NEW t \in Tasks, UseCase(t) \/ CommitSent(t) PROVE links' = links
  BY <1>4 DEF UseCase, CommitSent, publishVars
<1>5. ASSUME NEW t \in Tasks, CommitSent(t) PROVE buttons' = buttons
  BY <1>5 DEF CommitSent, L!CommitSent
<1>6. ASSUME NEW w \in Workers, SendLink(w) PROVE p \in buttons' <=> links'[p] > 0
  <2>1. /\ links' = [links EXCEPT ![pubHandling[w]] = @ + 1]
        /\ pubPhase[w] = "notify"
    BY <1>6 DEF SendLink, P!SendLink, P!Goto
  <2>2. pubHandling[w] \in Proposals
    BY <2>1 DEF PP!PublicationInv, PP!TypeOK, PP!DeliveryTypeOK
  <2>3. buttons' = buttons \cup {pubHandling[w]}
    BY <1>6 DEF SendLink, L!LinkArrives, workflowVars
  <2> QED
    BY <1>1, <2>1, <2>2, <2>3
<1>7. CASE /\ \A t \in Tasks : ~UseCase(t) /\ ~CommitSent(t)
           /\ \A w \in Workers : ~SendLink(w)
  <2>1. buttons' = buttons
    BY <1>7 DEF Next, Work, PublishClick, PickJobs, Publish, RemindStep, MarkReminded,
                LoseWorker, LeaseRunsOut, vars, workflowVars
  <2>2. ASSUME NEW c \in Clicks, PublishClick(c) PROVE links' = links
    BY <2>2 DEF PublishClick, P!LookUp, P!RequestFound, P!RequestInserts, P!RequestCollides,
                P!effects
  <2>3. ASSUME NEW w \in Workers, Publish(w) PROVE links' = links
    BY <2>3 DEF Publish, P!ReadProposal, P!CreateDoc, P!CreateRaises, P!CreateAnswerLost,
                P!StoreDocument, P!StoreRaises, P!SendLinkFails, P!Finalize, P!effects
  <2>4. ASSUME (\E w \in Workers : LoseWorker(w)) \/ LeaseRunsOut PROVE links' = links
    BY <2>4 DEF LoseWorker, LeaseRunsOut, P!LoseWorker, P!LeaseRunsOut, P!effects, publishVars
  <2>5. links' = links
    BY <1>7, <2>2, <2>3, <2>4 DEF Next, Work, PickJobs, RemindStep, MarkReminded, vars, publishVars
  <2> QED
    BY <1>1, <2>1, <2>5
<1> QED
  BY <1>1, <1>3, <1>4, <1>5, <1>6, <1>7

LEMMA JobStep ==
  ASSUME RP!RemindersInv, RP!RemindersInv', LP!TypeOK, FollowUpHasJob, [Next]_vars
  PROVE  FollowUpHasJob'
<1> SUFFICES ASSUME NEW f \in FollowUps PROVE about'[f] # None <=> remState'[f] # "absent"
  BY DEF FollowUpHasJob
<1>1. about[f] # None <=> followUp[f] # "none"
  BY DEF FollowUpHasJob, RP!RemindersInv, RP!EffectInv, RP!Scheduled
<1>2. remState'[f] # "absent" <=> followUp'[f] # "none"
  BY DEF RP!RemindersInv, RP!EffectInv, RP!Scheduled
<1>3. about \in [FollowUps -> Proposals \cup {None}] /\ followUp \in [FollowUps -> {"none", "pending", "sent"}]
  BY DEF LP!TypeOK, RP!RemindersInv, RP!TypeOK
<1>4. ASSUME NEW t \in Tasks, CommitSent(t) PROVE about'[f] # None <=> followUp'[f] # "none"
  <2>1. task[t].p \in Proposals
    BY <1>4 DEF CommitSent, L!CommitSent, L!At, LP!TypeOK
  <2>2. PICK g \in FollowUps : R!Schedule(g) /\ L!CommitSent(t) /\ about'[g] = task[t].p
    BY <1>4 DEF CommitSent
  <2>3. PICK h \in FollowUps : about[h] = None /\ about' = [about EXCEPT ![h] = task[t].p]
    BY <2>2 DEF L!CommitSent
  <2>4. remState[g] = "absent" /\ followUp' = [followUp EXCEPT ![g] = "pending"]
    BY <2>2 DEF R!Schedule, R!Insert
  <2>5. about[g] = None
    BY <2>4 DEF FollowUpHasJob
  <2>6. task[t].p # None
    BY <2>1, Assumptions
  <2>7. g = h
    BY <1>3, <2>2, <2>3, <2>5, <2>6
  <2> QED
    BY <1>1, <1>3, <2>3, <2>4, <2>6, <2>7
<1>5. ASSUME \A t \in Tasks : ~CommitSent(t) PROVE about' = about
  <2>1. ASSUME NEW t \in Tasks, UseCase(t) PROVE about' = about
    <3>1. CASE L!Intake(t) \/ L!Qualify(t) \/ L!Generate(t)
      BY <3>1 DEF L!Intake, L!Qualify, L!Generate, L!CreateLead, L!ExtractLead, L!Reply,
         L!Confirm, L!CommitQualify, L!Propose, L!CommitDraft, L!WriteText, L!rows
    <3>2. CASE ~(L!Intake(t) \/ L!Qualify(t) \/ L!Generate(t))
      BY <2>1, <3>2 DEF UseCase, L!Answer, L!ClickOutcome, L!ReadLead, L!CommitOutcome,
         L!CommitNotes, L!LoseTask, L!ClickSent, L!rows
    <3> QED
      BY <3>1, <3>2
  <2>2. ASSUME NEW w \in Workers, SendLink(w) PROVE about' = about
    BY <2>2 DEF SendLink, L!LinkArrives, L!rows, workflowVars
  <2> QED
    BY <1>5, <2>1, <2>2 DEF Next, Work, PublishClick, PickJobs, Publish, RemindStep,
       MarkReminded, LoseWorker, LeaseRunsOut, vars, workflowVars
<1>6. ASSUME NEW w \in Workers, MarkReminded(w), \A t \in Tasks : ~CommitSent(t)
      PROVE  about'[f] # None <=> followUp'[f] # "none"
  BY <1>1, <1>3, <1>5, <1>6, MarkedFollowUp
<1>7. ASSUME \A t \in Tasks : ~CommitSent(t), \A w \in Workers : ~MarkReminded(w)
      PROVE  about'[f] # None <=> followUp'[f] # "none"
  BY <1>1, <1>5, <1>7, OtherReminderSteps
<1> QED
  BY <1>2, <1>4, <1>6, <1>7

Agree == LP!TypeOK /\ PP!PublicationInv /\ ButtonIsLink /\ FollowUpHasJob

LEMMA AgreeInit == Init => Agree
<1> SUFFICES ASSUME Init PROVE Agree
  OBVIOUS
<1>1. LP!Init /\ PP!Init /\ RP!Init
  BY SameWorkflowInit, SamePublicationInit, SameRemindersInit DEF Init
<1>2. LP!TypeOK
  BY <1>1, Assumptions, LP!TypeInit
<1>3. PP!PublicationInv
  BY <1>1, Assumptions, PP!InitType, PP!InitInv DEF PP!PublicationInv
<1>4. ButtonIsLink /\ FollowUpHasJob
  BY <1>1 DEF LP!Init, PP!Init, RP!Init, RP!DeliveryInit, ButtonIsLink, FollowUpHasJob
<1> QED
  BY <1>2, <1>3, <1>4 DEF Agree

LEMMA AgreeStep ==
  ASSUME RP!RemindersInv, RP!RemindersInv', Agree, [Next]_vars
  PROVE  Agree' /\ [L!Next]_L!vars /\ [P!Next]_P!vars
<1>1. [L!Next]_L!vars
  BY WorkflowStep DEF Agree
<1>2. [P!Next]_P!vars
  BY PublicationStep DEF Agree
<1>3. LP!TypeOK'
  BY <1>1, SameWorkflowStep, Assumptions, LP!TypeStep DEF Agree
<1>4. PP!PublicationInv'
  BY <1>2, SamePublicationStep, Assumptions, PP!InvStep DEF Agree
<1>5. ButtonIsLink' /\ FollowUpHasJob'
  BY ButtonStep, JobStep DEF Agree
<1> QED
  BY <1>1, <1>2, <1>3, <1>4, <1>5 DEF Agree

LEMMA PartsHold == Spec => []Agree /\ L!Spec /\ P!Spec
<1>1. Init => Agree /\ L!Init /\ P!Init
  BY AgreeInit DEF Init
<1>2. RP!RemindersInv /\ RP!RemindersInv' /\ Agree /\ [Next]_vars
        => Agree' /\ [L!Next]_L!vars /\ [P!Next]_P!vars
  BY AgreeStep
<1> QED
  BY <1>1, <1>2, RemindersHold, PTL DEF Spec, L!Spec, P!Spec

-----------------------------------------------------------------------------
(***************************************************************************)
(* Theorems.                                                               *)
(***************************************************************************)

\* A worker runs one handler at a time.
OneHandler == \A w \in Workers : pubPhase[w] = "idle" \/ remPhase[w] = "idle"

LEMMA OneHandlerStep ==
  ASSUME RP!RemindersInv, PP!PublicationInv, OneHandler, [Next]_vars
  PROVE  OneHandler'
<1>1. pubPhase \in [Workers -> P!Phases] /\ remPhase \in [Workers -> R!Phases]
  BY DEF PP!PublicationInv, PP!TypeOK, RP!RemindersInv, RP!TypeOK, PP!Phases, RP!Phases,
         P!Phases, R!Phases
<1>2. ASSUME NEW w \in Workers, Publish(w) \/ SendLink(w) PROVE OneHandler'
  <2>1. remPhase' = remPhase
    BY <1>2 DEF Publish, SendLink, reminderVars
  <2>2. remPhase[w] = "idle"
    BY <1>2 DEF Publish, SendLink, P!SendLink, P!Goto, OneHandler
  <2>3. \A v \in Workers \ {w} : pubPhase'[v] = pubPhase[v]
    BY <1>1, <1>2 DEF Publish, SendLink, P!ReadProposal, P!CreateDoc, P!CreateRaises,
       P!CreateAnswerLost, P!StoreDocument, P!StoreRaises, P!SendLink, P!SendLinkFails,
       P!Finalize, P!Enter, P!Goto
  <2> QED
    BY <2>1, <2>2, <2>3 DEF OneHandler
<1>3. ASSUME NEW w \in Workers, RemindStep(w) \/ MarkReminded(w) PROVE OneHandler'
  <2>1. pubPhase' = pubPhase
    BY <1>3 DEF RemindStep, MarkReminded, publishVars
  <2>2. pubPhase[w] = "idle"
    BY <1>3 DEF RemindStep, MarkReminded, R!MarkSent, R!Goto, OneHandler
  <2>3. \A v \in Workers \ {w} : remPhase'[v] = remPhase[v]
    BY <1>1, <1>3 DEF RemindStep, MarkReminded, R!ReadFollowUp, R!Send, R!SendRaises, R!Recheck,
       R!MarkSent, R!MarkRaises, R!Finalize, R!Enter, R!Goto
  <2> QED
    BY <2>1, <2>2, <2>3 DEF OneHandler
<1>4. ASSUME NEW w \in Workers, LoseWorker(w) PROVE OneHandler'
  <2>1. pubPhase' = pubPhase \/ pubPhase' = [pubPhase EXCEPT ![w] = "idle"]
    BY <1>4 DEF LoseWorker, P!LoseWorker, P!Enter, publishVars
  <2>2. remPhase' = remPhase \/ remPhase' = [remPhase EXCEPT ![w] = "idle"]
    BY <1>4 DEF LoseWorker, R!LoseWorker, R!Enter, reminderVars
  <2> QED
    BY <1>1, <2>1, <2>2 DEF OneHandler
<1>5. CASE \A w \in Workers : /\ ~Publish(w) /\ ~SendLink(w)
                              /\ ~RemindStep(w) /\ ~MarkReminded(w) /\ ~LoseWorker(w)
  <2>1. pubPhase' = pubPhase
    BY <1>5 DEF Next, Work, UseCase, CommitSent, PublishClick, P!LookUp, P!RequestFound,
       P!RequestInserts, P!RequestCollides, P!handlerVars, PickJobs, LeaseRunsOut,
       P!LeaseRunsOut, vars, publishVars
  <2>2. remPhase' = remPhase
    BY <1>5 DEF Next, Work, UseCase, CommitSent, R!Schedule, R!handlerVars, PublishClick,
       PickJobs, LeaseRunsOut, R!LeaseRunsOut, vars, reminderVars
  <2> QED
    BY <2>1, <2>2 DEF OneHandler
<1> QED
  BY <1>2, <1>3, <1>4, <1>5

\* Every reachable state of the composition is well typed, and the parts agree on
\* what they share.
THEOREM TypeCorrect == Spec => []TypeOK
<1>1. Init => OneHandler
  BY DEF Init, P!Init, OneHandler
<1>2. RP!RemindersInv /\ Agree /\ OneHandler /\ [Next]_vars => OneHandler'
  BY OneHandlerStep DEF Agree
<1>3. LP!TypeOK => L!TypeOK
  BY DEF LP!TypeOK, L!TypeOK, LP!LeadStatuses, L!LeadStatuses, LP!ProposalStatuses,
         L!ProposalStatuses, LP!Steps, L!Steps, LP!Outcomes, L!Outcomes, LP!Moved, L!Moved
<1>4. PP!TypeOK => P!TypeOK
  BY DEF PP!TypeOK, P!TypeOK, PP!DeliveryTypeOK, P!DeliveryTypeOK, PP!Phases, P!Phases,
         PP!Requests, P!Requests
<1>5. RP!TypeOK => R!TypeOK
  BY DEF RP!TypeOK, R!TypeOK, RP!DeliveryTypeOK, R!DeliveryTypeOK, RP!Phases, R!Phases
<1>6. RP!RemindersInv /\ Agree /\ OneHandler => TypeOK
  BY <1>3, <1>4, <1>5 DEF Agree, OneHandler, TypeOK, PP!PublicationInv, RP!RemindersInv,
     ButtonIsLink, FollowUpHasJob
<1> QED
  BY <1>1, <1>2, <1>6, PartsHold, RemindersHold, PTL DEF Spec

\* The bot and the workers together do nothing that one of the three models does
\* not allow: whatever was proved of a part holds of it here.
THEOREM PartsImplemented == Spec => L!Spec /\ P!Spec /\ R!Spec
  BY RemindersHold, PartsHold, PTL

\* Only a proposal with a text, a Document and a link is ever marked as sent.
THEOREM SentHasDocument == Spec => []SentOnlyWithDocument
<1>1. LP!Spec => []LP!ShownInv
  BY Assumptions, LP!ShownHolds
<1>2. Agree /\ LP!ShownInv => SentOnlyWithDocument
  <2> SUFFICES ASSUME Agree, LP!ShownInv, NEW p \in Proposals, proposal[p] \in L!Moved
               PROVE  p \in written /\ documents[p] > 0 /\ links[p] > 0
    BY DEF SentOnlyWithDocument
  <2>1. p \in buttons /\ p \in written
    BY DEF LP!ShownInv, LP!Moved, L!Moved
  <2>2. links[p] > 0
    BY <2>1 DEF Agree, ButtonIsLink
  <2>3. documents[p] > 0
    BY <2>2 DEF Agree, PP!PublicationInv, PP!LinkInv, PP!LinkedAfterward
  <2> QED
    BY <2>1, <2>2, <2>3
<1> QED
  BY <1>1, <1>2, PartsHold, SameWorkflow, PTL

\* An answer of the client is recorded only after a message with the answer's
\* buttons reached the operator.
THEOREM AnswerHasReminder == Spec => []AnsweredOnlyIfReminderCame
<1>1. LP!Spec => []LP!AnsweredOnlyIfReminded
  BY Assumptions, LP!AnswersFollowReminders
<1>2. RP!RemindersInv /\ LP!AnsweredOnlyIfReminded => AnsweredOnlyIfReminderCame
  <2> SUFFICES ASSUME RP!RemindersInv, LP!AnsweredOnlyIfReminded,
                      NEW p \in Proposals, proposal[p] \in L!Outcomes
               PROVE  \E f \in FollowUps : about[f] = p /\ reminders[f] > 0
    BY DEF AnsweredOnlyIfReminderCame
  <2>1. PICK f \in FollowUps : about[f] = p /\ followUp[f] = "sent"
    BY DEF LP!AnsweredOnlyIfReminded, LP!ScheduledFor, LP!Outcomes, L!Outcomes
  <2>2. reminders[f] > 0
    BY <2>1 DEF RP!RemindersInv, RP!EffectInv, RP!SentMeansReminded
  <2> QED
    BY <2>1, <2>2
<1> QED
  BY <1>1, <1>2, PartsHold, RemindersHold, SameWorkflow, PTL

\* A lead whose status says that a proposal went out has a follow-up with a job,
\* about a proposal with a Document.
THEOREM LeadIsDocumented == Spec => []LeadHasPaper
<1>1. LP!Spec => [](LP!ShownInv /\ LP!LeadHasFollowUp)
  BY Assumptions, LP!ShownHolds, LP!FollowUpHolds, PTL
<1>2. Agree /\ LP!ShownInv /\ LP!LeadHasFollowUp => LeadHasPaper
  <2> SUFFICES ASSUME Agree, LP!ShownInv, LP!LeadHasFollowUp,
                      lead \in {"proposal_sent"} \cup L!Outcomes
               PROVE  \E f \in FollowUps : /\ about[f] # None
                                           /\ remState[f] # "absent"
                                           /\ documents[about[f]] > 0
    BY DEF LeadHasPaper
  <2>1. PICK f \in FollowUps : about[f] # None
    BY DEF LP!LeadHasFollowUp, LP!Past, LP!Outcomes, L!Outcomes
  <2>2. about[f] \in Proposals /\ about[f] \in buttons
    BY <2>1 DEF Agree, LP!TypeOK, LP!ShownInv
  <2>3. documents[about[f]] > 0
    BY <2>2 DEF Agree, ButtonIsLink, PP!PublicationInv, PP!LinkInv, PP!LinkedAfterward
  <2>4. remState[f] # "absent"
    BY <2>1 DEF Agree, FollowUpHasJob
  <2> QED
    BY <2>1, <2>3, <2>4
<1> QED
  BY <1>1, <1>2, PartsHold, SameWorkflow, PTL
=============================================================================
