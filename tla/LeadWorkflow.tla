---------------------------- MODULE LeadWorkflow ----------------------------
(***************************************************************************)
(* The way of one lead through the bot's use cases: intake, qualification, *)
(* proposals, sending, and the client's answer.                            *)
(*                                                                         *)
(* The bot runs the handler of each update in a task of its own.  A use    *)
(* case reads rows, decides, and commits; READ COMMITTED and updates by id *)
(* mean that the commit neither sees nor minds what other tasks committed  *)
(* since.  Only the columns whose value differs from the one read are      *)
(* written (the session's unit of work).  A step is one SELECT, one        *)
(* commit, or one external call; `lead' and `proposal' are the rows, a     *)
(* task's record what it has read.                                         *)
(*                                                                         *)
(* Other leads share no row with this one.  What happens in the worker is  *)
(* one action each here: LinkArrives (Publication) and Remind (Reminders). *)
(***************************************************************************)
EXTENDS Integers, FiniteSets

CONSTANTS Tasks,      \* updates the bot handles at the same time
          Proposals,  \* bound: proposals generated for the lead
          FollowUps,  \* bound: follow-ups scheduled
          HasName,    \* the extracted data name the client
          None        \* no proposal, no follow-up

ASSUME LeadWorkflowAssumption ==
  /\ HasName \in BOOLEAN
  /\ None \notin Proposals \cup FollowUps
  /\ {"confirm", "propose"} \cap Proposals = {}  \* buttons of their own

VARIABLES
  lead,       \* leads.status, "none" before the insert
  clients,    \* rows of clients made for the lead, 2 for "more than one"
  linked,     \* leads.client_id is set
  proposal,   \* proposals.status, "none" before the insert
  written,    \* the proposals with a generated_text
  about,      \* follow_ups.proposal_id, None before the insert
  reminded,   \* the follow-ups with status sent
  buttons,    \* "confirm", "propose", and the proposals whose mark_sent button came
  task,       \* what each task is doing
  raced,      \* history: a commit was based on a row that had changed since
  lastMoved,  \* history: the proposal whose status was committed last
  repeated    \* history: the proposals that got an event of the status they had

rows    == <<lead, clients, linked, proposal, written, about, reminded>>
history == <<raced, lastMoved, repeated>>
vars    == <<rows, buttons, task, history>>

Outcomes == {"accepted", "declined"}
Moved    == {"sent", "accepted", "declined"}

\* A task between two updates.
Resting == [step |-> "rest", p |-> None, f |-> None, outcome |-> "none",
            lead |-> "none", proposal |-> "none", linked |-> FALSE]

Init ==
  /\ lead = "none"
  /\ clients = 0
  /\ linked = FALSE
  /\ proposal = [p \in Proposals |-> "none"]
  /\ written = {}
  /\ about = [f \in FollowUps |-> None]
  /\ reminded = {}
  /\ buttons = {}
  /\ task = [t \in Tasks |-> Resting]
  /\ raced = FALSE
  /\ lastMoved = None
  /\ repeated = {}

At(t, step) == task[t].step = step
Rest(t) == task' = [task EXCEPT ![t] = Resting]

\* A row that t read has changed since.
Stale(t) ==
  \/ task[t].lead # lead
  \/ task[t].linked # linked
  \/ task[t].p # None /\ task[t].proposal # proposal[task[t].p]

CommitHistory(t) == raced' = (raced \/ Stale(t))

\* The status update of the lead at commit: none if t read that value already.
WriteLead(t, status) == lead' = IF task[t].lead = status THEN lead ELSE status

\* The same of its proposal.  Its event is recorded in any case; where in the log
\* is not said here: it is flushed, with its time, before this update, which may
\* have to wait for the row's lock.
WriteProposal(t, status) ==
  LET p == task[t].p IN
  /\ proposal' = IF task[t].proposal = status THEN proposal
                 ELSE [proposal EXCEPT ![p] = status]
  /\ lastMoved' = p
  /\ repeated' = IF proposal[p] = status THEN repeated \cup {p} ELSE repeated

-----------------------------------------------------------------------------
(***************************************************************************)
(* intake_lead and its reply.                                              *)
(***************************************************************************)

\* Mutant: the buttons are shown while the extractor still works.
CreateLeadAndReply(t) ==
  /\ At(t, "rest")
  /\ lead = "none"
  /\ lead' = "new"
  /\ buttons' = buttons \cup {"confirm"}
  /\ task' = [task EXCEPT ![t].step = "extract"]
  /\ UNCHANGED <<clients, linked, proposal, written, about, reminded, history>>

\* The first transaction.
CreateLead(t) ==
  /\ At(t, "rest")
  /\ lead = "none"
  /\ lead' = "new"
  /\ task' = [task EXCEPT ![t].step = "extract"]
  /\ UNCHANGED <<clients, linked, proposal, written, about, reminded, buttons, history>>

\* The second transaction, after the extractor has answered or raised.
ExtractLead(t) ==
  /\ At(t, "extract")
  /\ lead' \in {"qualifying", lead}
  /\ task' = [task EXCEPT ![t].step = "intake reply"]
  /\ UNCHANGED <<clients, linked, proposal, written, about, reminded, buttons, history>>

\* A message with a button; when it is lost, so is the button.
Reply(t, step, button) ==
  /\ At(t, step)
  /\ buttons' \in {buttons \cup {button}, buttons}
  /\ Rest(t)
  /\ UNCHANGED <<rows, history>>

-----------------------------------------------------------------------------
(***************************************************************************)
(* qualify_lead.                                                           *)
(***************************************************************************)

\* Mutant: a lead may be qualified again later on.
QualifiableAlways == {"new", "qualifying", "qualified", "proposal_sent"}

\* _QUALIFIABLE_FROM
Qualifiable == {"new", "qualifying"}

Confirm(t) ==
  /\ At(t, "rest")
  /\ "confirm" \in buttons
  /\ lead \in Qualifiable
  /\ task' = [task EXCEPT ![t].step = "qualify", ![t].lead = lead, ![t].linked = linked]
  /\ UNCHANGED <<rows, buttons, history>>

\* client_id is not set and the data have a full_name: a lead still new has none.
NeedsClient(t) == HasName /\ task[t].lead = "qualifying" /\ ~task[t].linked

AddClient(t) == clients' = IF NeedsClient(t) /\ clients < 2 THEN clients + 1 ELSE clients

\* Mutant: the client is committed in a transaction of its own, and the task is
\* lost after it.
CommitClientFirst(t) ==
  /\ At(t, "qualify")
  /\ AddClient(t)
  /\ Rest(t)
  /\ UNCHANGED <<lead, linked, proposal, written, about, reminded, buttons, history>>

\* The client, the link to it, and the status.
CommitQualify(t) ==
  /\ At(t, "qualify")
  /\ AddClient(t)
  /\ linked' = (linked \/ NeedsClient(t))
  /\ WriteLead(t, "qualified")
  /\ CommitHistory(t)
  /\ task' = [task EXCEPT ![t] = [Resting EXCEPT !.step = "qualify reply"]]
  /\ UNCHANGED <<proposal, written, about, reminded, buttons, lastMoved, repeated>>

-----------------------------------------------------------------------------
(***************************************************************************)
(* generate_proposal.                                                      *)
(***************************************************************************)

Propose(t) ==
  /\ At(t, "rest")
  /\ "propose" \in buttons
  /\ lead = "qualified"
  /\ task' = [task EXCEPT ![t].step = "draft", ![t].lead = lead, ![t].linked = linked]
  /\ UNCHANGED <<rows, buttons, history>>

\* The first transaction commits the draft; nothing asks for other proposals.
CommitDraft(t) ==
  /\ At(t, "draft")
  /\ \E p \in Proposals :
       /\ proposal[p] = "none"
       /\ proposal' = [proposal EXCEPT ![p] = "draft"]
       /\ task' = [task EXCEPT ![t] = [Resting EXCEPT !.step = "write", !.p = p]]
  /\ CommitHistory(t)
  /\ UNCHANGED <<lead, clients, linked, written, about, reminded, buttons,
                 lastMoved, repeated>>

\* The second transaction: the writer's text, or none.
WriteText(t) ==
  /\ At(t, "write")
  /\ written' \in {written \cup {task[t].p}, written}
  /\ Rest(t)
  /\ UNCHANGED <<lead, clients, linked, proposal, about, reminded, buttons, history>>

\* Publication, from the click on the draft to the worker's message: a proposal
\* without a text is refused.
LinkArrives(p) ==
  /\ p \in written
  /\ p \notin buttons
  /\ buttons' = buttons \cup {p}
  /\ UNCHANGED <<rows, task, history>>

-----------------------------------------------------------------------------
(***************************************************************************)
(* mark_proposal_sent.                                                     *)
(***************************************************************************)

\* Mutant: any proposal may be marked as sent.
SendableAlways(p) == TRUE

Sendable(p) == proposal[p] = "draft"

ClickSent(t, p) ==
  /\ At(t, "rest")
  /\ p \in buttons
  /\ Sendable(p)
  /\ task' = [task EXCEPT ![t].step = "send", ![t].p = p, ![t].proposal = proposal[p]]
  /\ UNCHANGED <<rows, buttons, history>>

\* The second SELECT of the transaction, of a use case that goes on at `next'.
ReadLead(t, step, next) ==
  /\ At(t, step)
  /\ task' = [task EXCEPT ![t].step = next, ![t].lead = lead, ![t].linked = linked]
  /\ UNCHANGED <<rows, buttons, history>>

\* Proposal, lead, follow-up and its job; the lead's status is not asked for.
CommitSent(t) ==
  /\ At(t, "send commit")
  /\ WriteProposal(t, "sent")
  /\ WriteLead(t, "proposal_sent")
  /\ \E f \in FollowUps : about[f] = None /\ about' = [about EXCEPT ![f] = task[t].p]
  /\ CommitHistory(t)
  /\ Rest(t)
  /\ UNCHANGED <<clients, linked, written, reminded, buttons>>

\* Mutant: the job is enqueued, and runs, before its follow-up is committed.
RemindEarly(f) ==
  /\ f \notin reminded
  /\ reminded' = reminded \cup {f}
  /\ UNCHANGED <<lead, clients, linked, proposal, written, about, buttons, task, history>>

\* send_follow_up, in the worker, from its message to its commit.
Remind(f) ==
  /\ about[f] # None
  /\ f \notin reminded
  /\ reminded' = reminded \cup {f}
  /\ UNCHANGED <<lead, clients, linked, proposal, written, about, buttons, task, history>>

-----------------------------------------------------------------------------
(***************************************************************************)
(* record_follow_up_result.                                                *)
(***************************************************************************)

Answerable(f) == f \in reminded

\* The follow-up and its proposal are read; `waiting' changes nothing.
ClickOutcome(t, f, outcome) ==
  /\ At(t, "rest")
  /\ Answerable(f)
  /\ task' = [task EXCEPT ![t].step = "answer", ![t].f = f, ![t].outcome = outcome,
                          ![t].p = about[f], ![t].proposal = proposal[about[f]]]
  /\ UNCHANGED <<rows, buttons, history>>

\* Mutant: already_final is gone.
NeverFinal(t) == FALSE

\* already_final, of what was read.
AlreadyFinal(t) == task[t].proposal = task[t].outcome

\* Mutant: the proposal of the answer is moved, the lead is not.
CommitProposalOnly(t) ==
  /\ At(t, "answer commit")
  /\ ~AlreadyFinal(t)
  /\ WriteProposal(t, task[t].outcome)
  /\ CommitHistory(t)
  /\ Rest(t)
  /\ UNCHANGED <<lead, clients, linked, written, about, reminded, buttons>>

CommitOutcome(t) ==
  /\ At(t, "answer commit")
  /\ ~AlreadyFinal(t)
  /\ WriteProposal(t, task[t].outcome)
  /\ WriteLead(t, task[t].outcome)
  /\ CommitHistory(t)
  /\ Rest(t)
  /\ UNCHANGED <<clients, linked, written, about, reminded, buttons>>

\* The notes of a repeated answer are all that is written.
CommitNotes(t) ==
  /\ At(t, "answer commit")
  /\ AlreadyFinal(t)
  /\ Rest(t)
  /\ UNCHANGED <<rows, buttons, history>>

\* The bot dies, or the task's transaction fails and is rolled back.
LoseTask(t) ==
  /\ ~At(t, "rest")
  /\ Rest(t)
  /\ UNCHANGED <<rows, buttons, history>>

-----------------------------------------------------------------------------
Intake(t)   == CreateLead(t) \/ ExtractLead(t) \/ Reply(t, "intake reply", "confirm")
Qualify(t)  == Confirm(t) \/ CommitQualify(t) \/ Reply(t, "qualify reply", "propose")
Generate(t) == Propose(t) \/ CommitDraft(t) \/ WriteText(t)
Send(t)     == \/ \E p \in Proposals : ClickSent(t, p)
               \/ ReadLead(t, "send", "send commit")
               \/ CommitSent(t)
Answer(t)   == \/ \E f \in FollowUps, outcome \in Outcomes : ClickOutcome(t, f, outcome)
               \/ ReadLead(t, "answer", "answer commit")
               \/ CommitOutcome(t) \/ CommitNotes(t)

Next ==
  \/ \E t \in Tasks : Intake(t) \/ Qualify(t) \/ Generate(t) \/ Send(t) \/ Answer(t) \/ LoseTask(t)
  \/ \E p \in Proposals : LinkArrives(p)
  \/ \E f \in FollowUps : Remind(f)

Spec == Init /\ [][Next]_vars

-----------------------------------------------------------------------------
(***************************************************************************)
(* Properties.                                                             *)
(***************************************************************************)

LeadStatuses     == {"none", "new", "qualifying", "qualified", "proposal_sent"} \cup Outcomes
ProposalStatuses == {"none", "draft"} \cup Moved

Steps == {"rest", "extract", "intake reply", "qualify", "qualify reply", "draft", "write",
          "send", "send commit", "answer", "answer commit"}

\* The types of the variables; a task in the middle of a proposal names it.
TypeOK ==
  /\ lead \in LeadStatuses
  /\ clients \in 0 .. 2
  /\ linked \in BOOLEAN
  /\ proposal \in [Proposals -> ProposalStatuses]
  /\ written \subseteq Proposals
  /\ about \in [FollowUps -> Proposals \cup {None}]
  /\ reminded \subseteq {f \in FollowUps : about[f] # None}
  /\ buttons \subseteq {"confirm", "propose"} \cup Proposals
  /\ task \in [Tasks -> [step : Steps, p : Proposals \cup {None},
                         f : FollowUps \cup {None}, outcome : Outcomes \cup {"none"},
                         lead : LeadStatuses, proposal : ProposalStatuses, linked : BOOLEAN]]
  /\ raced \in BOOLEAN
  /\ lastMoved \in Proposals \cup {None}
  /\ repeated \subseteq Proposals
  /\ \A t \in Tasks :
       task[t].step \in {"write", "send", "send commit", "answer", "answer commit"}
         => task[t].p \in Proposals

Unqualified == {"none", "new", "qualifying"}

\* A lead that is qualified never falls back behind it, whatever races there
\* are: the extraction, which writes its status without asking, is over before
\* the operator has a button.
QualifiedForGood ==
  [][lead \notin Unqualified => lead' \notin Unqualified]_vars

\* A lead whose proposal went out is never merely qualified again, unless a
\* commit was based on a stale read.
SentForGoodUnlessRaced ==
  [][lead' = "qualified" => raced' \/ lead \in Unqualified \cup {"qualified"}]_vars

LeadStatusFor(s) == IF s = "sent" THEN "proposal_sent" ELSE s

\* The lead says what its proposal moved last says, unless a commit was based on
\* a stale read: the two rows are written by one transaction.
LeadFollowsUnlessRaced ==
  ~raced /\ lastMoved # None => lead = LeadStatusFor(proposal[lastMoved])

\* A click or an answer repeated one after the other is not a second event of the
\* same status, unless a commit was based on a stale read.
NoRepeatUnlessRaced ==
  ~raced => repeated = {}

ScheduledFor(p) == {f \in FollowUps : about[f] = p}

\* A proposal gets one follow-up, however often its button is used, unless a
\* commit was based on a stale read.
OneFollowUpUnlessRaced ==
  ~raced => \A p \in Proposals : Cardinality(ScheduledFor(p)) <= 1

\* The client's answer is recorded only after one of the proposal's reminders.
AnsweredOnlyIfReminded ==
  \A p \in Proposals : proposal[p] \in Outcomes => ScheduledFor(p) \cap reminded # {}

\* A lead gives one Client, however often it is confirmed and whatever task is
\* lost on the way, unless a commit was based on a stale read.
OneClientUnlessRaced ==
  ~raced => clients <= 1

-----------------------------------------------------------------------------
(***************************************************************************)
(* What the documents say, and the code does not do.                       *)
(***************************************************************************)

\* "Operators who double-click will see ProposalNotInDraftError on the second
\* click": a proposal is sent once.
OneFollowUp ==
  \A p \in Proposals : Cardinality(ScheduledFor(p)) <= 1

\* The status map: when the client accepted, both the proposal and the lead are
\* accepted.
AcceptedTogether ==
  \A p \in Proposals : proposal[p] = "accepted" => lead = "accepted"
=============================================================================
