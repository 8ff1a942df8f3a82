------------------------- MODULE LeadWorkflowProofs -------------------------
(***************************************************************************)
(* Theorems about LeadWorkflow, for any number of updates at a time and    *)
(* any number of proposals and follow-ups of the lead.                     *)
(***************************************************************************)
EXTENDS LeadWorkflowRefines, TLAPS, FiniteSetTheorems

-----------------------------------------------------------------------------
(* Types.                                                                  *)

Task == [step : Steps, p : Proposals \cup {None}, f : FollowUps \cup {None},
         outcome : Outcomes \cup {"none"}, lead : LeadStatuses,
         proposal : ProposalStatuses, linked : BOOLEAN]

\* The steps in which a task has read a proposal.
Owning == {"write", "send", "send commit", "answer", "answer commit"}

RowsTyped ==
  /\ lead \in LeadStatuses
  /\ clients \in 0 .. 2
  /\ linked \in BOOLEAN
  /\ proposal \in [Proposals -> ProposalStatuses]
  /\ written \subseteq Proposals
  /\ about \in [FollowUps -> Proposals \cup {None}]
  /\ reminded \subseteq {f \in FollowUps : about[f] # None}

RestTyped ==
  /\ buttons \subseteq {"confirm", "propose"} \cup Proposals
  /\ raced \in BOOLEAN
  /\ lastMoved \in Proposals \cup {None}
  /\ repeated \subseteq Proposals

TaskTyped ==
  /\ task \in [Tasks -> Task]
  /\ \A t \in Tasks : task[t].step \in Owning => task[t].p \in Proposals

LEMMA TypeParts == TypeOK <=> RowsTyped /\ RestTyped /\ TaskTyped
  BY DEF TypeOK, RowsTyped, RestTyped, TaskTyped, Task, Owning

\* A step that writes one task's record, well typed, keeps the tasks typed.
LEMMA TaskStep ==
  ASSUME TaskTyped, NEW t \in Tasks, NEW r \in Task, task' = [task EXCEPT ![t] = r],
         r.step \in Owning => r.p \in Proposals
  PROVE  TaskTyped'
  BY DEF TaskTyped

LEMMA RestingTask == Resting \in Task /\ Resting.step = "rest"
  BY DEF Resting, Task, Steps, Outcomes, LeadStatuses, ProposalStatuses

LEMMA TypeInit == Init => TypeOK
<1> SUFFICES ASSUME Init PROVE TypeOK
  OBVIOUS
<1>1. TaskTyped
  BY RestingTask DEF Init, TaskTyped, Owning
<1>5. linked \in BOOLEAN
  BY DEF Init
<1>2. /\ lead \in LeadStatuses /\ clients \in 0 .. 2
      /\ written \subseteq Proposals /\ reminded \subseteq {f \in FollowUps : about[f] # None}
  BY DEF Init, LeadStatuses
<1>3. proposal \in [Proposals -> ProposalStatuses] /\ about \in [FollowUps -> Proposals \cup {None}]
  BY DEF Init, ProposalStatuses
<1>4. RestTyped
  BY DEF Init, RestTyped
<1> QED
  BY <1>1, <1>2, <1>3, <1>4, <1>5, TypeParts DEF RowsTyped

\* What the tasks do to their records.
LEMMA TaskTypes == TypeOK /\ [Next]_vars => TaskTyped'
<1> SUFFICES ASSUME TypeOK, [Next]_vars PROVE TaskTyped'
  OBVIOUS
<1>1. RowsTyped /\ RestTyped /\ TaskTyped
  BY TypeParts
<1>2. \A t \in Tasks : task[t] \in Task
  BY <1>1 DEF TaskTyped
<1> USE DEF Task, Steps, Owning
<1>3. ASSUME NEW t \in Tasks, Rest(t) PROVE TaskTyped'
  BY <1>1, <1>3, RestingTask, TaskStep DEF Rest
<1>4. ASSUME NEW t \in Tasks, NEW r \in Task, r.step \notin Owning,
             task' = [task EXCEPT ![t] = r]
      PROVE  TaskTyped'
  BY <1>1, <1>4, TaskStep
<1>5. ASSUME NEW t \in Tasks, CreateLead(t) \/ ExtractLead(t) PROVE TaskTyped'
  <2>1. PICK s \in {"extract", "intake reply"} : task' = [task EXCEPT ![t].step = s]
    BY <1>5 DEF CreateLead, ExtractLead
  <2>2. [task[t] EXCEPT !.step = s] \in Task
    BY <1>2
  <2> QED
    BY <1>2, <1>4, <2>1, <2>2
<1>6. ASSUME NEW t \in Tasks, Confirm(t) \/ Propose(t) PROVE TaskTyped'
  <2>1. PICK s \in {"qualify", "draft"} :
           task' = [task EXCEPT ![t].step = s, ![t].lead = lead, ![t].linked = linked]
    BY <1>6 DEF Confirm, Propose
  <2> DEFINE r == [task[t] EXCEPT !.step = s, !.lead = lead, !.linked = linked]
  <2>2. r \in Task /\ r.step = s
    BY <1>1, <1>2 DEF RowsTyped
  <2>3. task' = [task EXCEPT ![t] = r]
    BY <1>1, <2>1 DEF TaskTyped
  <2> QED
    BY <1>4, <2>2, <2>3
<1>7. ASSUME NEW t \in Tasks, CommitQualify(t) PROVE TaskTyped'
  <2>1. task' = [task EXCEPT ![t] = [Resting EXCEPT !.step = "qualify reply"]]
    BY <1>7 DEF CommitQualify
  <2>2. [Resting EXCEPT !.step = "qualify reply"] \in Task
    BY RestingTask
  <2> QED
    BY RestingTask, <1>4, <2>1, <2>2
<1>8. ASSUME NEW t \in Tasks, CommitDraft(t) PROVE TaskTyped'
  <2>1. PICK p \in Proposals :
           task' = [task EXCEPT ![t] = [Resting EXCEPT !.step = "write", !.p = p]]
    BY <1>8 DEF CommitDraft
  <2>2. [Resting EXCEPT !.step = "write", !.p = p] \in Task
    BY RestingTask
  <2>3. [Resting EXCEPT !.step = "write", !.p = p].p = p
    BY RestingTask
  <2> QED
    BY <1>1, <2>1, <2>2, <2>3, TaskStep
<1>9. ASSUME NEW t \in Tasks, NEW p \in Proposals, ClickSent(t, p) PROVE TaskTyped'
  <2> DEFINE r == [task[t] EXCEPT !.step = "send", !.p = p, !.proposal = proposal[p]]
  <2>1. task' = [task EXCEPT ![t] = r]
    BY <1>9 DEF ClickSent
  <2>2. r \in Task /\ r.p = p
    BY <1>1, <1>2 DEF RowsTyped
  <2> QED
    BY <1>1, <2>1, <2>2, TaskStep
<1>10. ASSUME NEW t \in Tasks,
              ReadLead(t, "send", "send commit") \/ ReadLead(t, "answer", "answer commit")
       PROVE  TaskTyped'
  <2>1. PICK s \in {"send commit", "answer commit"} :
           task' = [task EXCEPT ![t].step = s, ![t].lead = lead, ![t].linked = linked]
    BY <1>10 DEF ReadLead
  <2> DEFINE r == [task[t] EXCEPT !.step = s, !.lead = lead, !.linked = linked]
  <2>2. task[t].p \in Proposals
    BY <1>1, <1>10 DEF ReadLead, At, TaskTyped
  <2>3. r \in Task /\ r.p \in Proposals
    BY <1>1, <1>2, <2>2 DEF RowsTyped
  <2>4. task' = [task EXCEPT ![t] = r]
    BY <1>1, <2>1 DEF TaskTyped
  <2> HIDE DEF r
  <2> QED
    BY <1>1, <2>3, <2>4, TaskStep
<1>11. ASSUME NEW t \in Tasks, NEW f \in FollowUps, NEW outcome \in Outcomes,
              ClickOutcome(t, f, outcome)
       PROVE  TaskTyped'
  <2> DEFINE r == [task[t] EXCEPT !.step = "answer", !.f = f, !.outcome = outcome,
                                  !.p = about[f], !.proposal = proposal[about[f]]]
  <2>1. task' = [task EXCEPT ![t] = r]
    BY <1>11 DEF ClickOutcome
  <2>2. about[f] \in Proposals
    BY <1>1, <1>11 DEF ClickOutcome, Answerable, RowsTyped
  <2>3. r \in Task /\ r.p \in Proposals
    BY <1>1, <1>2, <2>2 DEF RowsTyped
  <2> QED
    BY <1>1, <2>1, <2>3, TaskStep
<1>12. CASE UNCHANGED task
  BY <1>1, <1>12 DEF TaskTyped
<1> QED
  BY <1>3, <1>5, <1>6, <1>7, <1>8, <1>9, <1>10, <1>11, <1>12
  DEF Next, Intake, Qualify, Generate, Send, Answer, Reply, WriteText, CommitSent,
      CommitOutcome, CommitNotes, LoseTask, LinkArrives, Remind, vars

\* What the commits write.
LEMMA RowTypes == TypeOK /\ [Next]_vars => RowsTyped' /\ RestTyped'
<1> SUFFICES ASSUME TypeOK, [Next]_vars PROVE RowsTyped' /\ RestTyped'
  OBVIOUS
<1>1. RowsTyped /\ RestTyped /\ TaskTyped
  BY TypeParts
<1>2. \A t \in Tasks : /\ task[t] \in Task
                       /\ task[t].step \in Owning => task[t].p \in Proposals
  BY <1>1 DEF TaskTyped
<1>3. \A t \in Tasks : /\ task[t].outcome \in Outcomes \cup {"none"}
                       /\ task[t].linked \in BOOLEAN
  BY <1>2 DEF Task
<1> USE DEF LeadStatuses, ProposalStatuses, Moved, Outcomes
<1>4. ASSUME NEW t \in Tasks, CommitHistory(t) PROVE raced' \in BOOLEAN
  <2>1. Stale(t) \in BOOLEAN
    BY <1>3, <1>1 DEF Stale, RowsTyped
  <2> QED
    BY <1>1, <1>4, <2>1 DEF CommitHistory, RestTyped
<1>5. ASSUME NEW t \in Tasks, NEW s \in Moved \cup {"none"}, task[t].p \in Proposals,
             WriteProposal(t, s)
      PROVE  /\ proposal' \in [Proposals -> ProposalStatuses]
             /\ lastMoved' \in Proposals
             /\ repeated' \subseteq Proposals
  BY <1>1, <1>5 DEF WriteProposal, RowsTyped, RestTyped
<1>6. ASSUME NEW t \in Tasks, NEW s \in LeadStatuses, WriteLead(t, s)
      PROVE  lead' \in LeadStatuses
  BY <1>1, <1>6 DEF WriteLead, RowsTyped
<1>7. ASSUME NEW t \in Tasks, CreateLead(t) \/ ExtractLead(t) PROVE RowsTyped' /\ RestTyped'
  BY <1>1, <1>7 DEF CreateLead, ExtractLead, history, RowsTyped, RestTyped
<1>8. ASSUME NEW t \in Tasks,
             \/ Reply(t, "intake reply", "confirm") \/ Reply(t, "qualify reply", "propose")
      PROVE  RowsTyped' /\ RestTyped'
  <2>1. UNCHANGED <<rows, history>> /\ buttons' \subseteq buttons \cup {"confirm", "propose"}
    BY <1>8 DEF Reply
  <2> QED
    BY <1>1, <2>1 DEF rows, history, RowsTyped, RestTyped
<1>9. ASSUME NEW t \in Tasks, CommitQualify(t) PROVE RowsTyped' /\ RestTyped'
  <2>1. lead' \in LeadStatuses /\ raced' \in BOOLEAN
    BY <1>4, <1>6, <1>9 DEF CommitQualify
  <2>2. clients' \in 0 .. 2
    <3>1. clients \in 0 .. 2 /\ (clients' = clients \/ (clients < 2 /\ clients' = clients + 1))
      BY <1>1, <1>9, Zenon DEF CommitQualify, AddClient, RowsTyped
    <3> QED
      BY <3>1
  <2>3. linked' \in BOOLEAN
    <3>1. NeedsClient(t) \in BOOLEAN
      BY <1>3, LeadWorkflowAssumption DEF NeedsClient
    <3> QED
      BY <3>1, <1>1, <1>9 DEF CommitQualify, RowsTyped
  <2> QED
    BY <1>1, <1>9, <2>1, <2>2, <2>3 DEF CommitQualify, RowsTyped, RestTyped
<1>10. ASSUME NEW t \in Tasks, CommitDraft(t) PROVE RowsTyped' /\ RestTyped'
  <2>1. raced' \in BOOLEAN /\ proposal' \in [Proposals -> ProposalStatuses]
    BY <1>1, <1>4, <1>10 DEF CommitDraft, RowsTyped
  <2> QED
    BY <1>1, <1>10, <2>1 DEF CommitDraft, RowsTyped, RestTyped
<1>11. ASSUME NEW t \in Tasks, WriteText(t) PROVE RowsTyped' /\ RestTyped'
  <2>1. written' \subseteq Proposals
    BY <1>1, <1>2, <1>11 DEF WriteText, At, Owning, RowsTyped
  <2> QED
    BY <1>1, <1>11, <2>1 DEF WriteText, history, RowsTyped, RestTyped
<1>12. ASSUME NEW p \in Proposals, LinkArrives(p) PROVE RowsTyped' /\ RestTyped'
  BY <1>1, <1>12 DEF LinkArrives, rows, history, RowsTyped, RestTyped
<1>13. ASSUME NEW t \in Tasks, CommitSent(t) PROVE RowsTyped' /\ RestTyped'
  <2>1. task[t].p \in Proposals
    BY <1>2, <1>13 DEF CommitSent, At, Owning
  <2>2. PICK f \in FollowUps : about[f] = None /\ about' = [about EXCEPT ![f] = task[t].p]
    BY <1>13 DEF CommitSent
  <2>3. /\ about' \in [FollowUps -> Proposals \cup {None}]
        /\ reminded' \subseteq {g \in FollowUps : about'[g] # None}
    BY <1>1, <1>13, <2>1, <2>2 DEF CommitSent, RowsTyped
  <2>4. /\ lead' \in LeadStatuses /\ raced' \in BOOLEAN
        /\ proposal' \in [Proposals -> ProposalStatuses]
        /\ lastMoved' \in Proposals
        /\ repeated' \subseteq Proposals
    BY <1>4, <1>5, <1>6, <1>13, <2>1 DEF CommitSent
  <2> QED
    BY <1>1, <1>13, <2>3, <2>4 DEF CommitSent, RowsTyped, RestTyped
<1>14. ASSUME NEW f \in FollowUps, Remind(f) PROVE RowsTyped' /\ RestTyped'
  BY <1>1, <1>14 DEF Remind, history, RowsTyped, RestTyped
<1>15. ASSUME NEW t \in Tasks, CommitOutcome(t) PROVE RowsTyped' /\ RestTyped'
  <2>1. task[t].p \in Proposals
    BY <1>2, <1>15 DEF CommitOutcome, At, Owning
  <2>2. /\ lead' \in LeadStatuses /\ raced' \in BOOLEAN
        /\ proposal' \in [Proposals -> ProposalStatuses]
        /\ lastMoved' \in Proposals
        /\ repeated' \subseteq Proposals
    BY <1>3, <1>4, <1>5, <1>6, <1>15, <2>1 DEF CommitOutcome
  <2> QED
    BY <1>1, <1>15, <2>2 DEF CommitOutcome, RowsTyped, RestTyped
<1>16. CASE UNCHANGED <<rows, buttons, history>>
  BY <1>1, <1>16 DEF rows, history, RowsTyped, RestTyped
<1>17. ASSUME NEW t \in Tasks,
              \/ Confirm(t) \/ Propose(t) \/ CommitNotes(t) \/ LoseTask(t)
              \/ \E p \in Proposals : ClickSent(t, p)
              \/ \E f \in FollowUps, outcome \in Outcomes : ClickOutcome(t, f, outcome)
              \/ ReadLead(t, "send", "send commit") \/ ReadLead(t, "answer", "answer commit")
       PROVE  UNCHANGED <<rows, buttons, history>>
  BY <1>17 DEF Confirm, Propose, CommitNotes, LoseTask, ClickSent, ClickOutcome, ReadLead
<1>18. CASE UNCHANGED vars
  BY <1>16, <1>18 DEF vars
<1> QED
  BY <1>7, <1>8, <1>9, <1>10, <1>11, <1>12, <1>13, <1>14, <1>15, <1>16, <1>17, <1>18
  DEF Next, Intake, Qualify, Generate, Send, Answer

LEMMA TypeStep == TypeOK /\ [Next]_vars => TypeOK'
<1>1. TypeOK' <=> RowsTyped' /\ RestTyped' /\ TaskTyped'
  BY TypeParts, PTL
<1> QED
  BY <1>1, TaskTypes, RowTypes

\* Every reachable state is well typed; in particular a task that is sending or
\* answering has a proposal, and only a scheduled follow-up is ever reminded of.
THEOREM TypeCorrect == Spec => []TypeOK
  BY TypeInit, TypeStep, PTL DEF Spec

-----------------------------------------------------------------------------
(***************************************************************************)
(* What a task has read and relies on at its commit.  A row it read may    *)
(* have changed since; these facts about its reading have not, whatever    *)
(* the other tasks did.                                                    *)
(***************************************************************************)

\* A task that sends read a draft; one that answers read a follow-up that was
\* sent, and that follow-up's proposal.
ReadFacts(r) ==
  /\ r.step \in {"send", "send commit"} => r.proposal = "draft"
  /\ r.step \in {"answer", "answer commit"} =>
       r.outcome \in Outcomes /\ r.f \in reminded /\ about[r.f] = r.p

ReadInv == \A t \in Tasks : ReadFacts(task[t])

\* A follow-up once reminded of stays so, and keeps its proposal.
LEMMA RemindedStays ==
  ASSUME TypeOK, [Next]_vars, NEW f \in reminded
  PROVE  f \in reminded' /\ about'[f] = about[f]
<1>1. about[f] # None /\ f \in FollowUps /\ about \in [FollowUps -> Proposals \cup {None}]
  BY DEF TypeOK
<1>2. ASSUME NEW t \in Tasks, CommitSent(t) PROVE f \in reminded' /\ about'[f] = about[f]
  BY <1>1, <1>2 DEF CommitSent
<1>3. ASSUME NEW g \in FollowUps, Remind(g) PROVE f \in reminded' /\ about'[f] = about[f]
  BY <1>3 DEF Remind
<1>4. ASSUME NEW t \in Tasks,
             Intake(t) \/ Qualify(t) \/ Generate(t) \/ CommitNotes(t) \/ CommitOutcome(t)
      PROVE  UNCHANGED <<reminded, about>>
  BY <1>4 DEF Intake, Qualify, Generate, CreateLead, ExtractLead, Reply, Confirm, CommitQualify,
              Propose, CommitDraft, WriteText, CommitNotes, CommitOutcome, rows
<1>5. ASSUME NEW t \in Tasks,
             \/ LoseTask(t)
             \/ \E p \in Proposals : ClickSent(t, p)
             \/ \E h \in FollowUps, outcome \in Outcomes : ClickOutcome(t, h, outcome)
             \/ ReadLead(t, "send", "send commit") \/ ReadLead(t, "answer", "answer commit")
      PROVE  UNCHANGED <<reminded, about>>
  BY <1>5 DEF LoseTask, ClickSent, ClickOutcome, ReadLead, rows
<1>6. ASSUME NEW p \in Proposals, LinkArrives(p) PROVE UNCHANGED <<reminded, about>>
  BY <1>6 DEF LinkArrives, rows
<1>7. CASE UNCHANGED vars
  BY <1>7 DEF vars, rows
<1> QED
  BY <1>2, <1>3, <1>4, <1>5, <1>6, <1>7 DEF Next, Send, Answer

LEMMA ReadStep == TypeOK /\ ReadInv /\ [Next]_vars => ReadInv'
<1> SUFFICES ASSUME TypeOK, ReadInv, [Next]_vars PROVE ReadInv'
  OBVIOUS
<1>1. task \in [Tasks -> Task]
  BY TypeParts DEF TaskTyped
<1>2. \A f \in reminded : f \in reminded' /\ about'[f] = about[f]
  BY RemindedStays
<1>3. ASSUME NEW t \in Tasks, \A v \in Tasks \ {t} : task'[v] = task[v], ReadFacts(task[t])'
      PROVE  ReadInv'
  <2>1. ASSUME NEW v \in Tasks \ {t} PROVE ReadFacts(task[v])'
    <3>1. task'[v] = task[v] /\ ReadFacts(task[v])
      BY <1>3, <2>1 DEF ReadInv
    <3> QED
      BY <3>1, <1>2 DEF ReadFacts
  <2> QED
    BY <1>3, <2>1 DEF ReadInv
<1>4. ASSUME NEW t \in Tasks, \A v \in Tasks \ {t} : task'[v] = task[v],
             task'[t].step \notin {"send", "send commit", "answer", "answer commit"}
      PROVE  ReadInv'
  BY <1>3, <1>4 DEF ReadFacts
<1>5. ASSUME NEW t \in Tasks, Rest(t) PROVE ReadInv'
  BY <1>1, <1>4, <1>5 DEF Rest, Resting
<1>6. ASSUME NEW t \in Tasks,
             \/ CreateLead(t) \/ ExtractLead(t) \/ Confirm(t) \/ Propose(t)
             \/ CommitQualify(t) \/ CommitDraft(t)
      PROVE  ReadInv'
  <2>1. \A v \in Tasks \ {t} : task'[v] = task[v]
    BY <1>1, <1>6 DEF CreateLead, ExtractLead, Confirm, Propose, CommitQualify, CommitDraft
  <2>2. task'[t].step \in {"extract", "intake reply", "qualify", "draft", "qualify reply", "write"}
    <3>1. ASSUME NEW step, task' = [task EXCEPT ![t].step = step]
          PROVE  task'[t].step = step
      BY <1>1, <3>1 DEF Task
    <3>2. CASE CreateLead(t) \/ ExtractLead(t)
      BY <3>1, <3>2 DEF CreateLead, ExtractLead
    <3>3. CASE Confirm(t) \/ Propose(t)
      BY <1>1, <3>3 DEF Confirm, Propose, Task
    <3>4. CASE CommitQualify(t)
      BY <1>1, <3>4 DEF CommitQualify, Resting
    <3>5. CASE CommitDraft(t)
      <4>1. PICK p \in Proposals :
               task' = [task EXCEPT ![t] = [Resting EXCEPT !.step = "write", !.p = p]]
        BY <3>5 DEF CommitDraft
      <4> QED
        BY <1>1, <4>1 DEF Resting
    <3> QED
      BY <1>6, <3>2, <3>3, <3>4, <3>5
  <2> QED
    BY <1>4, <2>1, <2>2
<1>7. ASSUME NEW t \in Tasks, NEW p \in Proposals, ClickSent(t, p) PROVE ReadInv'
  <2>1. /\ \A v \in Tasks \ {t} : task'[v] = task[v]
        /\ task'[t].step = "send" /\ task'[t].proposal = "draft"
    BY <1>1, <1>7 DEF ClickSent, Sendable, Task
  <2> QED
    BY <1>3, <2>1 DEF ReadFacts
<1>8. ASSUME NEW t \in Tasks, NEW f \in FollowUps, NEW outcome \in Outcomes,
             ClickOutcome(t, f, outcome)
      PROVE  ReadInv'
  <2>1. /\ \A v \in Tasks \ {t} : task'[v] = task[v]
        /\ task'[t].step = "answer" /\ task'[t].outcome \in Outcomes
        /\ task'[t].f = f /\ task'[t].p = about[f] /\ f \in reminded
    BY <1>1, <1>8 DEF ClickOutcome, Answerable, Task
  <2> QED
    BY <1>2, <1>3, <2>1 DEF ReadFacts
<1>9. ASSUME NEW t \in Tasks,
             ReadLead(t, "send", "send commit") \/ ReadLead(t, "answer", "answer commit")
      PROVE  ReadInv'
  <2>1. PICK next \in {"send commit", "answer commit"} :
           /\ next = "send commit" => task[t].step = "send"
           /\ next = "answer commit" => task[t].step = "answer"
           /\ task' = [task EXCEPT ![t].step = next, ![t].lead = lead, ![t].linked = linked]
    BY <1>9 DEF ReadLead, At
  <2>2. /\ \A v \in Tasks \ {t} : task'[v] = task[v]
        /\ task'[t].step = next
        /\ task'[t].proposal = task[t].proposal /\ task'[t].outcome = task[t].outcome
        /\ task'[t].f = task[t].f /\ task'[t].p = task[t].p
    BY <1>1, <2>1 DEF Task
  <2>3. ReadFacts(task[t])
    BY DEF ReadInv
  <2>4. ReadFacts(task[t])'
    <3>1. CASE next = "send commit"
      BY <2>1, <2>2, <2>3, <3>1 DEF ReadFacts
    <3>2. CASE next = "answer commit"
      <4>1. task[t].outcome \in Outcomes /\ task[t].f \in reminded /\ about[task[t].f] = task[t].p
        BY <2>1, <2>3, <3>2 DEF ReadFacts
      <4> QED
        BY <1>2, <2>2, <3>2, <4>1 DEF ReadFacts
    <3> QED
      BY <3>1, <3>2
  <2> QED
    BY <1>3, <2>2, <2>4
<1>10. CASE UNCHANGED task
  BY <1>2, <1>10 DEF ReadInv, ReadFacts
<1> QED
  BY <1>5, <1>6, <1>7, <1>8, <1>9, <1>10
  DEF Next, Intake, Qualify, Generate, Send, Answer, Reply, WriteText, CommitSent,
      CommitOutcome, CommitNotes, LoseTask, LinkArrives, Remind, vars

LEMMA ReadInit == Init => ReadInv
<1> SUFFICES ASSUME Init, NEW t \in Tasks PROVE ReadFacts(task[t])
  BY DEF ReadInv
<1>1. task[t].step = "rest"
  BY RestingTask DEF Init
<1> QED
  BY <1>1 DEF ReadFacts

-----------------------------------------------------------------------------
(***************************************************************************)
(* The proposals' statuses.                                                *)
(***************************************************************************)

\* Only the draft, the sending and the answer write a proposal's status.
LEMMA ProposalSteps ==
  [Next]_vars => \/ UNCHANGED proposal
                 \/ \E t \in Tasks : CommitDraft(t) \/ CommitSent(t) \/ CommitOutcome(t)
<1> SUFFICES ASSUME [Next]_vars, ~UNCHANGED proposal
             PROVE  \E t \in Tasks : CommitDraft(t) \/ CommitSent(t) \/ CommitOutcome(t)
  OBVIOUS
<1>1. ASSUME NEW t \in Tasks
      PROVE  /\ ~Intake(t) /\ ~Qualify(t) /\ ~LoseTask(t)
             /\ Generate(t) => CommitDraft(t)
  BY DEF Intake, Qualify, Generate, CreateLead, ExtractLead, Reply, Confirm, CommitQualify,
         Propose, WriteText, LoseTask, rows, history
<1>2. ASSUME NEW t \in Tasks
      PROVE  (Send(t) => CommitSent(t)) /\ (Answer(t) => CommitOutcome(t))
  BY DEF Send, Answer, ClickSent, ClickOutcome, ReadLead, CommitNotes, rows, history
<1>3. /\ ~UNCHANGED vars
      /\ \A p \in Proposals : ~LinkArrives(p)
      /\ \A f \in FollowUps : ~Remind(f)
  BY DEF vars, rows, history, LinkArrives, Remind
<1> QED
  BY <1>1, <1>2, <1>3 DEF Next

\* A commit that moves a proposal read another status before, so it does write
\* it.
LEMMA WriteMoves ==
  ASSUME TypeOK, ReadInv, NEW t \in Tasks, CommitSent(t) \/ CommitOutcome(t)
  PROVE  \E s \in Moved :
           /\ task[t].p \in Proposals
           /\ CommitSent(t) => s = "sent"
           /\ CommitOutcome(t) => /\ s = task[t].outcome
                                  /\ task[t].f \in reminded /\ about[task[t].f] = task[t].p
           /\ proposal' = [proposal EXCEPT ![task[t].p] = s]
<1>1. ReadFacts(task[t])
  BY DEF ReadInv
<1>2. CASE CommitSent(t)
  <2>1. task[t].p \in Proposals /\ task[t].proposal = "draft"
    BY <1>1, <1>2 DEF CommitSent, At, TypeOK, ReadFacts
  <2>2. ~CommitOutcome(t)
    BY <1>2 DEF CommitSent, CommitOutcome, At
  <2> QED
    BY <1>2, <2>1, <2>2 DEF CommitSent, WriteProposal, Moved
<1>3. CASE CommitOutcome(t)
  <2>1. task[t].step = "answer commit" /\ task[t].proposal # task[t].outcome
    BY <1>3 DEF CommitOutcome, At, AlreadyFinal
  <2>2. /\ task[t].p \in Proposals /\ task[t].outcome \in Moved
        /\ task[t].f \in reminded /\ about[task[t].f] = task[t].p
    BY <1>1, <2>1 DEF TypeOK, ReadFacts, Outcomes, Moved
  <2>3. ~CommitSent(t)
    BY <2>1 DEF CommitSent, At
  <2> QED
    BY <1>3, <2>1, <2>2, <2>3 DEF CommitOutcome, WriteProposal
<1> QED
  BY <1>2, <1>3

\* The existential form of what the property says with sets.
LEMMA AnsweredWitness ==
  AnsweredOnlyIfReminded <=>
    \A p \in Proposals : proposal[p] \in Outcomes =>
       \E f \in reminded : f \in FollowUps /\ about[f] = p
  BY DEF AnsweredOnlyIfReminded, ScheduledFor

LEMMA AnsweredStep ==
  TypeOK /\ ReadInv /\ AnsweredOnlyIfReminded /\ [Next]_vars => AnsweredOnlyIfReminded'
<1>0. AnsweredOnlyIfReminded' <=>
        \A p \in Proposals : proposal'[p] \in Outcomes =>
           \E f \in reminded' : f \in FollowUps /\ about'[f] = p
  BY DEF AnsweredOnlyIfReminded, ScheduledFor
<1> SUFFICES ASSUME TypeOK, ReadInv, AnsweredOnlyIfReminded, [Next]_vars,
                    NEW p \in Proposals, proposal'[p] \in Outcomes
             PROVE  \E f \in reminded' : f \in FollowUps /\ about'[f] = p
  BY <1>0
<1>1. CASE proposal[p] \in Outcomes
  <2>1. PICK f \in reminded : f \in FollowUps /\ about[f] = p
    BY <1>1, AnsweredWitness
  <2> QED
    BY <2>1, RemindedStays
<1>2. CASE proposal[p] \notin Outcomes
  <2>1. PICK t \in Tasks : CommitDraft(t) \/ CommitSent(t) \/ CommitOutcome(t)
    BY <1>2, ProposalSteps
  <2>2. ~CommitDraft(t)
    BY <1>2 DEF CommitDraft, TypeOK, Outcomes
  <2>3. PICK s \in Moved :
           /\ task[t].p \in Proposals
           /\ CommitSent(t) => s = "sent"
           /\ CommitOutcome(t) => task[t].f \in reminded /\ about[task[t].f] = task[t].p
           /\ proposal' = [proposal EXCEPT ![task[t].p] = s]
    BY <2>1, <2>2, WriteMoves
  <2>4. p = task[t].p /\ s # "sent"
    BY <1>2, <2>3 DEF TypeOK, Outcomes
  <2>5. task[t].f \in reminded /\ about[task[t].f] = p
    BY <2>1, <2>2, <2>3, <2>4
  <2>6. task[t].f \in FollowUps
    BY <2>5 DEF TypeOK
  <2> QED
    BY <2>5, <2>6, RemindedStays
<1> QED
  BY <1>1, <1>2

\* No proposal has a client's answer before one of its reminders went out and
\* was recorded, whichever tasks overlap.
THEOREM AnswersFollowReminders == Spec => []AnsweredOnlyIfReminded
<1>1. Init => AnsweredOnlyIfReminded
  BY DEF Init, AnsweredOnlyIfReminded, Outcomes
<1> QED
  BY <1>1, TypeInit, TypeStep, ReadInit, ReadStep, AnsweredStep, PTL DEF Spec

-----------------------------------------------------------------------------
(***************************************************************************)
(* The lead's status.  ExtractLead writes "qualifying" without asking what *)
(* the status is now: QualifiedForGood needs that nothing else can happen  *)
(* to the lead while the extractor works.                                  *)
(***************************************************************************)

\* No button, text, follow-up or reminder gives an update anything to work on.
Untouched ==
  /\ buttons = {} /\ written = {} /\ reminded = {}
  /\ \A f \in FollowUps : about[f] = None

IntakeInv ==
  /\ lead = "none" => Untouched /\ \A t \in Tasks : At(t, "rest")
  /\ \A t \in Tasks : At(t, "extract") =>
        lead = "new" /\ Untouched /\ \A u \in Tasks \ {t} : At(u, "rest")

\* A task at rest can only take the lead's first message.
LEMMA RestingTaskStep ==
  ASSUME Untouched, NEW t \in Tasks, At(t, "rest"),
         Intake(t) \/ Qualify(t) \/ Generate(t) \/ Send(t) \/ Answer(t) \/ LoseTask(t)
  PROVE  CreateLead(t)
<1>1. ~Qualify(t) /\ ~Generate(t)
  BY DEF Untouched, At, Qualify, Confirm, CommitQualify, Reply, Generate, Propose, CommitDraft,
         WriteText
<1>2. ~Send(t) /\ ~Answer(t) /\ ~LoseTask(t)
  BY DEF Untouched, At, Send, ClickSent, ReadLead, CommitSent, Answer, ClickOutcome, Answerable,
         CommitOutcome, CommitNotes, LoseTask
<1> QED
  BY <1>1, <1>2 DEF At, Intake, ExtractLead, Reply

LEMMA UntouchedSteps ==
  Untouched => /\ \A p \in Proposals : ~LinkArrives(p)
               /\ \A f \in FollowUps : ~Remind(f)
  BY DEF Untouched, LinkArrives, Remind

\* So before the lead is there, nothing else happens ...
LEMMA OnlyCreate ==
  ASSUME IntakeInv, lead = "none", Next
  PROVE  Untouched /\ \E t \in Tasks : CreateLead(t)
  BY RestingTaskStep, UntouchedSteps DEF IntakeInv, Next

\* ... and while the extractor works, nothing but its answer or its loss.
LEMMA OnlyExtract ==
  ASSUME IntakeInv, NEW t \in Tasks, At(t, "extract"), Next
  PROVE  ExtractLead(t) \/ LoseTask(t)
<1>1. Untouched /\ lead = "new" /\ \A u \in Tasks \ {t} : At(u, "rest")
  BY DEF IntakeInv
<1>2. ~LoseTask(t) => \/ \E u \in Tasks : CreateLead(u)
                      \/ ExtractLead(t)
  <2>1. ASSUME Intake(t) \/ Qualify(t) \/ Generate(t) \/ Send(t) \/ Answer(t)
        PROVE  ExtractLead(t)
    BY <2>1 DEF At, Intake, CreateLead, Reply, Qualify, Confirm, CommitQualify, Generate, Propose,
            CommitDraft, WriteText, Send, ClickSent, ReadLead, CommitSent, Answer,
            ClickOutcome, CommitOutcome, CommitNotes
  <2>2. ASSUME NEW u \in Tasks \ {t},
               Intake(u) \/ Qualify(u) \/ Generate(u) \/ Send(u) \/ Answer(u) \/ LoseTask(u)
        PROVE  CreateLead(u)
    BY <1>1, <2>2, RestingTaskStep
  <2> QED
    BY <1>1, <2>1, <2>2, UntouchedSteps DEF Next
<1> QED
  BY <1>1, <1>2 DEF CreateLead

\* Only the lead's first message starts the extractor.
LEMMA OtherSteps ==
  ASSUME TypeOK, NEW t \in Tasks, NEW u \in Tasks, ~CreateLead(u),
         Intake(u) \/ Qualify(u) \/ Generate(u) \/ Send(u) \/ Answer(u) \/ LoseTask(u),
         task'[t].step = "extract"
  PROVE  task[t].step = "extract"
<1>1. task \in [Tasks -> Task] /\ task[u] \in Task
  BY TypeParts DEF TaskTyped
<1>2. ASSUME Rest(u) PROVE task'[u].step # "extract" /\ (t # u => task'[t] = task[t])
  BY <1>1, <1>2, RestingTask DEF Rest
<1>3. ASSUME ExtractLead(u) \/ Confirm(u) \/ Propose(u)
      PROVE  task'[u].step # "extract" /\ (t # u => task'[t] = task[t])
  <2>1. ExtractLead(u) => task'[u].step # "extract" /\ (t # u => task'[t] = task[t])
    BY <1>1 DEF ExtractLead, Task
  <2>2. Confirm(u) => task'[u].step # "extract" /\ (t # u => task'[t] = task[t])
    BY <1>1 DEF Confirm, Task
  <2>3. Propose(u) => task'[u].step # "extract" /\ (t # u => task'[t] = task[t])
    BY <1>1 DEF Propose, Task
  <2> QED
    BY <1>3, <2>1, <2>2, <2>3
<1>4. ASSUME CommitQualify(u) \/ CommitDraft(u)
      PROVE  task'[u].step # "extract" /\ (t # u => task'[t] = task[t])
  <2>1. CommitQualify(u) => task'[u].step # "extract" /\ (t # u => task'[t] = task[t])
    <3>1. [Resting EXCEPT !.step = "qualify reply"].step = "qualify reply"
      BY DEF Resting
    <3> QED
      BY <1>1, <3>1 DEF CommitQualify
  <2>2. CommitDraft(u) => task'[u].step # "extract" /\ (t # u => task'[t] = task[t])
    BY <1>1, RestingTask DEF CommitDraft, Task
  <2> QED
    BY <1>4, <2>1, <2>2
<1>5. ASSUME \/ \E p \in Proposals : ClickSent(u, p)
             \/ \E f \in FollowUps, outcome \in Outcomes : ClickOutcome(u, f, outcome)
      PROVE  task'[u].step # "extract" /\ (t # u => task'[t] = task[t])
  <2>1. \A p \in Proposals : ClickSent(u, p)
          => task'[u].step # "extract" /\ (t # u => task'[t] = task[t])
    BY <1>1 DEF ClickSent, Task
  <2>2. \A f \in FollowUps, outcome \in Outcomes : ClickOutcome(u, f, outcome)
          => task'[u].step # "extract" /\ (t # u => task'[t] = task[t])
    BY <1>1 DEF ClickOutcome, Task
  <2> QED
    BY <1>5, <2>1, <2>2
<1>6. ASSUME ReadLead(u, "send", "send commit") \/ ReadLead(u, "answer", "answer commit")
      PROVE  task'[u].step # "extract" /\ (t # u => task'[t] = task[t])
  <2>1. PICK next \in {"send commit", "answer commit"} :
           task' = [task EXCEPT ![u].step = next, ![u].lead = lead, ![u].linked = linked]
    BY <1>6 DEF ReadLead
  <2> QED
    BY <1>1, <2>1 DEF Task
<1> QED
  BY <1>2, <1>3, <1>4, <1>5, <1>6
     DEF Intake, Reply, Qualify, Generate, WriteText, Send, CommitSent, Answer, CommitOutcome, CommitNotes,
         LoseTask

LEMMA IntakeStep == TypeOK /\ ReadInv /\ IntakeInv /\ [Next]_vars => IntakeInv'
<1> SUFFICES ASSUME TypeOK, ReadInv, IntakeInv, [Next]_vars PROVE IntakeInv'
  OBVIOUS
<1>1. task \in [Tasks -> Task]
  BY TypeParts DEF TaskTyped
<1>2. CASE UNCHANGED vars
  BY <1>2 DEF vars, rows, history, IntakeInv, Untouched, At
<1>3. CASE Next
  <2>1. lead' # "none"
    <3>1. CASE lead = "none"
      BY <1>3, <3>1, OnlyCreate DEF CreateLead
    <3>2. CASE lead # "none"
      <4>1. ASSUME NEW t \in Tasks, NEW s, WriteLead(t, s), s # "none" PROVE lead' # "none"
        BY <3>2, <4>1 DEF WriteLead
      <4>2. ASSUME NEW t \in Tasks, CommitOutcome(t) PROVE task[t].outcome # "none"
        BY <4>2 DEF ReadInv, ReadFacts, CommitOutcome, At, Outcomes
      <4>3. ASSUME NEW t \in Tasks, Intake(t) \/ Qualify(t) \/ Generate(t) PROVE lead' # "none"
        BY <3>2, <4>1, <4>3 DEF Intake, CreateLead, ExtractLead, Reply, Qualify, Confirm,
           CommitQualify, Generate, Propose, CommitDraft, WriteText, rows
      <4>4. ASSUME NEW t \in Tasks, Send(t) \/ Answer(t) \/ LoseTask(t) PROVE lead' # "none"
        BY <3>2, <4>1, <4>2, <4>4 DEF Send, ClickSent, ReadLead, CommitSent, Answer, ClickOutcome,
           CommitOutcome, CommitNotes, LoseTask, rows
      <4> QED
        BY <1>3, <3>2, <4>3, <4>4 DEF Next, LinkArrives, Remind, rows
    <3> QED
      BY <3>1, <3>2
  <2>2. ASSUME NEW t \in Tasks, At(t, "extract")'
        PROVE  lead' = "new" /\ Untouched' /\ \A u \in Tasks \ {t} : At(u, "rest")'
    <3>1. \E u \in Tasks : CreateLead(u)
      <4>1. ASSUME NEW u \in Tasks, At(u, "extract") PROVE FALSE
        <5>1. ExtractLead(u) \/ LoseTask(u)
          BY <1>3, <4>1, OnlyExtract
        <5>2. \A v \in Tasks \ {u} : At(v, "rest")
          BY <4>1 DEF IntakeInv
        <5>3. task'[u].step # "extract" /\ \A v \in Tasks \ {u} : task'[v] = task[v]
          BY <1>1, <5>1, RestingTask DEF ExtractLead, LoseTask, Rest, Task
        <5> QED
          BY <2>2, <5>2, <5>3 DEF At
      <4>2. ASSUME NEW u \in Tasks, ~CreateLead(u), task'[t].step = "extract",
                   \/ Intake(u) \/ Qualify(u) \/ Generate(u)
                   \/ Send(u) \/ Answer(u) \/ LoseTask(u)
            PROVE  task[t].step = "extract"
        BY <4>2, OtherSteps
      <4>4. ASSUME UNCHANGED task PROVE task[t].step = "extract"
        BY <2>2, <4>4 DEF At
      <4> QED
        BY <1>3, <2>2, <4>1, <4>2, <4>4 DEF At, Next, LinkArrives, Remind
    <3>2. PICK u \in Tasks : CreateLead(u)
      BY <3>1
    <3>3. lead = "none"
      BY <3>2 DEF CreateLead
    <3>4. Untouched /\ \A v \in Tasks : At(v, "rest")
      BY <3>3 DEF IntakeInv
    <3>5. u = t /\ \A v \in Tasks \ {u} : task'[v] = task[v]
      BY <1>1, <2>2, <3>2, <3>4 DEF CreateLead, At
    <3> QED
      BY <3>2, <3>4, <3>5 DEF CreateLead, Untouched, At
  <2> QED
    BY <2>1, <2>2 DEF IntakeInv
<1> QED
  BY <1>2, <1>3

LEMMA IntakeInit == Init => IntakeInv
<1> SUFFICES ASSUME Init PROVE IntakeInv
  OBVIOUS
<1>1. \A t \in Tasks : task[t].step = "rest"
  BY RestingTask DEF Init
<1> QED
  BY <1>1 DEF Init, IntakeInv, Untouched, At

LEMMA QualifiedStep ==
  ASSUME TypeOK, ReadInv, IntakeInv, [Next]_vars, lead \notin Unqualified
  PROVE  lead' \notin Unqualified
<1>1. ASSUME NEW t \in Tasks, NEW s, WriteLead(t, s), s \notin Unqualified
      PROVE  lead' \notin Unqualified
  BY <1>1 DEF WriteLead
<1>2. ASSUME NEW t \in Tasks PROVE ~CreateLead(t) /\ ~ExtractLead(t)
  BY DEF CreateLead, ExtractLead, IntakeInv, Unqualified
<1>3. ASSUME NEW t \in Tasks, CommitOutcome(t) PROVE task[t].outcome \notin Unqualified
  BY <1>3 DEF ReadInv, ReadFacts, CommitOutcome, At, Outcomes, Unqualified
<1>4. "qualified" \notin Unqualified /\ "proposal_sent" \notin Unqualified
  BY DEF Unqualified
<1>5. ASSUME NEW t \in Tasks, Intake(t) \/ Qualify(t) \/ Generate(t)
      PROVE  lead' \notin Unqualified
  BY <1>1, <1>2, <1>4, <1>5 DEF Intake, Reply, Qualify, Confirm, CommitQualify, Generate,
     Propose, CommitDraft, WriteText, rows
<1>6. ASSUME NEW t \in Tasks, Send(t) \/ Answer(t) \/ LoseTask(t)
      PROVE  lead' \notin Unqualified
  BY <1>1, <1>3, <1>4, <1>6 DEF Send, ClickSent, ReadLead, CommitSent, Answer, ClickOutcome,
     CommitOutcome, CommitNotes, LoseTask, rows
<1> QED
  BY <1>5, <1>6 DEF Next, LinkArrives, Remind, rows, vars

\* A lead once qualified is never new or qualifying again, although the intake's
\* second transaction and every confirmation write the status blindly.
THEOREM QualifiedStays == Spec => QualifiedForGood
<1>1. TypeOK /\ ReadInv /\ IntakeInv /\ [Next]_vars
        => [lead \notin Unqualified => lead' \notin Unqualified]_vars
  BY QualifiedStep
<1> QED
  BY <1>1, TypeInit, TypeStep, ReadInit, ReadStep, IntakeInit, IntakeStep, PTL
  DEF Spec, QualifiedForGood

-----------------------------------------------------------------------------
(***************************************************************************)
(* Only what was published can be sent.                                    *)
(***************************************************************************)

\* A proposal has its mark_sent button before anything is done with it, and the
\* button is only made for a text.
ShownInv ==
  /\ \A t \in Tasks : task[t].step \in {"send", "send commit"} => task[t].p \in buttons
  /\ \A f \in FollowUps : about[f] # None => about[f] \in buttons
  /\ \A p \in Proposals : proposal[p] \in Moved => p \in buttons
  /\ \A p \in Proposals : p \in buttons => p \in written

LEMMA ShownInit == Init => ShownInv
<1> SUFFICES ASSUME Init PROVE ShownInv
  OBVIOUS
<1>1. \A t \in Tasks : task[t].step = "rest"
  BY RestingTask DEF Init
<1> QED
  BY <1>1 DEF Init, ShownInv, Moved

\* Buttons and texts stay.
LEMMA ShownStays ==
  ASSUME [Next]_vars
  PROVE  buttons \subseteq buttons' /\ written \subseteq written'
<1>1. ASSUME NEW t \in Tasks, Intake(t) \/ Qualify(t) \/ Generate(t)
      PROVE  buttons \subseteq buttons' /\ written \subseteq written'
  BY <1>1 DEF Intake, Qualify, Generate, CreateLead, ExtractLead, Reply, Confirm, CommitQualify,
              Propose, CommitDraft, WriteText, rows
<1>2. ASSUME NEW t \in Tasks, Send(t) \/ Answer(t) \/ LoseTask(t)
      PROVE  buttons \subseteq buttons' /\ written \subseteq written'
  BY <1>2 DEF Send, Answer, ClickSent, ReadLead, CommitSent, ClickOutcome, CommitOutcome,
              CommitNotes, LoseTask, rows
<1> QED
  BY <1>1, <1>2 DEF Next, LinkArrives, Remind, vars, rows

\* A link is the only message with a proposal's button.
LEMMA ShownByLink ==
  ASSUME [Next]_vars, NEW p \in Proposals, p \in buttons'
  PROVE  p \in buttons \/ p \in written
<1>0. p # "confirm" /\ p # "propose"
  BY LeadWorkflowAssumption
<1>1. ASSUME NEW t \in Tasks, Intake(t) \/ Qualify(t) \/ Generate(t)
      PROVE  p \in buttons
  BY <1>0, <1>1 DEF Intake, Qualify, Generate, CreateLead, ExtractLead, Reply, Confirm,
              CommitQualify, Propose, CommitDraft, WriteText
<1>2. ASSUME NEW t \in Tasks, Send(t) \/ Answer(t) \/ LoseTask(t)
      PROVE  p \in buttons
  BY <1>2 DEF Send, Answer, ClickSent, ReadLead, CommitSent, ClickOutcome, CommitOutcome,
              CommitNotes, LoseTask
<1> QED
  BY <1>1, <1>2 DEF Next, LinkArrives, Remind, vars

\* A task that sends was started by the button, and keeps its proposal.
LEMMA SendingStep ==
  ASSUME TypeOK, [Next]_vars, NEW t \in Tasks, task'[t].step \in {"send", "send commit"}
  PROVE  \/ task'[t].p \in buttons
         \/ task[t].step \in {"send", "send commit"} /\ task'[t].p = task[t].p
<1> DEFINE Fine == \/ task'[t].p \in buttons
                   \/ task[t].step \in {"send", "send commit"} /\ task'[t].p = task[t].p
<1>1. task \in [Tasks -> Task]
  BY TypeParts DEF TaskTyped
<1>2. CASE task'[t] = task[t]
  BY <1>2
<1>3. ASSUME NEW u \in Tasks, Rest(u) PROVE Fine
  BY <1>1, <1>2, <1>3, RestingTask DEF Rest
<1>4. ASSUME NEW u \in Tasks, CreateLead(u) PROVE Fine
  <2>1. (\A v \in Tasks \ {u} : task'[v] = task[v]) /\ task'[u].step = "extract"
    BY <1>1, <1>4 DEF CreateLead, Task
  <2> QED
    BY <1>2, <2>1
<1>5. ASSUME NEW u \in Tasks, ExtractLead(u) PROVE Fine
  <2>1. (\A v \in Tasks \ {u} : task'[v] = task[v]) /\ task'[u].step = "intake reply"
    BY <1>1, <1>5 DEF ExtractLead, Task
  <2> QED
    BY <1>2, <2>1
<1>6. ASSUME NEW u \in Tasks, Confirm(u) \/ Propose(u) PROVE Fine
  <2>1. CASE Confirm(u)
    <3>1. (\A v \in Tasks \ {u} : task'[v] = task[v]) /\ task'[u].step = "qualify"
      BY <1>1, <2>1 DEF Confirm, Task
    <3> QED
      BY <1>2, <3>1
  <2>2. CASE Propose(u)
    <3>1. (\A v \in Tasks \ {u} : task'[v] = task[v]) /\ task'[u].step = "draft"
      BY <1>1, <2>2 DEF Propose, Task
    <3> QED
      BY <1>2, <3>1
  <2> QED
    BY <1>6, <2>1, <2>2
<1>7. ASSUME NEW u \in Tasks, CommitQualify(u) PROVE Fine
  BY <1>1, <1>2, <1>7 DEF CommitQualify, Resting
<1>8. ASSUME NEW u \in Tasks, CommitDraft(u) PROVE Fine
  <2>1. PICK p \in Proposals :
           task' = [task EXCEPT ![u] = [Resting EXCEPT !.step = "write", !.p = p]]
    BY <1>8 DEF CommitDraft
  <2> QED
    BY <1>1, <1>2, <2>1 DEF Resting
<1>9. ASSUME NEW u \in Tasks, NEW p \in Proposals, ClickSent(u, p) PROVE Fine
  <2>1. (\A v \in Tasks \ {u} : task'[v] = task[v]) /\ task'[u].p = p /\ p \in buttons
    BY <1>1, <1>9 DEF ClickSent, Task
  <2> QED
    BY <1>2, <2>1
<1>10. ASSUME NEW u \in Tasks, NEW f \in FollowUps, NEW outcome \in Outcomes,
              ClickOutcome(u, f, outcome)
       PROVE  Fine
  <2>1. \A v \in Tasks \ {u} : task'[v] = task[v]
    BY <1>1, <1>10 DEF ClickOutcome
  <2>2. task'[u].step = "answer"
    BY <1>1, <1>10 DEF ClickOutcome, Task
  <2> QED
    BY <1>2, <2>1, <2>2
<1>11. ASSUME NEW u \in Tasks, ReadLead(u, "send", "send commit") PROVE Fine
  <2>1. /\ \A v \in Tasks \ {u} : task'[v] = task[v]
        /\ task'[u].p = task[u].p /\ task[u].step = "send"
    BY <1>1, <1>11 DEF ReadLead, At, Task
  <2> QED
    BY <1>2, <2>1
<1>12. ASSUME NEW u \in Tasks, ReadLead(u, "answer", "answer commit") PROVE Fine
  <2>1. (\A v \in Tasks \ {u} : task'[v] = task[v]) /\ task'[u].step = "answer commit"
    BY <1>1, <1>12 DEF ReadLead, Task
  <2> QED
    BY <1>2, <2>1
<1> QED
  BY <1>2, <1>3, <1>4, <1>5, <1>6, <1>7, <1>8, <1>9, <1>10, <1>11, <1>12
  DEF Next, Intake, Qualify, Generate, Send, Answer, Reply, WriteText, CommitSent,
      CommitOutcome, CommitNotes, LoseTask, LinkArrives, Remind, vars

LEMMA ShownStep == TypeOK /\ ReadInv /\ ShownInv /\ [Next]_vars => ShownInv'
<1> SUFFICES ASSUME TypeOK, ReadInv, ShownInv, [Next]_vars PROVE ShownInv'
  OBVIOUS
<1>1. buttons \subseteq buttons' /\ written \subseteq written'
  BY ShownStays
<1>2. ASSUME NEW t \in Tasks, task'[t].step \in {"send", "send commit"}
      PROVE  task'[t].p \in buttons'
  BY <1>1, <1>2, SendingStep DEF ShownInv
<1>3. ASSUME NEW f \in FollowUps, about'[f] # None
      PROVE  about'[f] \in buttons'
  <2>1. CASE about' = about
    BY <1>1, <1>3, <2>1 DEF ShownInv
  <2>2. ASSUME NEW t \in Tasks, CommitSent(t) PROVE about'[f] \in buttons'
    <3>1. task[t].p \in buttons
      BY <2>2 DEF CommitSent, At, ShownInv
    <3>2. about'[f] = about[f] \/ about'[f] = task[t].p
      BY <2>2 DEF CommitSent, TypeOK
    <3> QED
      BY <1>1, <1>3, <3>1, <3>2 DEF ShownInv
  <2>3. ASSUME NEW t \in Tasks, Intake(t) \/ Qualify(t) \/ Generate(t) PROVE about' = about
    BY <2>3 DEF Intake, Qualify, Generate, CreateLead, ExtractLead, Reply, Confirm, CommitQualify,
                Propose, CommitDraft, WriteText, rows
  <2>4. ASSUME NEW t \in Tasks, Send(t) \/ Answer(t) \/ LoseTask(t), ~CommitSent(t)
        PROVE  about' = about
    BY <2>4 DEF Send, Answer, ClickSent, ReadLead, ClickOutcome, CommitOutcome, CommitNotes,
                LoseTask, rows
  <2> QED
    BY <2>1, <2>2, <2>3, <2>4 DEF Next, LinkArrives, Remind, vars, rows
<1>4. ASSUME NEW p \in Proposals, proposal'[p] \in Moved
      PROVE  p \in buttons'
  <2>1. CASE proposal[p] \in Moved
    BY <1>1, <2>1 DEF ShownInv
  <2>2. CASE proposal[p] \notin Moved
    <3>1. PICK t \in Tasks : CommitDraft(t) \/ CommitSent(t) \/ CommitOutcome(t)
      BY <1>4, <2>2, ProposalSteps
    <3>2. ~CommitDraft(t)
      BY <1>4, <2>2 DEF CommitDraft, TypeOK, Moved
    <3>3. p = task[t].p
      BY <1>4, <2>2, <3>1, <3>2, WriteMoves DEF TypeOK
    <3>4. CASE CommitSent(t)
      BY <1>1, <3>3, <3>4 DEF CommitSent, At, ShownInv
    <3>5. CASE CommitOutcome(t)
      <4>1. task[t].f \in reminded /\ about[task[t].f] = p
        BY <3>3, <3>5, WriteMoves
      <4> QED
        BY <1>1, <4>1 DEF TypeOK, ShownInv
    <3> QED
      BY <3>1, <3>2, <3>4, <3>5
  <2> QED
    BY <2>1, <2>2
<1>5. ASSUME NEW p \in Proposals, p \in buttons' PROVE p \in written'
  BY <1>1, <1>5, ShownByLink DEF ShownInv
<1> QED
  BY <1>2, <1>3, <1>4, <1>5 DEF ShownInv

LEMMA ShownHolds == Spec => []ShownInv
  BY TypeInit, TypeStep, ReadInit, ReadStep, ShownInit, ShownStep, PTL DEF Spec

\* A lead that is past "qualified" has a follow-up.
Past == {"proposal_sent"} \cup Outcomes

LeadHasFollowUp == lead \in Past => \E f \in FollowUps : about[f] # None

LEMMA FollowUpStep ==
  TypeOK /\ ReadInv /\ LeadHasFollowUp /\ [Next]_vars => LeadHasFollowUp'
<1> SUFFICES ASSUME TypeOK, ReadInv, LeadHasFollowUp, [Next]_vars, lead' \in Past
             PROVE  \E f \in FollowUps : about'[f] # None
  BY DEF LeadHasFollowUp
<1>1. ASSUME NEW t \in Tasks, CommitSent(t) PROVE \E f \in FollowUps : about'[f] # None
  <2>1. task[t].p \in Proposals
    BY <1>1 DEF CommitSent, At, TypeOK
  <2>2. PICK f \in FollowUps : about' = [about EXCEPT ![f] = task[t].p]
    BY <1>1 DEF CommitSent
  <2>3. about'[f] = task[t].p
    BY <2>2 DEF TypeOK
  <2> QED
    BY <2>1, <2>3, LeadWorkflowAssumption
<1>2. ASSUME NEW t \in Tasks, CommitOutcome(t) PROVE \E f \in FollowUps : about'[f] # None
  <2>1. task[t].f \in reminded
    BY <1>2 DEF CommitOutcome, At, ReadInv, ReadFacts
  <2> QED
    BY <1>2, <2>1 DEF CommitOutcome, TypeOK
<1>3. ASSUME NEW t \in Tasks, Intake(t) \/ Qualify(t) \/ Generate(t)
      PROVE  about' = about /\ (lead' = lead \/ lead' \in {"new", "qualifying", "qualified"})
  BY <1>3 DEF Intake, Qualify, Generate, CreateLead, ExtractLead, Reply, Confirm, CommitQualify,
              WriteLead, Propose, CommitDraft, WriteText, rows
<1>4. ASSUME NEW t \in Tasks, Send(t) \/ Answer(t) \/ LoseTask(t), ~CommitSent(t), ~CommitOutcome(t)
      PROVE  about' = about /\ lead' = lead
  BY <1>4 DEF Send, Answer, ClickSent, ReadLead, ClickOutcome, CommitNotes, LoseTask, rows
<1>5. ASSUME about' = about, lead' = lead \/ lead' \in {"new", "qualifying", "qualified"}
      PROVE  \E f \in FollowUps : about'[f] # None
  BY <1>5 DEF LeadHasFollowUp, Past, Outcomes
<1> QED
  BY <1>1, <1>2, <1>3, <1>4, <1>5 DEF Next, LinkArrives, Remind, vars, rows

LEMMA FollowUpHolds == Spec => []LeadHasFollowUp
<1>1. Init => LeadHasFollowUp
  BY DEF Init, LeadHasFollowUp, Past, Outcomes
<1> QED
  BY <1>1, TypeInit, TypeStep, ReadInit, ReadStep, FollowUpStep, PTL DEF Spec

-----------------------------------------------------------------------------
(***************************************************************************)
(* What holds as long as no commit was based on a stale read.  The flag    *)
(* `raced' only tells whether one was: a commit that leaves it FALSE was   *)
(* made on rows that still are what the task read, so what it decided on   *)
(* its own reading it decided on the rows.                                 *)
(***************************************************************************)

\* Under any race: a proposal once moved stays so, and so does one with a
\* follow-up; no client is made without the link to it; and a task that
\* qualifies read a lead that may be qualified.
MovedInv ==
  /\ lastMoved # None => proposal[lastMoved] \in Moved /\ \E f \in FollowUps : about[f] # None
  /\ \A f \in FollowUps : about[f] # None => proposal[about[f]] \in Moved
  /\ ~linked => clients = 0
  /\ \A t \in Tasks : At(t, "qualify") => task[t].lead \in Qualifiable

\* The follow-ups' part of OneFollowUpUnlessRaced, without a cardinality.
OneEach == \A f, g \in FollowUps : about[f] = about[g] /\ about[f] # None => f = g

UnracedInv ==
  ~raced => /\ lastMoved # None => lead = LeadStatusFor(proposal[lastMoved])
            /\ repeated = {}
            /\ OneEach
            /\ clients <= 1

\* The steps that write what the two invariants are about.
LEMMA WritingSteps ==
  [Next]_vars =>
    \/ UNCHANGED <<lead, clients, linked, proposal, about, history>>
    \/ \E t \in Tasks : \/ CreateLead(t) \/ ExtractLead(t) \/ CommitQualify(t)
                        \/ CommitDraft(t) \/ CommitSent(t) \/ CommitOutcome(t)
<1> SUFFICES ASSUME [Next]_vars,
                    \A t \in Tasks : /\ ~CreateLead(t) /\ ~ExtractLead(t) /\ ~CommitQualify(t)
                                     /\ ~CommitDraft(t) /\ ~CommitSent(t) /\ ~CommitOutcome(t)
             PROVE  UNCHANGED <<lead, clients, linked, proposal, about, history>>
  OBVIOUS
<1>1. ASSUME NEW t \in Tasks, Intake(t) \/ Qualify(t) \/ Generate(t)
      PROVE  UNCHANGED <<lead, clients, linked, proposal, about, history>>
  BY <1>1 DEF Intake, Qualify, Generate, Reply, Confirm, Propose, WriteText, rows
<1>2. ASSUME NEW t \in Tasks, Send(t) \/ Answer(t) \/ LoseTask(t)
      PROVE  UNCHANGED <<lead, clients, linked, proposal, about, history>>
  BY <1>2 DEF Send, Answer, ClickSent, ReadLead, ClickOutcome, CommitNotes, LoseTask, rows
<1> QED
  BY <1>1, <1>2 DEF Next, LinkArrives, Remind, vars, rows

\* A task that qualifies was started by a lead that may be, and keeps its reading.
LEMMA QualifyingStep ==
  ASSUME TypeOK, [Next]_vars, NEW t \in Tasks, task'[t].step = "qualify"
  PROVE  \/ task'[t].lead \in Qualifiable
         \/ task'[t] = task[t]
<1> DEFINE Fine == \/ task'[t].lead \in Qualifiable
                   \/ task'[t] = task[t]
<1>1. task \in [Tasks -> Task]
  BY TypeParts DEF TaskTyped
<1>2. CASE task'[t] = task[t]
  BY <1>2
<1>3. ASSUME NEW u \in Tasks, \A v \in Tasks \ {u} : task'[v] = task[v],
             task'[u].step # "qualify"
      PROVE  Fine
  BY <1>2, <1>3
<1>4. ASSUME NEW u \in Tasks, Rest(u) PROVE Fine
  BY <1>1, <1>3, <1>4, RestingTask DEF Rest
<1>5. ASSUME NEW u \in Tasks, CreateLead(u) \/ ExtractLead(u) PROVE Fine
  <2>1. PICK s \in {"extract", "intake reply"} : task' = [task EXCEPT ![u].step = s]
    BY <1>5 DEF CreateLead, ExtractLead
  <2>2. (\A v \in Tasks \ {u} : task'[v] = task[v]) /\ task'[u].step = s
    BY <1>1, <2>1 DEF Task
  <2> QED
    BY <1>3, <2>2
<1>6. ASSUME NEW u \in Tasks, Confirm(u) PROVE Fine
  <2>1. /\ \A v \in Tasks \ {u} : task'[v] = task[v]
        /\ task'[u].lead = lead /\ lead \in Qualifiable
    BY <1>1, <1>6 DEF Confirm, Task
  <2> QED
    BY <1>2, <2>1
<1>7. ASSUME NEW u \in Tasks, CommitQualify(u) PROVE Fine
  BY <1>1, <1>3, <1>7 DEF CommitQualify, Resting
<1>8. ASSUME NEW u \in Tasks, Propose(u) PROVE Fine
  <2>1. (\A v \in Tasks \ {u} : task'[v] = task[v]) /\ task'[u].step = "draft"
    BY <1>1, <1>8 DEF Propose, Task
  <2> QED
    BY <1>3, <2>1
<1>9. ASSUME NEW u \in Tasks, CommitDraft(u) PROVE Fine
  <2>1. PICK p \in Proposals :
           task' = [task EXCEPT ![u] = [Resting EXCEPT !.step = "write", !.p = p]]
    BY <1>9 DEF CommitDraft
  <2> QED
    BY <1>1, <1>3, <2>1 DEF Resting
<1>10. ASSUME NEW u \in Tasks, NEW p \in Proposals, ClickSent(u, p) PROVE Fine
  <2>1. (\A v \in Tasks \ {u} : task'[v] = task[v]) /\ task'[u].step = "send"
    BY <1>1, <1>10 DEF ClickSent, Task
  <2> QED
    BY <1>3, <2>1
<1>11. ASSUME NEW u \in Tasks, NEW f \in FollowUps, NEW outcome \in Outcomes,
              ClickOutcome(u, f, outcome)
       PROVE  Fine
  <2>1. \A v \in Tasks \ {u} : task'[v] = task[v]
    BY <1>1, <1>11 DEF ClickOutcome
  <2>2. task'[u].step = "answer"
    BY <1>1, <1>11 DEF ClickOutcome, Task
  <2> QED
    BY <1>3, <2>1, <2>2
<1>12. ASSUME NEW u \in Tasks,
              ReadLead(u, "send", "send commit") \/ ReadLead(u, "answer", "answer commit")
       PROVE  Fine
  <2>1. PICK s \in {"send commit", "answer commit"} :
           task' = [task EXCEPT ![u].step = s, ![u].lead = lead, ![u].linked = linked]
    BY <1>12 DEF ReadLead
  <2>2. (\A v \in Tasks \ {u} : task'[v] = task[v]) /\ task'[u].step = s
    BY <1>1, <2>1 DEF Task
  <2> QED
    BY <1>3, <2>2
<1> QED
  BY <1>2, <1>4, <1>5, <1>6, <1>7, <1>8, <1>9, <1>10, <1>11, <1>12
  DEF Next, Intake, Qualify, Generate, Send, Answer, Reply, WriteText, CommitSent,
      CommitOutcome, CommitNotes, LoseTask, LinkArrives, Remind, vars

\* The flag stays once it is set, and a commit that leaves it unset read rows
\* that have not changed since.
LEMMA FreshCommit ==
  ASSUME NEW t \in Tasks, CommitHistory(t), ~raced'
  PROVE  /\ ~raced
         /\ task[t].lead = lead /\ task[t].linked = linked
         /\ task[t].p # None => task[t].proposal = proposal[task[t].p]
  BY DEF CommitHistory, Stale

LEMMA RacedStays == [Next]_vars /\ raced => raced'
  BY WritingSteps DEF history, CreateLead, ExtractLead, CommitQualify, CommitDraft, CommitSent,
     CommitOutcome, CommitHistory

LEMMA MovedInit == Init => MovedInv
<1> SUFFICES ASSUME Init PROVE MovedInv
  OBVIOUS
<1>1. \A t \in Tasks : task[t].step = "rest"
  BY RestingTask DEF Init
<1> QED
  BY <1>1 DEF Init, MovedInv, At

LEMMA MovedStep ==
  TypeOK /\ ReadInv /\ IntakeInv /\ MovedInv /\ [Next]_vars => MovedInv'
<1> SUFFICES ASSUME TypeOK, ReadInv, IntakeInv, MovedInv, [Next]_vars PROVE MovedInv'
  OBVIOUS
<1>1. /\ proposal \in [Proposals -> ProposalStatuses]
      /\ about \in [FollowUps -> Proposals \cup {None}]
      /\ lastMoved \in Proposals \cup {None}
  BY DEF TypeOK
<1>2. ASSUME NEW t \in Tasks, At(t, "qualify")' PROVE task'[t].lead \in Qualifiable
  BY <1>2, QualifyingStep DEF MovedInv, At
<1> DEFINE Ahead == /\ lastMoved # None => /\ proposal[lastMoved] \in Moved
                                           /\ \E f \in FollowUps : about[f] # None
                    /\ \A f \in FollowUps : about[f] # None => proposal[about[f]] \in Moved
           Linked == ~linked => clients = 0
<1>3. Ahead /\ Linked
  BY DEF MovedInv
<1>4. CASE UNCHANGED <<lead, clients, linked, proposal, about, history>>
  BY <1>3, <1>2, <1>4 DEF MovedInv, history
<1>5. ASSUME NEW t \in Tasks, CreateLead(t) \/ ExtractLead(t) PROVE MovedInv'
  <2>1. UNCHANGED <<clients, linked, proposal, about, history>>
    BY <1>5 DEF CreateLead, ExtractLead
  <2> QED
    BY <1>3, <1>2, <2>1 DEF MovedInv, history
<1>6. ASSUME NEW t \in Tasks, CommitQualify(t) PROVE MovedInv'
  <2>1. Linked'
    BY <1>3, <1>6 DEF CommitQualify, AddClient
  <2>2. UNCHANGED <<proposal, about, lastMoved>>
    BY <1>6 DEF CommitQualify
  <2>3. Ahead'
    BY <1>3, <2>2
  <2> QED
    BY <1>2, <2>1, <2>3 DEF MovedInv
<1>7. ASSUME NEW t \in Tasks, CommitDraft(t) PROVE MovedInv'
  <2>1. UNCHANGED <<clients, linked, about, lastMoved>>
    BY <1>7 DEF CommitDraft
  <2>2. PICK p \in Proposals : proposal[p] = "none" /\ proposal' = [proposal EXCEPT ![p] = "draft"]
    BY <1>7 DEF CommitDraft
  <2>3. \A q \in Proposals : proposal[q] \in Moved => proposal'[q] = proposal[q]
    BY <1>1, <2>2 DEF Moved
  <2>4. Ahead'
    BY <1>1, <1>3, <2>1, <2>3
  <2> QED
    BY <1>3, <1>2, <2>1, <2>4 DEF MovedInv
<1>8. ASSUME NEW t \in Tasks, CommitSent(t) \/ CommitOutcome(t) PROVE MovedInv'
  <2>1. PICK s \in Moved :
           /\ task[t].p \in Proposals
           /\ CommitOutcome(t) => task[t].f \in reminded /\ about[task[t].f] = task[t].p
           /\ proposal' = [proposal EXCEPT ![task[t].p] = s]
    BY <1>8, WriteMoves
  <2>2. task[t].p # None
    BY <2>1, LeadWorkflowAssumption
  <2>3. UNCHANGED <<clients, linked>> /\ lastMoved' = task[t].p
    BY <1>8 DEF CommitSent, CommitOutcome, WriteProposal
  <2>4. proposal'[task[t].p] \in Moved
    BY <1>1, <2>1
  <2>5. \A q \in Proposals : proposal[q] \in Moved => proposal'[q] \in Moved
    BY <1>1, <2>1
  <2>6. /\ \E f \in FollowUps : about'[f] # None
        /\ \A f \in FollowUps : about'[f] = about[f] \/ about'[f] = task[t].p
    <3>1. CASE CommitSent(t)
      BY <1>1, <2>2, <3>1 DEF CommitSent
    <3>2. CASE CommitOutcome(t)
      BY <2>1, <2>2, <3>2 DEF CommitOutcome, TypeOK
    <3> QED
      BY <1>8, <3>1, <3>2
  <2>7. Ahead'
    BY <1>1, <1>3, <2>3, <2>4, <2>5, <2>6
  <2> QED
    BY <1>3, <1>2, <2>3, <2>7 DEF MovedInv
<1> QED
  BY <1>4, <1>5, <1>6, <1>7, <1>8, WritingSteps

\* Nothing has moved while a first message or the extractor is at work.
LEMMA IntakeUnmoved ==
  ASSUME IntakeInv, MovedInv, NEW t \in Tasks, CreateLead(t) \/ ExtractLead(t)
  PROVE  lastMoved = None
<1>1. Untouched
  BY DEF IntakeInv, CreateLead, ExtractLead
<1> QED
  BY <1>1 DEF Untouched, MovedInv

LEMMA UnracedInit == Init => UnracedInv
  BY DEF Init, UnracedInv, OneEach

\* A qualification that is not raced finds the lead not yet past it.
LEMMA UnracedQualify ==
  ASSUME TypeOK, MovedInv, UnracedInv, NEW t \in Tasks, CommitQualify(t), ~raced'
  PROVE  UnracedInv' /\ lead \in Qualifiable
<1>1. ~raced /\ task[t].lead = lead /\ task[t].linked = linked
  BY FreshCommit DEF CommitQualify
<1>2. lead \in Qualifiable
  BY <1>1 DEF CommitQualify, MovedInv
<1>3. lastMoved = None
  BY <1>1, <1>2 DEF UnracedInv, MovedInv, LeadStatusFor, Moved, Qualifiable
<1>4. clients' <= 1
  <2>1. clients \in 0 .. 2 /\ clients <= 1
    BY <1>1 DEF TypeOK, UnracedInv
  <2>2. CASE NeedsClient(t)
    <3>1. clients = 0
      BY <1>1, <2>2 DEF NeedsClient, MovedInv
    <3>2. clients' = 0 \/ clients' = 0 + 1
      BY <3>1 DEF CommitQualify, AddClient
    <3> QED
      BY <3>2
  <2>3. CASE ~NeedsClient(t)
    <3>1. clients' = clients
      BY <2>3 DEF CommitQualify, AddClient
    <3> QED
      BY <2>1, <3>1
  <2> QED
    BY <2>2, <2>3
<1>5. UNCHANGED <<about, lastMoved, repeated>>
  BY DEF CommitQualify
<1> QED
  BY <1>1, <1>2, <1>3, <1>4, <1>5 DEF UnracedInv, OneEach

\* A sending that is not raced finds the proposal a draft, hence without a
\* follow-up; an answer that is not raced finds it without that answer.  Both
\* leave the lead with the status that goes with the proposal's.
LEMMA UnracedMove ==
  ASSUME TypeOK, ReadInv, MovedInv, UnracedInv,
         NEW t \in Tasks, CommitSent(t) \/ CommitOutcome(t), ~raced'
  PROVE  UnracedInv'
<1>1. PICK s \in Moved :
         /\ task[t].p \in Proposals
         /\ CommitSent(t) => s = "sent"
         /\ CommitOutcome(t) => s = task[t].outcome
         /\ proposal' = [proposal EXCEPT ![task[t].p] = s]
  BY WriteMoves
<1>2. task[t].p # None
  BY <1>1, LeadWorkflowAssumption
<1>3. ~raced /\ task[t].lead = lead /\ task[t].proposal = proposal[task[t].p]
  BY <1>2, FreshCommit DEF CommitSent, CommitOutcome
<1>4. proposal'[task[t].p] = s
  BY <1>1 DEF TypeOK
<1>5. /\ lastMoved' = task[t].p
      /\ clients' = clients
      /\ proposal[task[t].p] # s => repeated' = repeated
  BY <1>1 DEF CommitSent, CommitOutcome, WriteProposal
<1>6. proposal[task[t].p] # s /\ (CommitSent(t) => proposal[task[t].p] = "draft")
  <2>1. CASE CommitSent(t)
    BY <1>1, <1>3, <2>1 DEF CommitSent, At, ReadInv, ReadFacts
  <2>2. CASE CommitOutcome(t)
    <3>1. ~CommitSent(t)
      BY <2>2 DEF CommitSent, CommitOutcome, At
    <3> QED
      BY <1>1, <1>3, <2>2, <3>1 DEF CommitOutcome, AlreadyFinal
  <2> QED
    BY <2>1, <2>2
<1>7. repeated' = {}
  BY <1>3, <1>5, <1>6 DEF UnracedInv
<1>8. lead' = LeadStatusFor(s)
  <2>1. CASE CommitSent(t)
    BY <1>1, <1>3, <2>1 DEF CommitSent, WriteLead, LeadStatusFor
  <2>2. CASE CommitOutcome(t)
    <3>1. s = task[t].outcome /\ s # "sent"
      BY <1>1, <2>2 DEF CommitOutcome, At, ReadInv, ReadFacts, Outcomes
    <3> QED
      BY <1>3, <2>2, <3>1 DEF CommitOutcome, WriteLead, LeadStatusFor
  <2> QED
    BY <2>1, <2>2
<1>9. OneEach'
  <2>1. OneEach /\ about \in [FollowUps -> Proposals \cup {None}]
    BY <1>3 DEF UnracedInv, TypeOK
  <2>2. CASE CommitSent(t)
    <3>1. PICK h \in FollowUps : about' = [about EXCEPT ![h] = task[t].p]
      BY <2>2 DEF CommitSent
    <3>2. \A f \in FollowUps : about[f] # task[t].p
      BY <1>2, <1>6, <2>2 DEF MovedInv, Moved
    <3>3. about'[h] = task[t].p /\ \A f \in FollowUps \ {h} : about'[f] = about[f]
      BY <2>1, <3>1
    <3> QED
      BY <2>1, <3>2, <3>3 DEF OneEach
  <2>3. CASE CommitOutcome(t)
    BY <2>1, <2>3 DEF CommitOutcome, OneEach
  <2> QED
    BY <2>2, <2>3
<1>10. clients' <= 1
  BY <1>3, <1>5 DEF UnracedInv
<1> QED
  BY <1>4, <1>5, <1>7, <1>8, <1>9, <1>10 DEF UnracedInv

LEMMA UnracedStep ==
  /\ TypeOK /\ ReadInv /\ IntakeInv /\ MovedInv /\ UnracedInv
  /\ [Next]_vars
  => UnracedInv'
<1> SUFFICES ASSUME TypeOK, ReadInv, IntakeInv, MovedInv, UnracedInv,
                    [Next]_vars, ~raced'
             PROVE  UnracedInv'
  BY DEF UnracedInv
<1>1. ~raced
  BY RacedStays
<1>2. CASE UNCHANGED <<lead, clients, linked, proposal, about, history>>
  BY <1>1, <1>2 DEF UnracedInv, OneEach, history
<1>3. ASSUME NEW t \in Tasks, CreateLead(t) \/ ExtractLead(t) PROVE UnracedInv'
  <2>1. lastMoved = None
    BY <1>3, IntakeUnmoved
  <2>2. UNCHANGED <<clients, about, history>>
    BY <1>3 DEF CreateLead, ExtractLead
  <2> QED
    BY <1>1, <2>1, <2>2 DEF UnracedInv, OneEach, history
<1>4. ASSUME NEW t \in Tasks, CommitDraft(t) PROVE UnracedInv'
  <2>1. PICK p \in Proposals : proposal[p] = "none" /\ proposal' = [proposal EXCEPT ![p] = "draft"]
    BY <1>4 DEF CommitDraft
  <2>2. UNCHANGED <<lead, clients, about, lastMoved, repeated>>
    BY <1>4 DEF CommitDraft
  <2>3. lastMoved # None => lastMoved # p /\ lastMoved \in Proposals
    BY <2>1 DEF MovedInv, Moved, TypeOK
  <2>4. lastMoved # None => proposal'[lastMoved] = proposal[lastMoved]
    BY <2>1, <2>3 DEF TypeOK
  <2> QED
    BY <1>1, <2>2, <2>4 DEF UnracedInv, OneEach
<1> QED
  BY <1>2, <1>3, <1>4, UnracedQualify, UnracedMove, WritingSteps

LEMMA UnracedHolds == Spec => []UnracedInv
  BY TypeInit, TypeStep, ReadInit, ReadStep, IntakeInit, IntakeStep,
     MovedInit, MovedStep, UnracedInit, UnracedStep, PTL DEF Spec

\* Unless a commit was based on a stale read, the lead's status is the one that
\* goes with the proposal moved last, for mark_proposal_sent and
\* record_follow_up_result write both rows in one transaction.
THEOREM LeadFollows == Spec => []LeadFollowsUnlessRaced
<1>1. UnracedInv => LeadFollowsUnlessRaced
  BY DEF UnracedInv, LeadFollowsUnlessRaced
<1> QED
  BY <1>1, UnracedHolds, PTL

\* Unless a commit was based on a stale read, no proposal gets an event of the
\* status it has already: the draft guard and already_final hold it back.
THEOREM NoRepeat == Spec => []NoRepeatUnlessRaced
<1>1. UnracedInv => NoRepeatUnlessRaced
  BY DEF UnracedInv, NoRepeatUnlessRaced
<1> QED
  BY <1>1, UnracedHolds, PTL

\* Unless a commit was based on a stale read, a proposal has at most one
\* follow-up, however often its button is used.
THEOREM OneFollowUpEach == Spec => []OneFollowUpUnlessRaced
<1>1. UnracedInv => OneFollowUpUnlessRaced
  <2> SUFFICES ASSUME OneEach, NEW p \in Proposals PROVE Cardinality(ScheduledFor(p)) <= 1
    BY DEF UnracedInv, OneFollowUpUnlessRaced
  <2>1. p # None
    BY LeadWorkflowAssumption
  <2>2. CASE ScheduledFor(p) = {}
    BY <2>2, FS_EmptySet
  <2>3. ASSUME NEW f \in ScheduledFor(p) PROVE Cardinality(ScheduledFor(p)) <= 1
    <3>1. ScheduledFor(p) = {f}
      BY <2>1, <2>3 DEF ScheduledFor, OneEach
    <3>2. Cardinality({f}) = 1
      BY FS_Singleton
    <3> QED
      BY <3>1, <3>2
  <2> QED
    BY <2>2, <2>3
<1> QED
  BY <1>1, UnracedHolds, PTL

\* Unless a commit was based on a stale read, a lead gives at most one Client:
\* the row, the link to it and the status are one transaction of qualify_lead.
THEOREM OneClient == Spec => []OneClientUnlessRaced
<1>1. UnracedInv => OneClientUnlessRaced
  BY DEF UnracedInv, OneClientUnlessRaced
<1> QED
  BY <1>1, UnracedHolds, PTL

\* Unless the commit is based on a stale read, no step makes a lead past
\* "qualified" qualified again: a confirmation in flight read a lead that may be
\* qualified, and a commit that writes "qualified" over a later status has read
\* an older one.
THEOREM SentStays == Spec => SentForGoodUnlessRaced
<1>1. TypeOK /\ ReadInv /\ IntakeInv /\ MovedInv /\ UnracedInv /\ [Next]_vars
        => [lead' = "qualified" => raced' \/ lead \in Unqualified \cup {"qualified"}]_vars
  <2> SUFFICES ASSUME TypeOK, ReadInv, IntakeInv, MovedInv, UnracedInv, [Next]_vars,
                      lead' = "qualified", ~raced'
               PROVE  lead \in Unqualified \cup {"qualified"}
    OBVIOUS
  <2>1. CASE lead' = lead
    BY <2>1
  <2>2. ASSUME NEW t \in Tasks, CreateLead(t) \/ ExtractLead(t) PROVE lead' = lead
    BY <2>2 DEF CreateLead, ExtractLead
  <2>3. ASSUME NEW t \in Tasks, CommitQualify(t) PROVE lead \in Unqualified
    BY <2>3, UnracedQualify DEF Qualifiable, Unqualified
  <2>4. ASSUME NEW t \in Tasks, CommitDraft(t) PROVE lead' = lead
    BY <2>4 DEF CommitDraft
  <2>5. ASSUME NEW t \in Tasks, CommitSent(t) PROVE lead' = lead
    BY <2>5 DEF CommitSent, WriteLead
  <2>6. ASSUME NEW t \in Tasks, CommitOutcome(t) PROVE lead' = lead
    <3>1. task[t].outcome # "qualified"
      BY <2>6 DEF CommitOutcome, At, ReadInv, ReadFacts, Outcomes
    <3> QED
      BY <2>6, <3>1 DEF CommitOutcome, WriteLead
  <2> QED
    BY <2>1, <2>2, <2>3, <2>4, <2>5, <2>6, WritingSteps
<1> QED
  BY <1>1, TypeInit, TypeStep, ReadInit, ReadStep, IntakeInit, IntakeStep,
     MovedInit, MovedStep, UnracedHolds, PTL DEF Spec, SentForGoodUnlessRaced

-----------------------------------------------------------------------------
(***************************************************************************)
(* LeadWorkflow implements Lifecycle until a commit is based on a stale    *)
(* read.                                                                   *)
(***************************************************************************)

\* A task is changed by its own steps only.
LEMMA OwnSteps ==
  ASSUME TypeOK, [Next]_vars, NEW t \in Tasks, task'[t] # task[t]
  PROVE  Intake(t) \/ Qualify(t) \/ Generate(t) \/ Send(t) \/ Answer(t) \/ LoseTask(t)
<1>1. task \in [Tasks -> Task]
  BY TypeParts DEF TaskTyped
<1>2. PICK u \in Tasks : Intake(u) \/ Qualify(u) \/ Generate(u) \/ Send(u) \/ Answer(u) \/ LoseTask(u)
  BY DEF Next, vars, LinkArrives, Remind
<1>3. CASE u = t
  BY <1>2, <1>3
<1>4. CASE u # t
  <2>1. Rest(u) => task'[t] = task[t]
    BY <1>1, <1>4 DEF Rest
  <2>2. CreateLead(u) \/ ExtractLead(u) \/ Confirm(u) \/ CommitQualify(u) \/ Propose(u)
          => task'[t] = task[t]
    BY <1>1, <1>4 DEF CreateLead, ExtractLead, Confirm, CommitQualify, Propose
  <2>3. CommitDraft(u) => task'[t] = task[t]
    BY <1>1, <1>4 DEF CommitDraft
  <2>4. \A p \in Proposals : ClickSent(u, p) => task'[t] = task[t]
    BY <1>1, <1>4 DEF ClickSent
  <2>5. \A f \in FollowUps, outcome \in Outcomes :
          ClickOutcome(u, f, outcome) => task'[t] = task[t]
    BY <1>1, <1>4 DEF ClickOutcome
  <2>6. ReadLead(u, "send", "send commit") \/ ReadLead(u, "answer", "answer commit")
          => task'[t] = task[t]
    BY <1>1, <1>4 DEF ReadLead
  <2> QED
    BY <1>2, <2>1, <2>2, <2>3, <2>4, <2>5, <2>6
    DEF Intake, Reply, Qualify, Generate, WriteText, Send, CommitSent, Answer, CommitOutcome,
        CommitNotes, LoseTask
<1> QED
  BY <1>3, <1>4

\* How a task comes to generate a proposal: it read a qualified lead, and it made
\* the draft it has the text written of.
LEMMA GeneratingStep ==
  ASSUME TypeOK, [Next]_vars, NEW t \in Tasks, task'[t] # task[t],
         task'[t].step \in {"draft", "write"}
  PROVE  \/ task'[t].step = "draft" /\ task'[t].lead = "qualified"
         \/ task'[t].step = "write" /\ CommitDraft(t)
<1>1. task \in [Tasks -> Task]
  BY TypeParts DEF TaskTyped
<1>2. ~Rest(t)
  BY <1>1, RestingTask DEF Rest
<1>3. ~CreateLead(t) /\ ~ExtractLead(t)
  BY <1>1 DEF CreateLead, ExtractLead, Task
<1>4. ~Confirm(t) /\ ~CommitQualify(t)
  <2>1. ~Confirm(t)
    BY <1>1 DEF Confirm, Task
  <2>2. ~CommitQualify(t)
    BY <1>1 DEF CommitQualify, Resting
  <2> QED
    BY <2>1, <2>2
<1>5. Propose(t) => task'[t].step = "draft" /\ task'[t].lead = "qualified"
  BY <1>1 DEF Propose, Task
<1>6. CommitDraft(t) => task'[t].step = "write"
  BY <1>1 DEF CommitDraft, Resting
<1>7. \A p \in Proposals : ~ClickSent(t, p)
  BY <1>1 DEF ClickSent, Task
<1>8. \A f \in FollowUps, outcome \in Outcomes : ~ClickOutcome(t, f, outcome)
  BY <1>1 DEF ClickOutcome, Task
<1>9. ~ReadLead(t, "send", "send commit") /\ ~ReadLead(t, "answer", "answer commit")
  <2>1. ASSUME NEW s \in {"send commit", "answer commit"},
               task' = [task EXCEPT ![t].step = s, ![t].lead = lead, ![t].linked = linked]
        PROVE  task'[t].step = s
    BY <1>1, <2>1 DEF Task
  <2> QED
    BY <2>1 DEF ReadLead
<1> QED
  BY <1>2, <1>3, <1>4, <1>5, <1>6, <1>7, <1>8, <1>9, OwnSteps
  DEF Intake, Reply, Qualify, Generate, WriteText, Send, CommitSent, Answer, CommitOutcome,
      CommitNotes, LoseTask

\* Two tasks do not change in one step.
LEMMA OneTaskSteps ==
  ASSUME TypeOK, [Next]_vars, NEW t \in Tasks, NEW u \in Tasks, CommitDraft(t), u # t
  PROVE  task'[u] = task[u]
  BY TypeParts DEF TaskTyped, CommitDraft

\* The text of a proposal is written by a task that writes it.
LEMMA WrittenStep ==
  ASSUME [Next]_vars, NEW p \in written', p \notin written
  PROVE  \E t \in Tasks : WriteText(t) /\ task[t].p = p
<1>0. written' # written
  OBVIOUS
<1>1. \A t \in Tasks : ~Intake(t) /\ ~Qualify(t) /\ (Generate(t) => WriteText(t))
  BY <1>0 DEF Intake, Qualify, Generate, CreateLead, ExtractLead, Reply, Confirm, CommitQualify,
         Propose, CommitDraft, rows
<1>2. ASSUME NEW t \in Tasks PROVE ~Send(t) /\ ~Answer(t) /\ ~LoseTask(t)
  <2>1. ~Send(t)
    BY <1>0 DEF Send, ClickSent, ReadLead, CommitSent, rows
  <2>2. ~Answer(t)
    BY <1>0 DEF Answer, ClickOutcome, ReadLead, CommitOutcome, CommitNotes, rows
  <2>3. ~LoseTask(t)
    BY <1>0 DEF LoseTask, rows
  <2> QED
    BY <2>1, <2>2, <2>3
<1>3. PICK t \in Tasks : WriteText(t)
  BY <1>0, <1>1, <1>2 DEF Next, LinkArrives, Remind, vars, rows
<1> QED
  BY <1>3 DEF WriteText

\* A text is written of a draft nobody else has, and which has none; a draft is
\* asked for of a qualified lead; and a lead that is not qualified has no client.
WritingInv ==
  /\ \A p \in written : proposal[p] # "none"
  /\ \A t \in Tasks : At(t, "draft") => task[t].lead = "qualified"
  /\ \A t \in Tasks : At(t, "write") => proposal[task[t].p] = "draft" /\ task[t].p \notin written
  /\ \A t, u \in Tasks : At(t, "write") /\ At(u, "write") /\ task[t].p = task[u].p => t = u
  /\ lead \in Unqualified => ~linked

LEMMA WritingInit == Init => WritingInv
<1> SUFFICES ASSUME Init PROVE WritingInv
  OBVIOUS
<1>1. \A t \in Tasks : task[t].step = "rest"
  BY RestingTask DEF Init
<1> QED
  BY <1>1 DEF Init, WritingInv, At

\* A proposal with a draft changes when it is sent, or answered, and then it has
\* a text.
LEMMA DraftKept ==
  ASSUME TypeOK, ReadInv, ShownInv, [Next]_vars, NEW p \in Proposals, proposal[p] # "none"
  PROVE  proposal'[p] = proposal[p] \/ (proposal'[p] # "none" /\ p \in written)
<1>1. CASE UNCHANGED proposal
  BY <1>1
<1>2. ASSUME NEW t \in Tasks, CommitDraft(t) PROVE proposal'[p] = proposal[p]
  BY <1>2 DEF CommitDraft, TypeOK
<1>3. ASSUME NEW t \in Tasks, CommitSent(t) \/ CommitOutcome(t), proposal'[p] # proposal[p]
      PROVE  proposal'[p] # "none" /\ p \in written
  <2>1. PICK s \in Moved :
           /\ task[t].p \in Proposals
           /\ CommitOutcome(t) => task[t].f \in reminded /\ about[task[t].f] = task[t].p
           /\ proposal' = [proposal EXCEPT ![task[t].p] = s]
    BY <1>3, WriteMoves
  <2>2. p = task[t].p /\ proposal'[p] = s
    BY <1>3, <2>1 DEF TypeOK
  <2>3. p \in buttons
    <3>1. CASE CommitSent(t)
      BY <2>2, <3>1 DEF CommitSent, At, ShownInv
    <3>2. CASE CommitOutcome(t)
      BY <2>1, <2>2, <3>2, LeadWorkflowAssumption DEF ShownInv, TypeOK
    <3> QED
      BY <1>3, <3>1, <3>2
  <2> QED
    BY <2>2, <2>3 DEF ShownInv, Moved
<1> QED
  BY <1>1, <1>2, <1>3, ProposalSteps

LEMMA WritingStep ==
  /\ TypeOK /\ ReadInv /\ IntakeInv /\ ShownInv /\ MovedInv /\ WritingInv
  /\ [Next]_vars
  => WritingInv'
<1> SUFFICES ASSUME TypeOK, ReadInv, IntakeInv, ShownInv, MovedInv, WritingInv, [Next]_vars
             PROVE  WritingInv'
  OBVIOUS
<1>1. ASSUME NEW p \in written' PROVE proposal'[p] # "none"
  <2>1. p \in Proposals /\ proposal[p] # "none"
    <3>1. CASE p \in written
      BY <3>1 DEF TypeOK, WritingInv
    <3>2. CASE p \notin written
      <4>1. PICK t \in Tasks : WriteText(t) /\ task[t].p = p
        BY <1>1, <3>2, WrittenStep
      <4>2. At(t, "write")
        BY <4>1 DEF WriteText
      <4> QED
        BY <4>1, <4>2 DEF WritingInv, TypeOK, At
    <3> QED
      BY <3>1, <3>2
  <2> QED
    BY <2>1, DraftKept
<1>2. ASSUME NEW t \in Tasks, At(t, "draft")' PROVE task'[t].lead = "qualified"
  BY <1>2, GeneratingStep DEF At, WritingInv
<1>3. ASSUME NEW t \in Tasks, At(t, "write")'
      PROVE  proposal'[task'[t].p] = "draft" /\ task'[t].p \notin written'
  <2>1. CASE task'[t] = task[t]
    <3> DEFINE p == task[t].p
    <3>1. At(t, "write") /\ p \in Proposals /\ proposal[p] = "draft" /\ p \notin written
      BY <1>3, <2>1 DEF At, WritingInv, TypeOK
    <3>2. proposal'[p] = "draft"
      BY <3>1, DraftKept
    <3>3. ASSUME p \in written' PROVE FALSE
      <4>1. PICK u \in Tasks : WriteText(u) /\ task[u].p = p
        BY <3>1, <3>3, WrittenStep
      <4>2. u = t
        BY <3>1, <4>1 DEF WritingInv, WriteText, At
      <4> QED
        BY <1>3, <4>1, <4>2, RestingTask, TypeParts DEF WriteText, Rest, At, TaskTyped
    <3> QED
      BY <2>1, <3>2, <3>3
  <2>2. CASE task'[t] # task[t]
    <3>1. CommitDraft(t)
      BY <1>3, <2>2, GeneratingStep DEF At
    <3>2. PICK p \in Proposals :
             /\ proposal[p] = "none" /\ proposal' = [proposal EXCEPT ![p] = "draft"]
             /\ task' = [task EXCEPT ![t] = [Resting EXCEPT !.step = "write", !.p = p]]
      BY <3>1 DEF CommitDraft
    <3>3. task'[t].p = p
      BY <3>2, TypeParts DEF TaskTyped, Resting
    <3>4. proposal'[p] = "draft"
      BY <3>2 DEF TypeOK
    <3>5. p \notin written' /\ written' = written
      BY <3>1, <3>2 DEF WritingInv, CommitDraft
    <3> QED
      BY <3>3, <3>4, <3>5
  <2> QED
    BY <2>1, <2>2
<1>4. ASSUME NEW t \in Tasks, NEW u \in Tasks, At(t, "write")', At(u, "write")',
             task'[t].p = task'[u].p, t # u, task'[t] # task[t]
      PROVE  FALSE
  <2>1. CommitDraft(t)
    BY <1>4, GeneratingStep DEF At
  <2>2. PICK p \in Proposals :
           /\ proposal[p] = "none"
           /\ task' = [task EXCEPT ![t] = [Resting EXCEPT !.step = "write", !.p = p]]
    BY <2>1 DEF CommitDraft
  <2>3. task'[t].p = p
    BY <2>2, TypeParts DEF TaskTyped, Resting
  <2>4. task'[u] = task[u]
    BY <1>4, <2>1, OneTaskSteps
  <2> QED
    BY <1>4, <2>2, <2>3, <2>4 DEF At, WritingInv
<1>5. ASSUME NEW t \in Tasks, NEW u \in Tasks, At(t, "write")', At(u, "write")',
             task'[t].p = task'[u].p
      PROVE  t = u
  BY <1>4, <1>5 DEF At, WritingInv
<1>6. ASSUME lead' \in Unqualified PROVE ~linked'
  <2>1. ~linked
    BY <1>6, QualifiedStep DEF WritingInv
  <2>2. ASSUME NEW t \in Tasks, CommitQualify(t) PROVE FALSE
    <3>1. task[t].lead \in Qualifiable
      BY <2>2 DEF CommitQualify, MovedInv
    <3>2. lead' = "qualified"
      BY <2>2, <3>1 DEF CommitQualify, WriteLead, Qualifiable
    <3> QED
      BY <1>6, <3>2 DEF Unqualified
  <2>3. linked' = linked
    BY <2>2, WritingSteps DEF CreateLead, ExtractLead, CommitDraft, CommitSent, CommitOutcome
  <2> QED
    BY <2>1, <2>3
<1> QED
  BY <1>1, <1>2, <1>3, <1>5, <1>6 DEF WritingInv

\* The steps that write a row.
LEMMA RowSteps ==
  [Next]_vars =>
    \/ UNCHANGED rows
    \/ \E t \in Tasks : \/ CreateLead(t) \/ ExtractLead(t) \/ CommitQualify(t) \/ CommitDraft(t)
                        \/ WriteText(t) \/ CommitSent(t) \/ CommitOutcome(t)
    \/ \E f \in FollowUps : Remind(f)
<1> SUFFICES ASSUME [Next]_vars, ~UNCHANGED rows, \A f \in FollowUps : ~Remind(f)
             PROVE  \E t \in Tasks : \/ CreateLead(t) \/ ExtractLead(t) \/ CommitQualify(t)
                                     \/ CommitDraft(t) \/ WriteText(t) \/ CommitSent(t)
                                     \/ CommitOutcome(t)
  OBVIOUS
<1>1. ASSUME NEW t \in Tasks, Intake(t) \/ Qualify(t) \/ Generate(t)
      PROVE  CreateLead(t) \/ ExtractLead(t) \/ CommitQualify(t) \/ CommitDraft(t) \/ WriteText(t)
  BY <1>1 DEF Intake, Qualify, Generate, Reply, Confirm, Propose
<1>2. ASSUME NEW t \in Tasks, Send(t) \/ Answer(t) \/ LoseTask(t)
      PROVE  CommitSent(t) \/ CommitOutcome(t)
  BY <1>2 DEF Send, Answer, ClickSent, ReadLead, ClickOutcome, CommitNotes, LoseTask
<1> QED
  BY <1>1, <1>2 DEF Next, LinkArrives, vars

\* The follow-ups of proposals look the same after steps that leave them alone.
LEMMA SameFollowUps ==
  ASSUME UNCHANGED <<about, reminded>>
  PROVE  \A p \in Proposals : FollowUpOf(p)' = FollowUpOf(p)
  BY DEF FollowUpOf, ScheduledFor

LEMMA AtomicInit == Init => Atomic!Init
<1> SUFFICES ASSUME Init PROVE Atomic!Init
  OBVIOUS
<1>1. \A p \in Proposals : FollowUpOf(p) = "none"
  BY LeadWorkflowAssumption DEF Init, FollowUpOf, ScheduledFor
<1> QED
  BY <1>1 DEF Init, Atomic!Init

\* Intake and qualification.
LEMMA MapLead ==
  ASSUME TypeOK, IntakeInv, MovedInv, WritingInv, ~raced', NEW t \in Tasks,
         CreateLead(t) \/ ExtractLead(t) \/ CommitQualify(t)
  PROVE  Atomic!Next \/ UNCHANGED Atomic!rows
<1>1. UNCHANGED <<proposal, written, about, reminded>>
  BY DEF CreateLead, ExtractLead, CommitQualify
<1>2. UNCHANGED <<proposal, written, [p \in Proposals |-> FollowUpOf(p)]>>
  BY <1>1, SameFollowUps
<1>3. CASE CreateLead(t)
  BY <1>2, <1>3 DEF CreateLead, Atomic!Next, Atomic!TakeMessage
<1>4. CASE ExtractLead(t)
  <2>1. lead = "new"
    BY <1>4 DEF ExtractLead, IntakeInv
  <2> QED
    BY <1>2, <1>4, <2>1 DEF ExtractLead, Atomic!Next, Atomic!StoreData, Atomic!rows
<1>5. CASE CommitQualify(t)
  <2>1. task[t].lead = lead /\ task[t].linked = linked
    BY <1>5, FreshCommit DEF CommitQualify
  <2>2. lead \in Qualifiable
    BY <1>5, <2>1 DEF CommitQualify, MovedInv
  <2>3. lead' = "qualified"
    BY <1>5, <2>1, <2>2 DEF CommitQualify, WriteLead, Qualifiable
  <2>4. ~linked /\ clients = 0
    BY <2>2 DEF WritingInv, MovedInv, Unqualified, Qualifiable
  <2>5. clients' = IF HasName /\ lead = "qualifying" THEN 1 ELSE 0
    <3>1. NeedsClient(t) <=> HasName /\ lead = "qualifying"
      BY <2>1, <2>4 DEF NeedsClient
    <3>2. clients' = IF NeedsClient(t) /\ clients < 2 THEN clients + 1 ELSE clients
      BY <1>5 DEF CommitQualify, AddClient
    <3> QED
      BY <2>4, <3>1, <3>2
  <2> QED
    BY <1>2, <2>2, <2>3, <2>5 DEF Qualifiable, Atomic!Next, Atomic!QualifyLead
<1> QED
  BY <1>3, <1>4, <1>5

\* A draft and its text.
LEMMA MapGenerate ==
  ASSUME TypeOK, WritingInv, ~raced', NEW t \in Tasks, CommitDraft(t) \/ WriteText(t)
  PROVE  Atomic!Next \/ UNCHANGED Atomic!rows
<1>1. UNCHANGED <<lead, clients, about, reminded>>
  BY DEF CommitDraft, WriteText
<1>2. UNCHANGED <<lead, clients, [p \in Proposals |-> FollowUpOf(p)]>>
  BY <1>1, SameFollowUps
<1>3. CASE CommitDraft(t)
  <2>1. lead = "qualified"
    BY <1>3, FreshCommit DEF CommitDraft, WritingInv
  <2>2. PICK p \in Proposals : proposal[p] = "none" /\ proposal' = [proposal EXCEPT ![p] = "draft"]
    BY <1>3 DEF CommitDraft
  <2>3. Atomic!CreateDraft(p)
    BY <1>2, <1>3, <2>1, <2>2 DEF CommitDraft, Atomic!CreateDraft
  <2> QED
    BY <2>3 DEF Atomic!Next
<1>4. CASE WriteText(t)
  <2> DEFINE p == task[t].p
  <2>1. p \in Proposals /\ proposal[p] = "draft" /\ p \notin written
    BY <1>4 DEF WriteText, WritingInv, TypeOK, At
  <2>2. proposal' = proposal
    BY <1>4 DEF WriteText
  <2>3. CASE written' = written
    BY <1>2, <2>2, <2>3 DEF Atomic!rows
  <2>4. CASE written' = written \cup {p}
    <3>1. Atomic!StoreText(p)
      BY <1>2, <2>1, <2>2, <2>4 DEF Atomic!StoreText
    <3> QED
      BY <2>1, <3>1 DEF Atomic!Next
  <2> QED
    BY <1>4, <2>3, <2>4 DEF WriteText
<1> QED
  BY <1>3, <1>4

\* A sending that is not raced finds a draft with a text, and the first follow-up
\* of it is made.
LEMMA MapSent ==
  ASSUME TypeOK, ReadInv, ShownInv, MovedInv, ~raced', NEW t \in Tasks, CommitSent(t)
  PROVE  Atomic!Next
<1>0. PICK p : p = task[t].p
  OBVIOUS
<1>1. p \in Proposals /\ p # None
  <2>1. task[t].p \in Proposals
    BY DEF CommitSent, At, TypeOK
  <2> QED
    BY <1>0, <2>1, LeadWorkflowAssumption
<1>2. task[t].lead = lead /\ task[t].proposal = proposal[p]
  BY <1>0, <1>1, FreshCommit DEF CommitSent
<1>3. proposal[p] = "draft" /\ p \in written
  BY <1>0, <1>1, <1>2 DEF CommitSent, At, ReadInv, ReadFacts, ShownInv
<1>4. proposal' = [proposal EXCEPT ![p] = "sent"]
  <2>1. task[t].proposal # "sent"
    BY <1>2, <1>3
  <2> QED
    BY <1>0, <2>1 DEF CommitSent, WriteProposal
<1>5. lead' = "proposal_sent"
  BY <1>2 DEF CommitSent, WriteLead
<1>6. UNCHANGED <<clients, written, reminded>>
  BY DEF CommitSent
<1>7. PICK f \in FollowUps : about[f] = None /\ about' = [about EXCEPT ![f] = p]
  BY <1>0 DEF CommitSent
<1>8. about'[f] = p /\ \A g \in FollowUps \ {f} : about'[g] = about[g]
  BY <1>7 DEF TypeOK
<1>9. ScheduledFor(p) = {}
  BY <1>1, <1>3 DEF ScheduledFor, MovedInv, Moved
<1>10. ScheduledFor(p)' = {f}
  BY <1>8, <1>9 DEF ScheduledFor
<1>11. f \notin reminded'
  BY <1>6, <1>7 DEF TypeOK
<1>12. FollowUpOf(p) = "none" /\ FollowUpOf(p)' = "pending"
  BY <1>9, <1>10, <1>11 DEF FollowUpOf
<1>13. ASSUME NEW q \in Proposals \ {p} PROVE FollowUpOf(q)' = FollowUpOf(q)
  <2>1. ScheduledFor(q)' = ScheduledFor(q)
    BY <1>1, <1>7, <1>8, LeadWorkflowAssumption DEF ScheduledFor
  <2> QED
    BY <1>6, <2>1 DEF FollowUpOf
<1>14. [q \in Proposals |-> FollowUpOf(q)']
         = [[q \in Proposals |-> FollowUpOf(q)] EXCEPT ![p] = "pending"]
  BY <1>1, <1>12, <1>13
<1>15. Atomic!MarkSent(p)
  BY <1>1, <1>3, <1>4, <1>5, <1>6, <1>12, <1>14 DEF Atomic!MarkSent
<1> QED
  BY <1>1, <1>15 DEF Atomic!Next

\* An answer that is not raced is another one than the proposal's, which has been
\* reminded of.
LEMMA MapOutcome ==
  ASSUME TypeOK, ReadInv, MovedInv, ~raced', NEW t \in Tasks, CommitOutcome(t)
  PROVE  Atomic!Next
<1> DEFINE p == task[t].p
           outcome == task[t].outcome
<1>1. p \in Proposals /\ p # None
  BY LeadWorkflowAssumption DEF CommitOutcome, At, TypeOK
<1>2. task[t].lead = lead /\ task[t].proposal = proposal[p]
  BY <1>1, FreshCommit DEF CommitOutcome
<1>3. outcome \in Outcomes /\ task[t].f \in reminded /\ about[task[t].f] = p
  BY DEF CommitOutcome, At, ReadInv, ReadFacts
<1>4. proposal[p] # outcome
  BY <1>2 DEF CommitOutcome, AlreadyFinal
<1>5. task[t].f \in FollowUps
  BY <1>3 DEF TypeOK
<1>6. proposal[p] \in Moved
  BY <1>1, <1>3, <1>5 DEF MovedInv
<1>7. FollowUpOf(p) = "sent"
  BY <1>3, <1>5 DEF FollowUpOf, ScheduledFor
<1>8. proposal' = [proposal EXCEPT ![p] = outcome]
  BY <1>2, <1>4 DEF CommitOutcome, WriteProposal
<1>9. lead' = outcome
  BY <1>2 DEF CommitOutcome, WriteLead
<1>10. UNCHANGED <<clients, written, about, reminded>>
  BY DEF CommitOutcome
<1>11. UNCHANGED <<clients, written, [q \in Proposals |-> FollowUpOf(q)]>>
  BY <1>10, SameFollowUps
<1>12. Atomic!RecordAnswer(p, outcome)
  BY <1>1, <1>4, <1>6, <1>7, <1>8, <1>9, <1>11 DEF Atomic!RecordAnswer, Moved
<1> QED
  BY <1>1, <1>3, <1>12 DEF Atomic!Next, Outcomes

\* As long as a proposal has one follow-up, its reminder is that follow-up's.
LEMMA MapRemind ==
  ASSUME TypeOK, OneEach, NEW f \in FollowUps, Remind(f)
  PROVE  Atomic!Next
<1>0. PICK p : p = about[f]
  OBVIOUS
<1>1. p \in Proposals /\ p # None
  BY <1>0 DEF Remind, TypeOK
<1>2. /\ reminded' = reminded \cup {f} /\ f \notin reminded
      /\ UNCHANGED <<lead, clients, proposal, written, about>>
  BY DEF Remind
<1>3. ScheduledFor(p) = {f}
  BY <1>0, <1>1 DEF ScheduledFor, OneEach
<1>4. \A q \in Proposals : ScheduledFor(q)' = ScheduledFor(q)
  BY <1>2 DEF ScheduledFor
<1>5. FollowUpOf(p) = "pending" /\ FollowUpOf(p)' = "sent"
  BY <1>1, <1>2, <1>3, <1>4 DEF FollowUpOf
<1>6. ASSUME NEW q \in Proposals \ {p} PROVE FollowUpOf(q)' = FollowUpOf(q)
  <2>1. f \notin ScheduledFor(q)
    BY <1>0 DEF ScheduledFor
  <2> QED
    BY <1>2, <1>4, <2>1 DEF FollowUpOf
<1>7. [q \in Proposals |-> FollowUpOf(q)']
        = [[q \in Proposals |-> FollowUpOf(q)] EXCEPT ![p] = "sent"]
  BY <1>1, <1>5, <1>6
<1>8. Atomic!SendFollowUp(p)
  BY <1>1, <1>2, <1>5, <1>7 DEF Atomic!SendFollowUp
<1> QED
  BY <1>1, <1>8 DEF Atomic!Next

LEMMA AtomicStep ==
  /\ TypeOK /\ ReadInv /\ IntakeInv /\ ShownInv /\ MovedInv /\ UnracedInv /\ WritingInv
  /\ [Next]_vars
  => [Atomic!Next \/ raced']_(Atomic!rows)
<1> SUFFICES ASSUME TypeOK, ReadInv, IntakeInv, ShownInv, MovedInv, UnracedInv, WritingInv,
                    [Next]_vars, ~raced'
             PROVE  Atomic!Next \/ UNCHANGED Atomic!rows
  OBVIOUS
<1>1. CASE UNCHANGED rows
  <2>1. UNCHANGED <<lead, clients, proposal, written, about, reminded>>
    BY <1>1 DEF rows
  <2> QED
    BY <2>1, SameFollowUps DEF Atomic!rows
<1>2. ASSUME NEW f \in FollowUps, Remind(f) PROVE Atomic!Next
  <2>1. OneEach
    BY RacedStays DEF UnracedInv
  <2> QED
    BY <1>2, <2>1, MapRemind
<1> QED
  BY <1>1, <1>2, RowSteps, MapLead, MapGenerate, MapSent, MapOutcome

\* Use cases that overlap do what they would do one after the other, each at the
\* moment of its commit, up to the first commit that was based on a stale read.
THEOREM Atomicity == Spec => AtomicUnlessRaced
  BY TypeInit, TypeStep, ReadInit, ReadStep, IntakeInit, IntakeStep,
     ShownInit, ShownStep, MovedInit, MovedStep, UnracedInit, UnracedStep,
     WritingInit, WritingStep, AtomicInit, AtomicStep, PTL
  DEF Spec, AtomicUnlessRaced
=============================================================================
