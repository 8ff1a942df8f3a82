----------------------------- MODULE Lifecycle ------------------------------
(***************************************************************************)
(* What the use cases promise of the rows of one lead: each takes effect   *)
(* in one step, on rows that meet its guards at that moment; a use case    *)
(* with an AI call in the middle takes two.  Tasks, messages and readings  *)
(* are left out, and a proposal has one follow-up.                         *)
(***************************************************************************)
EXTENDS Naturals

CONSTANTS Proposals,  \* proposals of the lead
          HasName     \* the extracted data name the client

VARIABLES lead,       \* leads.status
          clients,    \* rows of clients made for the lead
          proposal,   \* proposals.status
          written,    \* the proposals with a generated_text
          followUp    \* the status of each proposal's follow-up

rows == <<lead, clients, proposal, written, followUp>>

Init ==
  /\ lead = "none"
  /\ clients = 0
  /\ proposal = [p \in Proposals |-> "none"]
  /\ written = {}
  /\ followUp = [p \in Proposals |-> "none"]

\* intake_lead: the message is stored, then its data.
TakeMessage ==
  /\ lead = "none"
  /\ lead' = "new"
  /\ UNCHANGED <<clients, proposal, written, followUp>>

StoreData ==
  /\ lead = "new"
  /\ lead' = "qualifying"
  /\ UNCHANGED <<clients, proposal, written, followUp>>

\* qualify_lead makes the lead's client, if its data name one.
QualifyLead ==
  /\ lead \in {"new", "qualifying"}
  /\ lead' = "qualified"
  /\ clients' = IF HasName /\ lead = "qualifying" THEN 1 ELSE 0
  /\ UNCHANGED <<proposal, written, followUp>>

\* generate_proposal: the draft, then its text.
CreateDraft(p) ==
  /\ lead = "qualified"
  /\ proposal[p] = "none"
  /\ proposal' = [proposal EXCEPT ![p] = "draft"]
  /\ UNCHANGED <<lead, clients, written, followUp>>

StoreText(p) ==
  /\ proposal[p] = "draft"
  /\ p \notin written
  /\ written' = written \cup {p}
  /\ UNCHANGED <<lead, clients, proposal, followUp>>

\* mark_proposal_sent
MarkSent(p) ==
  /\ p \in written
  /\ proposal[p] = "draft"
  /\ followUp[p] = "none"
  /\ proposal' = [proposal EXCEPT ![p] = "sent"]
  /\ lead' = "proposal_sent"
  /\ followUp' = [followUp EXCEPT ![p] = "pending"]
  /\ UNCHANGED <<clients, written>>

\* send_follow_up
SendFollowUp(p) ==
  /\ followUp[p] = "pending"
  /\ followUp' = [followUp EXCEPT ![p] = "sent"]
  /\ UNCHANGED <<lead, clients, proposal, written>>

\* record_follow_up_result, with an answer other than the one recorded.
RecordAnswer(p, outcome) ==
  /\ followUp[p] = "sent"
  /\ proposal[p] \in {"sent", "accepted", "declined"} \ {outcome}
  /\ proposal' = [proposal EXCEPT ![p] = outcome]
  /\ lead' = outcome
  /\ UNCHANGED <<clients, written, followUp>>

Next ==
  \/ TakeMessage \/ StoreData \/ QualifyLead
  \/ \E p \in Proposals :
       \/ CreateDraft(p) \/ StoreText(p) \/ MarkSent(p) \/ SendFollowUp(p)
       \/ \E outcome \in {"accepted", "declined"} : RecordAnswer(p, outcome)
=============================================================================
