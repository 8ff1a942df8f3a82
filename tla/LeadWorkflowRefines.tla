------------------------ MODULE LeadWorkflowRefines -------------------------
(* LeadWorkflow implements Lifecycle until a commit is based on a stale read *)
(* (proved in LeadWorkflowProofs).                                           *)
EXTENDS LeadWorkflow

\* The status of a proposal's follow-up; without a race there is one.
FollowUpOf(p) ==
  IF ScheduledFor(p) = {} THEN "none"
  ELSE IF ScheduledFor(p) \cap reminded = {} THEN "pending" ELSE "sent"

Atomic == INSTANCE Lifecycle WITH followUp <- [p \in Proposals |-> FollowUpOf(p)]

\* Use cases that overlap do to the rows what the same use cases do one after the
\* other, each at the moment of its commit: what a task read, and decided on, still
\* is so when it commits, up to the first commit that was based on a stale read.
AtomicUnlessRaced ==
  Atomic!Init /\ [][Atomic!Next \/ raced']_(Atomic!rows)
=============================================================================
