--------------------------- MODULE MCLeadWorkflow ---------------------------
(* Instances of LeadWorkflow for TLC. *)
EXTENDS LeadWorkflowRefines, TLC

CONSTANTS t1, t2, t3, p1, p2, f1, f2, f3

OneTask        == {t1}
TwoTasks       == {t1, t2}
ThreeTasks     == {t1, t2, t3}
OneProposal    == {p1}
TwoProposals   == {p1, p2}
SingleFollowUp == {f1}
TwoFollowUps   == {f1, f2}
ThreeFollowUps == {f1, f2, f3}

\* Sound for safety: no property names a task, a proposal or a follow-up.
WorkflowSymmetry ==
  Permutations(ThreeTasks) \cup Permutations(TwoProposals) \cup Permutations(ThreeFollowUps)
=============================================================================
