------------------------------- MODULE MCBot --------------------------------
(* Instances of Bot for TLC. *)
EXTENDS Bot, TLC

CONSTANTS u1, u2, m1, l1, l2, l3, p1, p2

TwoUpdates   == {u1, u2}
OneMessage   == {m1}
TwoLeads     == {l1, l2}
ThreeLeads   == {l1, l2, l3}
OneProposal  == {p1}
TwoProposals == {p1, p2}

\* Sound for safety: no property names an update, a lead or a proposal.
Symmetry == Permutations(TwoUpdates) \cup Permutations(ThreeLeads) \cup Permutations(TwoProposals)
=============================================================================
