---------------------------- MODULE MCPublication ---------------------------
(* Instances of Publication for TLC. *)
EXTENDS Publication, TLC

CONSTANTS w1, w2, p1, p2, c1, c2

OneWorker    == {w1}
TwoWorkers   == {w1, w2}
OneProposal  == {p1}
TwoProposals == {p1, p2}
OneClick     == {c1}
TwoClicks    == {c1, c2}

\* Sound for safety: no property names a worker or a click.
PublicationSymmetry == Permutations(TwoWorkers) \cup Permutations(TwoClicks)
=============================================================================
