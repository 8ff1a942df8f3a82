------------------------------ MODULE MCBureau ------------------------------
(* Instances of Bureau for TLC. *)
EXTENDS Bureau, TLC

CONSTANTS t1, t2, w1, w2, c1, c2, p1, p2, f1, f2

OneTask        == {t1}
TwoTasks       == {t1, t2}
OneWorker      == {w1}
TwoWorkers     == {w1, w2}
OneClick       == {c1}
TwoClicks      == {c1, c2}
OneProposal    == {p1}
TwoProposals   == {p1, p2}
SingleFollowUp == {f1}
TwoFollowUps   == {f1, f2}
=============================================================================
