----------------------------- MODULE MCReminders ----------------------------
(* Instances of Reminders for TLC. *)
EXTENDS Reminders, TLC

CONSTANTS w1, w2, f1, f2

OneWorker    == {w1}
TwoWorkers   == {w1, w2}
OneFollowUp  == {f1}
TwoFollowUps == {f1, f2}

\* Sound for safety: no property names a worker or a follow-up.
ReminderSymmetry == Permutations(TwoWorkers) \cup Permutations(TwoFollowUps)
=============================================================================
