SPECIFICATION Spec
CONSTANTS
  w1 = w1
  w2 = w2
  f1 = f1
  f2 = f2
  NoJob = NoJob
  Workers <- OneWorker
  Jobs <- OneFollowUp
  SenderTakesButtons = FALSE
  MaxFaults = 0
CHECK_DEADLOCK FALSE
INVARIANTS
  ReminderComes
