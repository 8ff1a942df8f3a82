SPECIFICATION Spec
CONSTANTS
  w1 = w1
  w2 = w2
  f1 = f1
  f2 = f2
  NoJob = NoJob
  Workers <- OneWorker
  Jobs <- OneFollowUp
  SenderTakesButtons = TRUE
  MaxFaults = 1
CHECK_DEADLOCK FALSE
INVARIANTS
  NotifiedOnce
