SPECIFICATION Spec
CONSTANTS
  w1 = w1
  w2 = w2
  f1 = f1
  f2 = f2
  NoJob = NoJob
  Workers <- TwoWorkers
  Jobs <- TwoFollowUps
  SenderTakesButtons = TRUE
  MaxFaults = 2
CHECK_DEADLOCK FALSE
SYMMETRY ReminderSymmetry
INVARIANTS
  TypeOK
  DoneMeansSent
  SentMeansReminded
  ExtraReminderIsInterrupted
