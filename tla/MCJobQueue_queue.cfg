SPECIFICATION FairSpec
CONSTANTS
  w1 = w1
  w2 = w2
  j1 = j1
  j2 = j2
  NoWorker = NoWorker
  Workers <- TwoWorkers
  Jobs <- TwoJobs
  Known = {j1}
  Delayed = {j2}
  MaxAttempts = 2
  Limit = 2
  MaxFaults = 1
  MaxStops = 1
  MaxOverruns <- OneOverrun
INVARIANTS
  TypeOK
  OneTakePerAttempt
  SingleTakeUnlessOverrun
  AttemptsBudget
  FailedOnlyWhenExhausted
  RunningIsHeldByOwner
PROPERTIES
  TerminalFinalUnlessOverrun
  ImplementsDelivery
  EveryJobSettles
