SPECIFICATION FairSpec
CONSTANTS
  t1 = t1
  t2 = t2
  w1 = w1
  w2 = w2
  c1 = c1
  c2 = c2
  p1 = p1
  p2 = p2
  f1 = f1
  f2 = f2
  None = None
  NoJob = NoJob
  HasName = TRUE
  SenderTakesButtons = TRUE
  Tasks <- OneTask
  Workers <- TwoWorkers
  Clicks <- OneClick
  Proposals <- OneProposal
  FollowUps <- SingleFollowUp
  MaxFaults = 1
CHECK_DEADLOCK FALSE
INVARIANTS
  TypeOK
  SentOnlyWithDocument
  AnsweredOnlyIfReminderCame
  LeadHasPaper
PROPERTY SentIsReminded
