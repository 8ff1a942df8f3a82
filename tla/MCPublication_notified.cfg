SPECIFICATION Spec
CONSTANTS
  w1 = w1
  w2 = w2
  p1 = p1
  p2 = p2
  c1 = c1
  c2 = c2
  NoJob = NoJob
  SenderTakesButtons = TRUE
  Workers <- OneWorker
  Jobs <- OneProposal
  Clicks <- OneClick
  MaxFaults = 1
CHECK_DEADLOCK FALSE
PROPERTIES
  HitMeansNotified
