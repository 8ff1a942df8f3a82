SPECIFICATION Spec
CONSTANTS
  w1 = w1
  w2 = w2
  p1 = p1
  p2 = p2
  c1 = c1
  c2 = c2
  NoJob = NoJob
  SenderTakesButtons = TRUE
  Workers <- TwoWorkers
  Jobs <- TwoProposals
  Clicks <- TwoClicks
  MaxFaults = 2
CHECK_DEADLOCK FALSE
SYMMETRY PublicationSymmetry
INVARIANTS
  TypeOK
  DoneMeansDocument
  OneDocumentUnlessLate
  LinkFollowsUnlessFault
