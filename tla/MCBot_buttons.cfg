SPECIFICATION Spec
CONSTANTS
  u1 = u1
  u2 = u2
  m1 = m1
  l1 = l1
  l2 = l2
  l3 = l3
  p1 = p1
  p2 = p2
  None = None
  Updates <- TwoUpdates
  Messages <- OneMessage
  Leads <- ThreeLeads
  Proposals <- TwoProposals
  SenderTakesButtons = TRUE
  MaxStrange = 0
  MaxLosses = 1
CHECK_DEADLOCK FALSE
INVARIANTS
  TypeOK
  OneLeadPerMessage
  StuckOnlyByLoss
SYMMETRY Symmetry
