SPECIFICATION FairSpec
CONSTANTS
  u1 = u1
  u2 = u2
  m1 = m1
  l1 = l1
  l2 = l2
  l3 = l3
  p1 = p1
  p2 = p2
  None = None
  Updates <- TwoUpdates
  Messages <- OneMessage
  Leads <- TwoLeads
  Proposals <- OneProposal
  SenderTakesButtons = TRUE
  MaxStrange = 1
  MaxLosses = 1
CHECK_DEADLOCK FALSE
PROPERTIES
  MessageMakesLead
  PublishClickIsServed
