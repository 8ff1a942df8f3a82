SPECIFICATION Spec
CONSTANTS
  t1 = t1
  t2 = t2
  t3 = t3
  p1 = p1
  p2 = p2
  f1 = f1
  f2 = f2
  f3 = f3
  None = None
  HasName = TRUE
  Tasks <- TwoTasks
  Proposals <- OneProposal
  FollowUps <- TwoFollowUps
CHECK_DEADLOCK FALSE
INVARIANTS
  OneFollowUp
