SPECIFICATION FairSpec
CONSTANTS
  a = a
  b = b
  c = c
  Nobody = Nobody
  Tasks <- ThreeTasks
  Mixes <- ThreeKinds
  PoolSize = 2
  MaxCrashes = 1
CHECK_DEADLOCK FALSE
INVARIANTS
  TypeOK
  OutsideHoldsNothing
  NoDeadlock
PROPERTY EveryTaskEnds
