CONSTANTS
  WaitSteps = 2
  MaxMisses = 2
  MaxDoms = 3
SPECIFICATION FairSpec
INVARIANTS
  TypeOK
  FreshDomain
  NothingLeaks
PROPERTIES
  LossNoticed
CHECK_DEADLOCK FALSE
