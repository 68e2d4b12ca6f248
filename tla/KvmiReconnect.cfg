CONSTANTS
  WaitSteps = 1
  MaxMisses = 2
  MaxDoms = 2
SPECIFICATION FairSpec
PROPERTIES
  AutoReconnect
CHECK_DEADLOCK FALSE
