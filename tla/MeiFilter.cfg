CONSTANTS
  s1 = s1
  s2 = s2
  Senders <- TwoSenders
  MaxActive = 1
  MaxSends = 3
SPECIFICATION Spec
SYMMETRY SenderSymmetry
CHECK_DEADLOCK FALSE
INVARIANTS
  TypeOK
  OwnDecision
  BlockedIsRefused
  NoProbeLeft
