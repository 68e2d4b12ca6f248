CONSTANTS
  Pids <- OnePid
  QueueSize = 2
  TableSize = 1
  EscalationCount = 3
  EscalationWindow = 1
  DedupWindow = 1
  ReconnectBase = 1
  ReconnectMax = 3
  MaxTime = 5
  MaxAlerts = 3
SPECIFICATION FairBurstSpec
INVARIANTS
  NoMissedBurst
  RetryBounded
PROPERTIES
  NoAlertStuck
