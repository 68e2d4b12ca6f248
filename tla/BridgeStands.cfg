CONSTANTS
  Pids <- OnePid
  QueueSize = 2
  TableSize = 1
  EscalationCount = 2
  EscalationWindow = 1
  DedupWindow = 1
  ReconnectBase = 1
  ReconnectMax = 2
  MaxTime = 2
  MaxAlerts = 3
SPECIFICATION Spec
PROPERTIES
  MaliciousStands
