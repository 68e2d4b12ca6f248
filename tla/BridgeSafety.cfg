CONSTANTS
  Pids <- ThreePids
  QueueSize = 2
  TableSize = 2
  EscalationCount = 2
  EscalationWindow = 1
  DedupWindow = 1
  ReconnectBase = 1
  ReconnectMax = 2
  MaxTime = 3
  MaxAlerts = 3
SPECIFICATION Spec
INVARIANTS
  TypeOK
  ExactlyOnce
  MaliciousDispatched
  OneSlotPerPid
PROPERTIES
  EvictOnlyWhenFull
  ImplementsService
