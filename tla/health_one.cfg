SPECIFICATION Spec
CONSTANTS
  Key = {a}
  Addr = {0, 1}
  UnhealthyThreshold = 2
  HealthyThreshold = 1
  QueueDepth = 1
  MaxChanges = 1
INVARIANT KeptInv
INVARIANT EveryVerdictIsNews
INVARIANT OneMonitorPerTarget
INVARIANT NoneOutlivesTheLoop
PROPERTY BeliefsKept
