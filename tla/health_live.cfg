SPECIFICATION FairSpec
CONSTANTS
  Key = {a}
  Addr = {0}
  UnhealthyThreshold = 2
  HealthyThreshold = 1
  QueueDepth = 2
  MaxChanges = 1
PROPERTY BeliefConverges
PROPERTY ShutdownCompletes
