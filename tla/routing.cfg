SPECIFICATION FairSpec
CONSTANTS
  Uplink = {1, 2}
  Steered = {1}
  Manageable = {TRUE, FALSE}
  Orders <- InOrder
  Pool <- Pools
  Via <- Hops
  TableOffset = 250
  MaxIndex = 3
  ChangeKinds = {"link", "address", "route", "health"}
  MaxChanges = 2
  FaultKinds = {"links", "routes", "own", "abandoned", "rules", "tables", "command", "crash"}
  MaxFaults = 2
  Stops = TRUE
INVARIANT TypeOK
INVARIANT PassSettles
INVARIANT CleanExit
PROPERTY OnlyTheUnusedIsTornDown
PROPERTY NoRuleIsLeftDangling
PROPERTY Converges
CHECK_DEADLOCK FALSE
