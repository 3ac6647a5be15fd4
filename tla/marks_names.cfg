SPECIFICATION Spec
CONSTANTS
  Configs <- Shared
  Mappings <- Maps
  ChangeKinds = {"mapped", "nft", "chain", "jump"}
  MaxChanges = 0
  FaultKinds = {"read", "command", "crash"}
  MaxFaults = 0
  MaxJumps = 3
  Stops = FALSE
PROPERTY SettledIsLeftAlone
CHECK_DEADLOCK FALSE
