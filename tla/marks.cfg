SPECIFICATION FairSpec
CONSTANTS
  Configs <- Apart
  Mappings <- Maps
  ChangeKinds = {"mapped", "nft", "chain", "jump"}
  MaxChanges = 2
  FaultKinds = {"read", "command", "crash"}
  MaxFaults = 2
  MaxJumps = 3
  Stops = TRUE
INVARIANT TypeOK
INVARIANT PassSettles
INVARIANT CleanExit
PROPERTY SettledIsLeftAlone
PROPERTY Converges
CHECK_DEADLOCK FALSE
