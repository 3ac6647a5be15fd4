SPECIFICATION FairSpec
CONSTANTS
  Uplink = {1, 2}
  Gated = {1}
  Weighted = {1}
  Subnet = {"main", "guest"}
  Priority <- Priorities
  Lease <- Leases
  Hop = {0, 1}
  Within <- Hops
  TableOffset = 250
  Configs <- Mixed
  MaxHosts = 1
  MaxIndex = 3
  ChangeKinds = {"link", "route", "lease", "health", "host", "wipe"}
  MaxChanges = 2
  FaultKinds = {"links", "routes", "npt", "marks", "rules", "tables", "learn", "hosts", "command", "crash"}
  MaxFaults = 1
  Stops = TRUE
INVARIANT TypeOK
INVARIANT PassSettles
INVARIANT SteeredIsTranslated
INVARIANT ExternalsAreOwn
INVARIANT CleanExit
PROPERTY NeverUncovered
PROPERTY NoRuleIsLeftDangling
PROPERTY HostsAreKept
PROPERTY Converges
CHECK_DEADLOCK FALSE
