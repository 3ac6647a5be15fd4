SPECIFICATION Spec
CONSTANTS
  Entry = {1, 2}
  Ident <- SameIdent
  EventDepth = 1
  ProbeDepth = 1
  Prompt = TRUE
  Stops = TRUE
  MaxChanges = 1
  FaultKinds = {"read", "command", "solicit", "message", "answer"}
  MaxFaults = 1
INVARIANT PassSettles
PROPERTY NoBlindReclaim
CHECK_DEADLOCK FALSE
