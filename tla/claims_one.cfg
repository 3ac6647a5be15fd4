SPECIFICATION Spec
CONSTANTS
  Entry = {1}
  Ident <- SameIdent
  EventDepth = 1
  ProbeDepth = 1
  Prompt = FALSE
  Stops = TRUE
  MaxChanges = 2
  FaultKinds = {"read", "command", "solicit", "message", "answer"}
  MaxFaults = 1
INVARIANT TypeOK
INVARIANT NeverAnsweredWhileProving
INVARIANT ContestIsFresh
INVARIANT CleanExit
CHECK_DEADLOCK FALSE
