SPECIFICATION FairSpec
CONSTANTS
  Entry = {1}
  Ident <- SameIdent
  EventDepth = 1
  ProbeDepth = 2
  Prompt = TRUE
  Stops = FALSE
  MaxChanges = 2
  FaultKinds = {"read", "command", "solicit", "message", "answer"}
  MaxFaults = 2
PROPERTY FreeIsAnswered
PROPERTY ContestedIsRetracted
