SPECIFICATION Spec
CONSTANTS
  r = r
  a = a
  s = s
  Uplink = {a}
  Prefix = {1, 2}
  SourceOf <- Sources
  Match <- Matches
  KernelRA = {a}
  SocketDepth = 6
  ChannelDepth = 2
  InboxDepth = 2
  MaxChanges = 3
  MaxFaults = 0
INVARIANT HeldThroughRenumber
