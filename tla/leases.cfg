SPECIFICATION FairSpec
CONSTANTS
  r = r
  a = a
  s = s
  Uplink = {r, a}
  Prefix = {1, 2, 3}
  SourceOf <- Sources
  Match <- Matches
  KernelRA = {a}
  SocketDepth = 2
  ChannelDepth = 1
  InboxDepth = 2
  MaxChanges = 3
  MaxFaults = 1
INVARIANT TypeOK
INVARIANT FollowsTheKernel
INVARIANT NoResurrection
PROPERTY Converges
