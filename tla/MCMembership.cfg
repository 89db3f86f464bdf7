CONSTANTS
  p1 = p1
  p2 = p2
  Peer <- MCPeer
  NumSeeds = 1
  Ttl = 2
  BeatEvery = 1
  PollEvery = 1
  Grace = 3
  MinInterval = 1
  MaxPeers = 2
  MaxSession = 2
  MaxOutage = 1
  MaxFailures = 1
  MaxEvents = 1
  MaxImports = 1
SPECIFICATION FairSpec
PROPERTY LiveOwnersStay
PROPERTY DepartedStayOut
PROPERTY EpochsSupersede
PROPERTY Converges
