CONSTANTS
  a = a
  b = b
  s = s
  u = u
  Path = {a, b}
  Key = {s, u}
  Keys <- TwoPaths
  NumOwners = 2
  IOThreads = 1
  Replicas <- OneEach
  Dir <- OwnDirectories
  Worker = {w1, w2}
  Slow = {}
  Leavers = {w2}
  NumGenerations = 2
  MoreGenerations = 2
  StalenessBound = 0
  CheckpointEvery = 0
  MaxToken = 9
  MaxFaults = 1
  NoFile = NoFile
  Torn = Torn
  NoLease = NoLease
SPECIFICATION Spec
INVARIANT CommitsTheirGeneration
INVARIANT AcceptedLands
CHECK_DEADLOCK FALSE
