CONSTANTS
  a = a
  b = b
  s = s
  u = u
  Path = {a}
  Key = {s}
  Keys <- OneModule
  NumOwners = 2
  IOThreads = 2
  Replicas <- BothHold
  Dir <- OwnDirectories
  Worker = {w1}
  Slow = {w1}
  Leavers = {}
  NumGenerations = 2
  MoreGenerations = 1
  StalenessBound = 0
  CheckpointEvery = 1
  MaxToken = 4
  MaxFaults = 1
  NoFile = NoFile
  Torn = Torn
  NoLease = NoLease
SPECIFICATION FairSpec
INVARIANT CheckpointCounts
INVARIANT RecoveryPointOnDisk
PROPERTY RunEnds
CHECK_DEADLOCK FALSE
