CONSTANTS
  stem = stem
  leafA = leafA
  NumPaths = 1
  Shared = {stem}
  Uses <- OnePath
  Worker = {w1, w2}
  Generations = 2
  StalenessBound = 1
  CheckpointEvery = 0
  MaxToken = 4
  MaxCrash = 0
  EmptyShard = {}
SPECIFICATION FairSpec
PROPERTY AcceptedInSequence
PROPERTY LeasesAreReleased
