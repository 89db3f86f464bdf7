CONSTANTS
  stem = stem
  leafA = leafA
  NumPaths = 2
  Shared = {stem, leafA}
  Uses <- TwoPaths
  Worker = {w1, w2}
  Generations = 1
  StalenessBound = 1
  CheckpointEvery = 1
  MaxToken = 3
  MaxCrash = 1
  EmptyShard = {}
SPECIFICATION Spec
INVARIANT ClockCountsCompletions
INVARIANT CacheFresh
INVARIANT CarryOnlyFromApplied
PROPERTY AcceptedWithinStaleness
SYMMETRY Workers
