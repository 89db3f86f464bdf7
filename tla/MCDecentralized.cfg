CONSTANTS
  o1 = o1
  o2 = o2
  o3 = o3
  w1 = w1
  w2 = w2
  p1 = p1
  p2 = p2
  None = None
  Owner <- MCOwner
  Worker <- MCWorker
  Path <- MCPath
  OwnerRank <- MCOwnerRank
  ModuleRank <- MCModuleRank
  WorkerRank <- MCWorkerRank
  Target <- MCTarget
  Quorum = 2
  Bound = 4
  Strikes = 1
  Bootstrapped = TRUE
  MaxFailures = 1
SPECIFICATION FairSpec
INVARIANT NeverPoisoned
INVARIANT ConfirmedIsKept
PROPERTY WorkContinues
