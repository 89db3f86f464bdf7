CONSTANTS
  Path = {p1, p2}
  Worker = {w1, w2, w3}
  MaxAttempts = 3
  NoPath = NoPath
SPECIFICATION FairSpec
INVARIANT NoPathLost
INVARIANT AttemptsBounded
PROPERTY GenerationsEnd
PROPERTY ImplementsLedger
