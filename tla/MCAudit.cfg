CONSTANTS
  Path = {p}
  PrivatePath = {p}
  PoisonedPath = {}
  Worker = {w1, w2, w3, w4}
  Faulty = {w4}
  Redundancy = 3
  PrivateQuorum = 2
  ProbeQuorum = 2
  MaxProposals = 2
  Target = 2
  MaxLost = 1
  None = None
SPECIFICATION FairSpec
INVARIANT HonestKeepStanding
INVARIANT NeverOverwrittenAlone
PROPERTY AuditsClose
CHECK_DEADLOCK FALSE
