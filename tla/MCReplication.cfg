CONSTANTS
  NumOwners = 2
  LiveSets <- FirstComesAndGoes
  K = 2
  MaxEpochs = 3
  MaxGrant = 2
  MaxSaves = 0
  MaxDown = 0
SPECIFICATION Spec
INVARIANT VersionsIdentifyBytes
INVARIANT AppliedOncePerServer
PROPERTY VersionsGoForward
CHECK_DEADLOCK FALSE
