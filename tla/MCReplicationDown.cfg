CONSTANTS
  NumOwners = 2
  LiveSets <- FirstComesAndGoes
  K = 2
  MaxEpochs = 2
  MaxGrant = 1
  MaxSaves = 1
  MaxDown = 1
SPECIFICATION FairSpec
PROPERTY OwnersComeToServe
CHECK_DEADLOCK FALSE
