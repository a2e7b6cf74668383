SPECIFICATION FairSpec
CONSTANTS
  MaxCores = 4
  MaxVersion = 1
  MaxUpdates = 1
  MaxResumes = 0
  MaxCrashes = 1
  MaxPresses = 1
  RecoverDuringStart = FALSE
PROPERTY NothingHangs
CHECK_DEADLOCK FALSE
