SPECIFICATION Spec
CONSTANTS
  MaxCores = 4
  MaxVersion = 1
  MaxUpdates = 0
  MaxResumes = 0
  MaxCrashes = 0
  MaxPresses = 1
  RecoverDuringStart = TRUE
INVARIANT RecoveryKeepsRunning
CHECK_DEADLOCK FALSE
