SPECIFICATION Spec
CONSTANTS
  MaxCores = 4
  MaxVersion = 2
  MaxUpdates = 1
  MaxResumes = 1
  MaxCrashes = 1
  MaxPresses = 1
  RecoverDuringStart = FALSE
INVARIANT TypeOK
INVARIANT OneCoreInCharge
INVARIANT CapturedIsFinal
CHECK_DEADLOCK FALSE
