SPECIFICATION Spec
CONSTANTS
  MaxPrompts = 0
  MaxResults = 1
  MaxCores = 1
  MaxUpdates = 1
  MaxResumes = 1
  MaxClaims = 2
  MaxFailures = 0
INVARIANT ReviewedOnce
CHECK_DEADLOCK FALSE
