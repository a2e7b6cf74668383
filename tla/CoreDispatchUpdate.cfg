SPECIFICATION FairSpec
CONSTANTS
  MaxPrompts = 0
  MaxResults = 0
  MaxCores = 2
  MaxUpdates = 1
  MaxResumes = 0
  MaxClaims = 0
  MaxFailures = 0
PROPERTY UpdateEnds
CHECK_DEADLOCK FALSE
