SPECIFICATION Spec
CONSTANTS
  MaxPrompts = 2
  MaxResults = 1
  MaxCores = 3
  MaxUpdates = 1
  MaxResumes = 1
  MaxClaims = 2
  MaxFailures = 1
  MaxWork = 2
  MaxAsks = 1
  Units = 3
  Layouts = {"wide", "narrow"}
  Distances = {2}
  MaxApprovals = 1
  MaxTyped = 1
INVARIANT TypesOK
INVARIANT NothingReplayed
INVARIANT QueueKept
INVARIANT ChatMatchesWork
INVARIANT QueueHonest
PROPERTY EscapeHitsItsJob
INVARIANT ApprovedWasSeen
CHECK_DEADLOCK FALSE
