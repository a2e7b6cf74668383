SPECIFICATION FairSpec
CONSTANTS
  Clients = {c1}
  MaxJobs = 2
  MaxApprovals = 2
  MaxControls = 1
  MaxSteps = 1
  Faults = {"reset", "exit"}
INVARIANT TypeOK
INVARIANT ResolvedOnce
INVARIANT QuiescentMeansResolved
INVARIANT StopIsLast
INVARIANT ExecutedWereGranted
INVARIANT PendingIsLive
INVARIANT NoUiAfterCancel
PROPERTY ImplementsJobService
PROPERTY WorkEnds
CHECK_DEADLOCK FALSE
