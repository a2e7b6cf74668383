SPECIFICATION FairSpec
CONSTANTS
  Clients = {c1}
  MaxJobs = 2
  MaxApprovals = 1
  MaxControls = 1
  MaxSteps = 1
  Faults = {"reset"}
PROPERTY SubmittedJobsEnd
CHECK_DEADLOCK FALSE
