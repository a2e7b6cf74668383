SPECIFICATION Spec
CONSTANTS
  Threads = {t1, t2}
  NoThread = NoThread
  Plugins = {p, q}
  Transferring = {p}
  Installed = {p}
  MaxRequests = 2
  MaxLoads = 2
  MaxDepth = 2
  Faults = {"notify"}
  Processes = {p1, p2}
  NoProcess = NoProcess
  Packages = {a, b}
  Preinstalled = {a}
  MaxVersion = 2
  MaxPlans = 2
  MaxCrashes = 1
  MaxRevision = 3
  MaxMessages = 2
  MaxRetries = 1
  MaxChildren = 2
  MaxParallel = 1
  MaxReloads = 1
  MaxPrompts = 1
  Attended = {1}
  MaxFrames = 2
  Lengths = {1, 4}
  Budget = 16
  KeepRecent = 1
  MaxMemory = 4
  MaxTurns = 2
  MaxSteps = 2
  Candidates = {c1, c2}
  x = x
  y = y
  TopScore = 1
  Workers = 2
  TopK = 1
  MaxRefinements = 1
  MaxBatches = 2
  MaxKills = 1
  Limit = 1
  Retries = 1
  MaxQuestions = 2
  MaxFaults = 1
INVARIANT TypesOK
INVARIANT ReloadsSound
PROPERTY ImplementsReloadService
INVARIANT InstalledTreesExist
PROPERTY AllOrNothing
INVARIANT GoalHonest
INVARIANT ChildrenOwned
INVARIANT ResultsGenuine
INVARIANT NothingLeftRunning
INVARIANT RequestsSound
CHECK_DEADLOCK FALSE
