\* The worker, polling, one job in flight, over an anchor that is generated
\* again before two images, one of whose calls raise, with retries and one crash,
\* while the scene is read.
SPECIFICATION FairViewSpec
CONSTANTS
  MaxJobs = 4
  NumCuts = 3
  MaxAttempts = 2
  AttemptCap = 3
  Concurrency = 1
  Generations = {0}
  Worker = Worker
  None = None
  Proc <- MCProc
  Backlog <- AnchorRetried
  ModesInUse = {"MOCK"}
  LiveOptions = {FALSE}
  LockTimeouts = FALSE
  Hook = {}
  MaxDeliveries = 0
  Client = {}
  RequestKinds = {}
  MaxCrashes = 1
INVARIANTS
  TypeOK
  AttemptBound
  NoBlindResubmit
  ConcurrencyBound
  HeldIsExplained
PROPERTIES
  FollowsLifecycle
  UnanchoredOnlyAfterFailure
  JobsEnd
