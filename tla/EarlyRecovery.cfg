\* Two submissions at once, one of them of a mode whose keys are gone.
SPECIFICATION Spec
CONSTANTS
  MaxJobs = 3
  NumCuts = 2
  MaxAttempts = 2
  AttemptCap = 3
  Concurrency = 2
  Generations = {0}
  Worker = Worker
  None = None
  Proc <- MCProc
  Backlog <- AnchoredLive
  ModesInUse = {"MOCK"}
  LiveOptions = {FALSE}
  LockTimeouts = FALSE
  Hook = {}
  MaxDeliveries = 0
  Client = {}
  RequestKinds = {}
  MaxCrashes = 0
INVARIANT RecoversOnlyOrphanedSubmits
