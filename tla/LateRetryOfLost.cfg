\* A callback that holds its retry back while the next submission of the image is
\* lost.
SPECIFICATION Spec
CONSTANTS
  MaxJobs = 1
  NumCuts = 1
  MaxAttempts = 2
  AttemptCap = 3
  Concurrency = 1
  Generations = {0}
  Worker = Worker
  None = None
  Proc <- MCProc
  Backlog <- ImageBatch
  ModesInUse = {"MOCK"}
  LiveOptions = {FALSE}
  LockTimeouts = FALSE
  Hook = {h1}
  MaxDeliveries = 1
  Client = {}
  RequestKinds = {}
  MaxCrashes = 0
INVARIANT NoBlindResubmit
