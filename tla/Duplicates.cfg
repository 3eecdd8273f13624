\* The deliveries of one image handled two at a time, against the worker.
SPECIFICATION Spec
CONSTANTS
  MaxJobs = 1
  NumCuts = 1
  MaxAttempts = 2
  AttemptCap = 7
  Concurrency = 1
  Generations = {0}
  Worker = Worker
  None = None
  Proc <- MCProc
  Backlog <- ImageBatch
  ModesInUse = {"MOCK"}
  LiveOptions = {FALSE}
  LockTimeouts = TRUE
  Hook = {h1, h2}
  MaxDeliveries = 2
  Client = {}
  RequestKinds = {}
  MaxCrashes = 1
SYMMETRY Handlers
INVARIANTS
  SucceededHasArtifact
  OverrunIsBounded
  
