\* Callbacks against the worker: the image of one cut, two deliveries.
SPECIFICATION Spec
CONSTANTS
  MaxJobs = 1
  NumCuts = 1
  MaxAttempts = 2
  AttemptCap = 3
  Concurrency = 1
  Generations = {0}
  Worker = Worker
  None = None
  Proc <- MCProc
  Backlog <- ImageBatch
  ModesInUse = {"MOCK"}
  LiveOptions = {FALSE}
  LockTimeouts = FALSE
  Hook = {h1, h2}
  MaxDeliveries = 2
  Client = {}
  RequestKinds = {}
  MaxCrashes = 1
PROPERTY TerminalIsFinal
