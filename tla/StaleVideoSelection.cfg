\* A video finishing against the selection of another image.
SPECIFICATION Spec
CONSTANTS
  MaxJobs = 4
  NumCuts = 1
  MaxAttempts = 2
  AttemptCap = 3
  Concurrency = 1
  Generations = {0}
  Worker = Worker
  None = None
  Proc <- MCProc
  Backlog <- TwoImages
  ModesInUse = {"MOCK"}
  LiveOptions = {FALSE}
  LockTimeouts = FALSE
  Hook = {}
  MaxDeliveries = 0
  Client = {p1}
  RequestKinds = {}
  MaxCrashes = 0
INVARIANT VideoOfSelectedImage
