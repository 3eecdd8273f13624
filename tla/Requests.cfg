\* Two requests at a time over two cuts, in both modes, with selections and
\* commits that find the database locked.
SPECIFICATION Spec
CONSTANTS
  MaxJobs = 4
  NumCuts = 2
  MaxAttempts = 1
  AttemptCap = 2
  Concurrency = 1
  Generations = {0}
  Worker = Worker
  None = None
  Proc <- MCProc
  Backlog <- ImageAndMalformed
  ModesInUse = {"MOCK", "LIVE"}
  LiveOptions = {TRUE}
  LockTimeouts = TRUE
  Hook = {}
  MaxDeliveries = 0
  Client = {p1, p2}
  RequestKinds = {"VIDEO"}
  MaxCrashes = 0
SYMMETRY Handlers
INVARIANTS
  SourceOfOwnCutAndMode
  SelectionOfOwnCut
PROPERTY FollowsBoard
