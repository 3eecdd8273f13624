\* A new scene: the first image is selected while the scene is being read.
SPECIFICATION WorkspaceSpec
CONSTANTS
  MaxJobs = 3
  NumCuts = 1
  Job <- MCJob
  Cut <- MCCut
  Null = Null
  InitialRow <- Nothing
  InitialCut <- NoSelection
  Button <- EveryButton
  AnswersLost = FALSE
  Hands = 2
INVARIANT RestsOnSelections
CHECK_DEADLOCK FALSE
