\* A cut with an image: generations, selections and a batch, two requests out at
\* once, answers that get lost.
SPECIFICATION WorkspaceSpec
CONSTANTS
  MaxJobs = 3
  NumCuts = 1
  Job <- MCJob
  Cut <- MCCut
  Null = Null
  InitialRow <- OneImage
  InitialCut <- OneSelected
  Button <- EveryButton
  AnswersLost = TRUE
  Hands = 2
INVARIANTS
  WorkspaceTypeOK
  ShowsWhatWasRequested
  RestsOnRows
PROPERTY EndsAreShown
CHECK_DEADLOCK FALSE
