\* Two requests for a scene, with mode switches, a crash and locked commits.
SPECIFICATION SceneDraftSpec
CONSTANTS
  Post = {r1, r2}
  DraftAttempts = 3
  Shapes <- SomeShapes
  NoOne = NoOne
  MaxRestarts = 1
  ModesInUse = {"MOCK", "LIVE"}
  LiveOptions = {FALSE, TRUE}
INVARIANTS
  SceneDraftTypeOK
  StoredSceneIsWhole
  AnswerTells
  OneProviderAskedInMeasure
PROPERTY RequestsAnswered
CHECK_DEADLOCK FALSE
