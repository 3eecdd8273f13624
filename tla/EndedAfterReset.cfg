\* Selections change in the moment in which a clip ends.
SPECIFICATION PlayerSpec
CONSTANTS
  Clips = 6
  Video = {v1, v2}
  NoVideo = NoVideo
  MaxChanges = 1
INVARIANT StopsOnReset
CHECK_DEADLOCK FALSE
