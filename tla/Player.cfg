\* Six cuts, two videos of each, selections that change twice.
SPECIFICATION PlayerSpec
CONSTANTS
  Clips = 6
  Video = {v1, v2}
  NoVideo = NoVideo
  MaxChanges = 2
INVARIANTS
  PlayerTypeOK
  PlaysOnlyUnderPause
PROPERTIES
  NoCutSkipped
  PlayedOn
CHECK_DEADLOCK FALSE
