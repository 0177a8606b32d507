SPECIFICATION MediaSpec
CONSTANTS
  Media <- MCMedia
  AUDIO_SAMPLES_PER_PACKET = 3
  TS_STEP = 2
  AV1_MAX_TUS = 2
  MaxSent = 9
INVARIANTS
  MediaSentWhole
  UnitsPaced
CHECK_DEADLOCK FALSE
