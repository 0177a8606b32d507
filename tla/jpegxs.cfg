SPECIFICATION XsSpec
CONSTANTS
  U16 = 4
  U32 = 8
  U64 = 64
  UsPerSec = 10
  ClockRates = {3}
  TsBases = {0}
  Timestamps <- MCTimestamps
  Payloads = {}
  MaxPacketSize = 6
  FMod = 2
  PMod = 4
  UnitLens <- MCUnitLens
  SliceIndices = {0, 1}
  MaxUnits = 3
INVARIANTS
  UnitsDeliveredWhole
  FrameCounterCountsFrames
  CountersLocateChunk
  LastAndMarker
CHECK_DEADLOCK FALSE
