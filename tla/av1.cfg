SPECIFICATION Av1Spec
CONSTANTS
  U16 = 4
  U32 = 8
  U64 = 64
  UsPerSec = 10
  ClockRates = {3}
  TsBases = {0}
  Timestamps <- MCTimestamps
  Payloads = {}
  MaxPacketSize = 4
  TemporalUnits <- MCTemporalUnits
  LebBase = 4
  LEB128_MAX_SIZE = 2
  MAX_OBUS_PER_TU = 3
  MaxUnits = 2
INVARIANTS
  ParsesBack
  ElementsDeliveredWhole
  MarkerMeansWholeUnit
  NewSequenceIsFirst
  SuccessMeansDelivered
CHECK_DEADLOCK FALSE
