SPECIFICATION NalSpec
CONSTANTS
  U16 = 4
  U32 = 8
  U64 = 64
  UsPerSec = 10
  ClockRates = {3}
  TsBases = {0}
  Timestamps <- MCTimestamps
  Payloads = {}
  Codecs = {"H264", "H265"}
  MaxNaluSize <- MCMaxNaluSize
  PayloadLens <- MCPayloadLens
  Headers <- MCHeaders
  MaxNals = 3
INVARIANTS
  FragmentsWellFormed
  MarkerEndsAccessUnit
  DeliveredWhole
  SuccessMeansDelivered
  HeadersDelivered
PROPERTIES
  ImplementsDelivery
  CallReturns
CHECK_DEADLOCK FALSE
