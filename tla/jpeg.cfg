SPECIFICATION JpegSpec
CONSTANTS
  U16 = 4
  U32 = 8
  U64 = 64
  UsPerSec = 10
  ClockRates = {3}
  TsBases = {0}
  Timestamps <- MCTimestamps
  Payloads = {}
  MaxPacketSize = 20
  OffsetMod = 16
  Frames <- MCFrames
  MaxFrames = 3
INVARIANTS
  PacketsFit
  FramesReassemble
  SuccessMeansDelivered
CHECK_DEADLOCK FALSE
