SPECIFICATION UdpSpec
CONSTANTS
  U16 = 4
  U32 = 16
  U64 = 64
  UsPerSec = 10
  ClockRates <- MCClockRates
  TsBases <- MCTsBases
  Timestamps <- MCTimestamps
  Payloads <- MCPayloads
  MAX_RETRANSMITS = 3
  MaxWire = 5
INVARIANTS
  UdpTypeOK
  SeqGapless
  CountersMatchWire
  NoDrift
PROPERTIES
  ImplementsTransport
  CallReturns
CHECK_DEADLOCK FALSE
