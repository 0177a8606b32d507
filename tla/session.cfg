SPECIFICATION Spec
CONSTANTS
  Finite = {"audio", "video"}
  Looping = {"av1"}
  Unwrapped = {"audio"}
  TransportHeaders <- MCTransportHeaders
  SessionIds = {0, 1}
  Length = 1
  MaxRequests = 4
INVARIANTS
  TimersAreSafe
  ClosesWhenPlayedOut
  FreedExactly
PROPERTIES
  PlayedOutCloses
CHECK_DEADLOCK FALSE
