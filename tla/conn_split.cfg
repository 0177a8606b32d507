SPECIFICATION ConnectionSpec
CONSTANTS
  Traffic <- MCTraffic
  Alphabet <- MCAlphabet
  Beyond <- ADigit
  HEADER_MAP_CAPACITY = 3
  MAX_HEADER_VALUE = 3
  UINT8_MAX = 255
  UINT16_MAX = 65535
  UINT32_MAX = 99
  SIZE_MAX = 99
  Headers <- MCHeaders
  Bodies <- MCBodies
  MaxHeaders = 1
INVARIANT PrefixesArePartial
CHECK_DEADLOCK FALSE
