SPECIFICATION Spec
CONSTANTS
  video = video
  audio = audio
  U16 = 3
  Streams <- MCStreams
  Sizes = {1, 2}
  MaxBuffer = 2
  ResponseParts = 2
  Deployments = {"loop", "senders"}
  MayStop = TRUE
  MaxFrames <- MCMaxFrames
  MaxResponses = 1
INVARIANTS
  TypeOK
  ConnectionDecodes
  AcceptedGapless
  FrameBacklog
PROPERTIES
  LockReleased
  AcceptedArrives
CHECK_DEADLOCK FALSE
