SPECIFICATION Spec
CONSTANTS
  video = video
  audio = audio
  U16 = 3
  Streams <- MCStreams
  Sizes = {1, 2}
  MaxBuffer = 2
  ResponseParts = 2
  Deployments = {"threads"}
  MayStop = FALSE
  MaxFrames <- MCMaxFrames
  MaxResponses = 1
INVARIANT
  NoRaces
CHECK_DEADLOCK FALSE
