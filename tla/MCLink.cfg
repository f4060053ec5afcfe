SPECIFICATION LinkSpec
CONSTANTS
  Base = 4
  Sof = 3
  MaxPayload = 3
  Interbyte = 2
  Frames <- MCFrames
  MaxFrames = 3
  MaxWire = 7
  Latency = 1
  MinLen <- MCMinLen
  ReplyLen <- MCReplyLen
  ShortLen <- MCShortLen
  CaptureCmd = 2
  CaptureMax = 2
  DrainCmd = 1
  DrainMax = 2
  ResultSize = 1
  ReplyCap = 9
  TxSize = 12
  RingDepth = 3
  MaxResults = 3
INVARIANTS
  FramesDispatched
  AnswersArrive
