SPECIFICATION FairSpec
CONSTANTS
  Blocks = 8
  MaxBlocks = 3
  MaxSegments = 2
  LowThreshold = 2
  HighThreshold = 5
  Word = 64
  MaxFrames = 5
INVARIANTS FifoTypeOK PointersInOrder OnlyWholeFramesSent
PROPERTIES QueueImplemented FramesLeave
