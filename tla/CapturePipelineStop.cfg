CONSTANTS
  FIFO_SIZE = 2
  nBufferNum = 1
  BUFFER_NUMBER = 1
  MaxFrames = 1
SPECIFICATION FairSpec
PROPERTY DurationEnds
CHECK_DEADLOCK FALSE
