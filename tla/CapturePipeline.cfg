CONSTANTS
  FIFO_SIZE = 3
  nBufferNum = 3
  BUFFER_NUMBER = 1
  MaxFrames = 4
SPECIFICATION FairSpec
INVARIANT InputBufferOwnership
INVARIANT CameraBufferOwnership
INVARIANT EnqueueFits
INVARIANT NoLostFrameWakeup
INVARIANT EncodedInOrder
INVARIANT RawIsEncoded
INVARIANT EncoderQuiesced
PROPERTY QueuedIsEncoded
PROPERTY EndOfInputStops
PROPERTY StopUnlessAsleep
CHECK_DEADLOCK FALSE
