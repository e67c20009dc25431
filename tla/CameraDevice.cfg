CONSTANTS
  BUFFER_NUMBER = 2
  MAX_BUFFER_NUM = 3
SPECIFICATION FairSpec
INVARIANT FramesAreMapped
INVARIANT BuffersAccounted
INVARIANT FlagIsSettled
INVARIANT ConversionFits
INVARIANT NothingStays
INVARIANT UnmapsItsOwn
PROPERTY StopReturns
CHECK_DEADLOCK FALSE
