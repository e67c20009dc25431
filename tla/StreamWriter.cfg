CONSTANTS
  QE_SIZE = 3
  MaxPush = 4
SPECIFICATION FairSpec
INVARIANT BufferOwnership
INVARIANT NoLostWakeup
INVARIANT CheckedDequeue
INVARIANT TeardownSafe
INVARIANT NoLeak
PROPERTY ChannelSpec
PROPERTY Drained
PROPERTY EndReturnsUnlessMissed
CHECK_DEADLOCK FALSE
