CONSTANTS
  NumOutputs = 2
  QE_SIZE = 2
  KeyLimit = 5
  MaxBacklog = 2
SPECIFICATION FairSpec
INVARIANT FormatsApart
PROPERTY HeaderFirst
PROPERTY HeaderBeforeKey
PROPERTY HeaderRepeats
CHECK_DEADLOCK FALSE
