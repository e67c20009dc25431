CONSTANTS
  NumOutputs = 2
  QE_SIZE = 1
  KeyLimit = 5
  MaxBacklog = 1
SPECIFICATION FairSpec
PROPERTY EveryOutputGetsHeader
CHECK_DEADLOCK FALSE
