CONSTANTS
  QE_SIZE = 2
  MaxPush = 2
SPECIFICATION FairSpec
PROPERTY EndReturns
CHECK_DEADLOCK FALSE
