CONSTANTS
  BgWidth = 70
  BgHeight = 36
  IconSizes <- MCIconSizes
  Samples = {0, 1, 128, 255}
  Times <- MCTimes
SPECIFICATION Spec
INVARIANT PointersAgree
INVARIANT StampInside
INVARIANT TimeIsShown
INVARIANT BytesFit
CHECK_DEADLOCK FALSE
