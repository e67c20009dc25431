CONSTANTS
  Widths = {1, 2, 3}
  Heights = {2, 3}
  MaxBytes = 20
  MaxErrors = 2
SPECIFICATION FairSpec
INVARIANT PictureIntact
PROPERTY StreamSpec
PROPERTY InputEnds
CHECK_DEADLOCK FALSE
