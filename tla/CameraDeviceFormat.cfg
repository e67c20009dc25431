CONSTANTS
  BUFFER_NUMBER = 1
  MAX_BUFFER_NUM = 1
SPECIFICATION Spec
INVARIANT EncoderGetsPlanar
CHECK_DEADLOCK FALSE
