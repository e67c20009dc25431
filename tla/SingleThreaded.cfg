CONSTANTS
  Elem = {a, b, c}
  rawSize = 3
  NoResult = none
  Numbers = {0, 7}
  Pairs <- MCPairs
  Lists <- MCLists
  MaxArgs = 3
SPECIFICATION SingleThreadedSpec
INVARIANT CursorsAgree
INVARIANT OptionsAgree
INVARIANT SizesAgree
PROPERTY QueueSpec
CHECK_DEADLOCK FALSE
