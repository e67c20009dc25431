CONSTANTS
  Numbers = {7}
  Pairs <- MCPairs
  Lists <- MCLists
  MaxArgs = 2
SPECIFICATION Spec
INVARIANT QualityAsHelpSays
CHECK_DEADLOCK FALSE
