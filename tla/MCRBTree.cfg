SPECIFICATION MCSpec
CONSTANTS
  MaxNodes = 14
  FreeNodes = 7
  MaxCuts = 4
  Nodes <- MCNodes
  Key <- MCKey
  nil = nil
  Junk = junk
INVARIANTS IsRedBlackTree SearchComplete SameTree 
PROPERTY OperationsEnd
