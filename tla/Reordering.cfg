SPECIFICATION Spec
CHECK_DEADLOCK FALSE
CONSTANTS
  InitSize = 6
  MaxSizes = {7, 11}
  MaxIncrease = 50
  MinFree = 20
  MaxVarnum = 2
  MaxHeld = 1
  MaxCounted = 5
  MaxProduced = 7
  MAXREF = 2
  MaxVars = 4
  SwapVarnum = 3
  Increase = 2
  MaxRefs = 9
  Programs <- mcPrograms
  Sessions = 1
  Varnums = {3, 4}
  Ranges <- mcRanges
  Methods <- mcMethods
  Sizes <- mcSizes
  MaxCalls <- mcMaxCalls
  MaxBlocks = 3
INVARIANTS
  TableExact
  SwapsRight
  
PROPERTIES
  KeepsNodes
  ReordersRight
