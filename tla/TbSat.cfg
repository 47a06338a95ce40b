SPECIFICATION MCSpec
CHECK_DEADLOCK FALSE
CONSTANTS
  MaxVar = 3
  max_solutions = 3
  Inputs <- mcInputs
  MaxEqnVar = 4
  Systems <- mcSystems
  Lists <- mcLists
INVARIANTS
  RunRight
  EliminationRight
  
PROPERTIES
  Promised
