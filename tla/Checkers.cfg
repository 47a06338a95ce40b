SPECIFICATION MCSpec
CHECK_DEADLOCK FALSE
CONSTANTS
  NVars = 4
  Checks <- mcChecks
  CheckedVars <- mcVars
  Cnf <- mcCnf
  Lemmas <- mcLemmas
  HintLists <- mcHints
  MaxId = 5
  Clauses <- mcClauses
  Indices <- mcIndices
  BUCKET = 2
  InitTop = 2
  InitAlloc = 12
INVARIANTS
  OutputsRight
  PropagationRight
  
  BucketsExact

  
