SPECIFICATION KissatSpec
CHECK_DEADLOCK FALSE
CONSTANTS
  Vars <- mcVars
  XorClauseLimit = 4
  OccurrenceLimit = 4
  ClauseSizeLimit = 3
  AdditionalClauses = 1
  GatesUsed = TRUE
  Inputs <- mcInputs
  MaxProbes = 2
  Formulas <- mcFormulas
  ChronoLevels = 0
  EagerSubsume = 2
  MaxReductions <- mcReductions
INVARIANTS
  ClausesRight
  ModelsExtend
  SearchRight
PROPERTIES
  SearchEnds
