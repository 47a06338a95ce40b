CONSTANTS
    TAUTOLOGY = 100000
    Pairs <- ManyTables
    Triples <- SomeTables
SPECIFICATION Spec
INVARIANTS
  LeavesRight
  StepsRight
