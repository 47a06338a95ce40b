CONSTANTS
    TAUTOLOGY = 1000
    NumVars = 2
    InputClauses <- Reuse
    InitNodes = 8
    MaxNodes = 8
    MaxIncrease = 4
    MinFree = 20
    MaxRef = 3
    Slots = {0, 1, 2}
    SlotOf <- Hash
    Handles = {h1, h2, h3}
    ClientOps = {"FromClause", "And"}
    ClientClauses = {}
    MaxClause = 34
SPECIFICATION Spec
SYMMETRY Symm
INVARIANTS
  TrustedSound
  NothingLeaks
  CacheRight
