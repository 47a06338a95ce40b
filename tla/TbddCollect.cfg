CONSTANTS
    TAUTOLOGY = 1000
    NumVars = 3
    InputClauses <- Fork
    InitNodes = 11
    MaxNodes = 13
    MaxIncrease = 4
    MinFree = 20
    MaxRef = 3
    Slots = {0, 1, 2}
    SlotOf <- Hash
    Handles = {h1, h2, h3}
    ClientOps = {"FromClause", "And", "ValidateClause", "Addref"}
    ClientClauses = {{1, 3}}
    MaxClause = 38
SPECIFICATION Spec
SYMMETRY Symm
INVARIANTS
  TypeOK
  NoDangling
  Canonical
  CountsExact
  RefstackExact
  UnitsLive
PROPERTIES
  ReadsAsProof
