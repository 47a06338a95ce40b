CONSTANTS
    TAUTOLOGY = 1000
    NumVars = 2
    InputClauses <- Clash
    InitNodes = 7
    MaxNodes = 11
    MaxIncrease = 4
    MinFree = 20
    MaxRef = 3
    Slots = {0}
    SlotOf <- OneSlot
    Handles = {h1, h2, h3}
    ClientOps = {"FromClause", "And", "Validate", "ValidateWithAnd"}
    ClientClauses = {}
    MaxClause = 26
SPECIFICATION Spec
SYMMETRY Symm
INVARIANTS
  ExitJustified
  OneOwner
PROPERTIES
  LinesCheck
