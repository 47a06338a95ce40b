CONSTANTS
    TAUTOLOGY = 1000
    NumVars = 2
    InputClauses <- Full
    InitNodes = 7
    MaxNodes = 7
    MaxIncrease = 4
    MinFree = 20
    MaxRef = 3
    Slots = {0}
    SlotOf <- OneSlot
    Handles = {h1, h2, h3}
    ClientOps = {"FromClause", "And", "ValidateClause"}
    ClientClauses = {{2}}
    MaxClause = 26
SPECIFICATION FairSpec
INVARIANTS
  ClaimsSucceed
  FullInv
PROPERTIES
  Returns
