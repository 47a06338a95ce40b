CONSTANTS
    TAUTOLOGY = 100000
    Pairs = {}
    Triples <- SomeTables
SPECIFICATION Spec
INVARIANT
    EveryStepJustified
