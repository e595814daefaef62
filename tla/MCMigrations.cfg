SPECIFICATION Spec
CONSTANTS
    Process = {a, b, c}
    LastVersion = 3
    Needs <- MCNeeds
    IfExists = {1, 2}
    Exclusive = TRUE
SYMMETRY Symmetry
INVARIANTS
    LedgerTruthful
PROPERTIES
    UpMeansCurrent
