SPECIFICATION Spec
CONSTANTS
    Scenarios <- Backtracking
    Words <- MCWords
    Inputs <- MCInputs
INVARIANTS
    TypeOK
    RewindsNest
    KidsInConsumedText
PROPERTIES
    NodesConsume
