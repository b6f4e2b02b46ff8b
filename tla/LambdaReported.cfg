SPECIFICATION Spec
CONSTANTS
    Scenarios <- Lambdas
    Words <- MCWords
    Inputs <- MCInputs
INVARIANTS
    AcceptsAllOfBnf
