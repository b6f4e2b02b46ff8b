SPECIFICATION Spec
CONSTANTS
    Scenarios <- Shifting
    Words <- MCWords
    Inputs <- MCInputs
INVARIANTS
    AcceptsAllOfBnf
