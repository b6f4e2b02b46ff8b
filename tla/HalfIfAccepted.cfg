SPECIFICATION Spec
CONSTANTS
    Scenarios <- HalfAnIf
    Words <- MCWords
    Inputs <- MCInputs
INVARIANTS
    AcceptsOnlyBnf
