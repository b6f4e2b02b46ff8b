SPECIFICATION Spec
CONSTANTS
    Scenarios <- ReturnValue
    Words <- MCWords
    Inputs <- MCInputs
INVARIANTS
    AcceptsAllOfBnf
