SPECIFICATION Spec
CONSTANTS
    Scenarios <- Declarations
    Words <- MCWords
    Inputs <- MCInputs
INVARIANTS
    AcceptsAllOfBnf
    AcceptsOnlyBnf
    ContentKept
