SPECIFICATION Spec
CONSTANTS
    Scenarios <- Programs
    Words <- MCWords
    Inputs <- MCInputs
INVARIANTS
    AcceptsAllOfBnf
    ContentKept
    AccessorsUnique
