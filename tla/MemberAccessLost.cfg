SPECIFICATION Spec
CONSTANTS
    Scenarios <- MemberAccess
    Words <- MCWords
    Inputs <- MCInputs
INVARIANTS
    ContentKept
