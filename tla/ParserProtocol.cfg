SPECIFICATION FairSpec
CONSTANTS
    Scenarios <- Protocol
    Words <- MCWords
    Inputs <- MCInputs
PROPERTIES
    UsesReader
    Terminates
