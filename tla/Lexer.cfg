SPECIFICATION FairSpec
CONSTANTS
    Alphabets <- MCAlphabets
    Sources <- MCSources
INVARIANTS
    TypeOK
    YieldsWellLexed
    GapsAreSilent
    LongestOperator
    StandsAlone
    CaretUnderToken
PROPERTIES
    Finishes
CHECK_DEADLOCK FALSE
