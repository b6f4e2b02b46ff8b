SPECIFICATION FairSpec
CONSTANTS
    MaxLexemes = 2
    MaxStep = 1
    MaxMarks = 2
    MaxDiags = 1
    Sources <- MCSources
INVARIANTS
    TypeOK
    ReadsInBounds
    EofStaysAhead
    TokensSpellSource
    UnknownReportedOnce
    SpansCoverConsumed
PROPERTIES
    MarksKeepText
    ImplementsReader
    RequestsAnswered
