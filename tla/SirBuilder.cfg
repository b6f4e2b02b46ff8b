SPECIFICATION FairSpec
CONSTANTS
    Bodies <- MCBodies
    Scripts <- MCScripts
    Nodes <- MCNodes
INVARIANTS
    TypeOK
    RefsExist
    ScopesMatchCalls
    ArenaIsTree
    TypesAgree
    NothingLost
    NamesResolveLexically
    ErrorsReported
PROPERTIES
    ArenaGrows
    Finishes
CHECK_DEADLOCK FALSE
