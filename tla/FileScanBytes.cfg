SPECIFICATION FairSpec
CONSTANTS
    Letters = {a, b}
    NL = nl
    CR = cr
    DISABLED_LINE = nul
    MaxLen = 6
    line_max_size = 2
    chunk_size = 1
INVARIANTS
    TypeOK
    OutputIsReference
    ChunksStable
    ReadIntact
PROPERTIES
    ImplementsWordlist
    ImplementsRounds
