SPECIFICATION FairSpec
CONSTANTS
    Words = {a, b, c, d}
    Empty = empty
    Size = 5
    SIZE_MAX = 15
INVARIANTS
    TypeOK
    TableSound
    AnswersRight
PROPERTIES
    ImplementsLineTable
    ProbesAdvance
    LoopsEnd
