SPECIFICATION FairSpec
CONSTANTS
    NumLines = 4
    Words = {a, b, c}
    Junk = junk
    Workers = 2
    HmapSizes = {2, 20}
    HasDupfile = TRUE
INVARIANTS
    TypeOK
    TagsRight
    TableOfTheRound
    ResultRight
PROPERTIES
    ImplementsWordlist
    ImplementsRounds
