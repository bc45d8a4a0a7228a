SPECIFICATION Spec
CONSTANTS
    NumLines = 3
    Words = {a}
    Junk = junk
    Workers = 2
    HmapSizes = {20}
    HasDupfile = FALSE
INVARIANT FilteredExact
