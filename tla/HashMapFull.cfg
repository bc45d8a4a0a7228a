SPECIFICATION FairSpec
CONSTANTS
    Words = {a, b, c, d}
    Empty = empty
    Size = 3
    SIZE_MAX = 15
PROPERTY ChecksEnd
