SPECIFICATION Spec
CONSTANTS
    Words = {a, b, c}
    Empty = empty
    Size = 3
    SIZE_MAX = 15
INVARIANT GivenUpIsReported
