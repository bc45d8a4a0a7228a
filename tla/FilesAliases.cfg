SPECIFICATION Spec
CONSTANTS
    MaxLines = 3
    MaxOld = 2
    BUF_SIZE = 2
INVARIANTS
    TypeOK
    InputUntouched
    NothingBeforeChecks
    OutputExact
    DupfileExact
