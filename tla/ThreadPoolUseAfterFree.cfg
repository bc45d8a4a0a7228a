SPECIFICATION Spec
CONSTANTS
    Threads = {t1, t2}
    Main = main
    None = none
    MaxJobs = 1
    INT_MAX = 5
    MayFail = FALSE
INVARIANT NoUseAfterFree
