SPECIFICATION Spec
CONSTANTS
    Threads = {t1, t2, t3, t4}
    Main = main
    None = none
    MaxJobs = 4
    INT_MAX = 5
    MayFail = TRUE
SYMMETRY Symmetry
INVARIANTS
    TypeOK
    JobsOnceInOrder
    WaitBarrier
    NobodyForgotten
    QuietWhenFreed
    FullyStaffed
