SPECIFICATION FairSpec
CONSTANTS
    Threads = {t1, t2}
    Main = main
    None = none
    MaxJobs = 3
    INT_MAX = 5
    MayFail = FALSE
PROPERTIES
    ClientIsServed
    DestroyEnds
    ImplementsWorkPool
