SPECIFICATION FairSpec
CONSTANTS
    INT_MAX = 32767
    LLONG_MAX = 536870911
    AddressSpace = 4096
    Main = main
    CommandLines <- MC_CommandLines
    Inputs <- MC_Inputs
    Memories <- MC_Memories
    Cpus = 2
    Overshoots <- MC_Overshoots
    MaxChunks = 3
    CopyBlock = 16384
    Batches <- MC_Batches
INVARIANTS
    TypeOK
    TerminalRestored
    FailureIsFinal
    TableOutlivesTasks
    ProgressInRange
    SizesFit
PROPERTIES
    Ends
    ImplementsRounds
