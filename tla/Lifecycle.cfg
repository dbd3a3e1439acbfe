SPECIFICATION LiveSpec
CONSTANTS
    Threads = {main, t1}
    Main = main
    t1 = t1
    main = main
    OffloadThread = ot
    DirectCalls = TRUE
    Pinning = FALSE
    MaxCalls = 2
    None = None
    Ranks = {0, 1}
    Cpus = {0, 1, 2}
    Usable = {0, 1}
    Comma = Comma
    Blank = Blank
    Other = Other
    MaxTokens = 5
INVARIANTS
    IInv
    InitializedInMPI
    FinalizeAlone
    ListHonoured
    NothingInvented
PROPERTIES
    InitReturns
    CallsReturn
    FinalizeReturns
