SPECIFICATION Spec
CONSTANTS
    Threads = {main, t1}
    Main = main
    t1 = t1
    main = main
    OffloadThread = ot
    DirectCalls = TRUE
    Pinning = FALSE
    MaxCalls = 2
    None = None
INVARIANTS
    AsIfMultiple
