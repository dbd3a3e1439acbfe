SPECIFICATION Spec
CONSTANTS
    Threads = {main, t1}
    Main = main
    t1 = t1
    main = main
    OffloadThread = ot
    DirectCalls = FALSE
    Pinning = TRUE
    MaxCalls = 2
    None = None
INVARIANTS
    PinsItself
