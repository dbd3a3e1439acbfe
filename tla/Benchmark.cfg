SPECIFICATION LiveSpec
CONSTANTS
    num_procs = 2
    nthreads = 2
    rep = 2
INVARIANTS
    Received
    BuffersIdle
    Ahead
PROPERTIES
    Ends
