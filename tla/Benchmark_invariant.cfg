SPECIFICATION Spec
CONSTANTS
    num_procs = 3
    nthreads = 1
    rep = 2
INVARIANTS
    BenchmarkInv
