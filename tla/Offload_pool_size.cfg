SPECIFICATION Spec
CONSTANTS
    Threads = {t1}
    Requests = {r1, r2, r3}
    NullRequests = {}
    t1 = t1
    r1 = r1
    r2 = r2
    r3 = r3
    PoolSize = 3
    MaxPosts = 1
    UseTest = FALSE
    CallsMayFail = FALSE
    INVALID_INDEX = INVALID_INDEX
    MPI_REQUEST_NULL = MPI_REQUEST_NULL
    ZeroRequest = ZeroRequest
    EmptyStatus = EmptyStatus
    nullptr = nullptr
SYMMETRY Symmetry
INVARIANTS
    SizeMaxHonoured
