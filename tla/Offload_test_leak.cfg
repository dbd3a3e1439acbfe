SPECIFICATION Spec
CONSTANTS
    Threads = {t1}
    Requests = {r1}
    NullRequests = {}
    t1 = t1
    r1 = r1
    PoolSize = 3
    MaxPosts = 3
    UseTest = TRUE
    CallsMayFail = FALSE
    INVALID_INDEX = INVALID_INDEX
    MPI_REQUEST_NULL = MPI_REQUEST_NULL
    ZeroRequest = ZeroRequest
    EmptyStatus = EmptyStatus
    nullptr = nullptr
SYMMETRY Symmetry
INVARIANTS
    ExhaustedMeansAllInUse
