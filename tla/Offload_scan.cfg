SPECIFICATION LiveSpec
CONSTANTS
    Threads = {t1, t2}
    Requests = {r1, r2}
    NullRequests = {}
    t1 = t1
    t2 = t2
    r1 = r1
    r2 = r2
    PoolSize = 3
    MaxPosts = 2
    UseTest = FALSE
    CallsMayFail = FALSE
    INVALID_INDEX = INVALID_INDEX
    MPI_REQUEST_NULL = MPI_REQUEST_NULL
    ZeroRequest = ZeroRequest
    EmptyStatus = EmptyStatus
    nullptr = nullptr
PROPERTIES
    WaitReturns
