SPECIFICATION LiveSpec
CONSTANTS
    Threads = {t1, t2}
    Requests = {r1, n1}
    NullRequests = {n1}
    t1 = t1
    t2 = t2
    r1 = r1
    n1 = n1
    PoolSize = 3
    MaxPosts = 2
    UseTest = FALSE
    CallsMayFail = FALSE
    INVALID_INDEX = INVALID_INDEX
    MPI_REQUEST_NULL = MPI_REQUEST_NULL
    ZeroRequest = ZeroRequest
    EmptyStatus = EmptyStatus
    nullptr = nullptr
INVARIANTS
    IInv
    SlotExclusive
    NoSlotLost
    NeverExhausted
    StopLosesNothing
PROPERTIES
    CompletionIsOwn
    NoLateWrite
    ImplementsOneThread
    ImplementsThreadMultiple
    WaitReturns
    FinalizeReturns
