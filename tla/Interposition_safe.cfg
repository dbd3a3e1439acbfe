SPECIFICATION Spec
CONSTANTS
    Threads = {t1, t2}
    t1 = t1
    t2 = t2
    Requests = {r1, r2}
    r1 = r1
    r2 = r2
    Handles = {h1, h2}
    OpenHandles = {h1}
    h1 = h1
    h2 = h2
    Direct <- SafeCalls
    Settled = FALSE
    MaxCalls = 4
    None = None
SYMMETRY Symmetry
INVARIANTS
    TypeOK
PROPERTIES
    CallsInOrder
    HandlesOpen
CHECK_DEADLOCK FALSE
