SPECIFICATION Spec
CONSTANTS
    Threads = {t1, t2}
    t1 = t1
    t2 = t2
    Requests = {r1, r2}
    r1 = r1
    r2 = r2
    Handles = {h1, h2}
    OpenHandles = {h1}
    h1 = h1
    h2 = h2
    Direct = {"Sendrecv"}
    Settled = FALSE
    MaxCalls = 3
    None = None
SYMMETRY Symmetry
PROPERTIES
    CallsInOrder
CHECK_DEADLOCK FALSE
