SPECIFICATION Spec
CONSTANTS
    Threads = {t1, t2}
    Requests = {r1, r2}
    Handles = {h1, h2}
    OpenHandles = {h1}
    Direct = {"Rput", "Waitany", "Mprobe", "Type_free"}
    Settled = FALSE
    MaxCalls = 2
    None = None
INVARIANTS
    InterpositionInv
CHECK_DEADLOCK FALSE
