SPECIFICATION Spec
CONSTANTS
    Releasers = {t1, t2}
    t1 = t1
    t2 = t2
    PoolSize = 5
    INVALID_INDEX = INVALID_INDEX
SYMMETRY Symmetry
INVARIANTS
    Linked
    EverySlotOnce
    NoAba
PROPERTIES
    ImplementsSlotPool
