SPECIFICATION Spec
CONSTANTS
    Key = {k1, k2, n1, n2}
    Stored = {k1, k2}
    Task = {t1, t2}
    Writer = {w1, w2}
    None = None
    ShrinkLimit = 2
    MaxTickets = 3
    k1 = k1 k2 = k2 n1 = n1 n2 = n2 t1 = t1 t2 = t2  w1 = w1 w2 = w2
CHECK_DEADLOCK FALSE
SYMMETRY Symmetry
INVARIANTS
    TypeOK
    PinnedStays
    DirtyUntilStored
    PromisedGetsWritten
    OneReader
