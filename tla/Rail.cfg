SPECIFICATION Spec
CONSTANTS
    t1 = t1
    t2 = t2
    i1 = i1
    i2 = i2
    Threads = {t1}
    Intents = {i1, i2}
    PageSize = 2
    Attempts = 2
    MaxWrites = 2
INVARIANTS
    CursorCovers
    SpokenOnce
PROPERTIES
    KeepsPromise
CHECK_DEADLOCK FALSE
