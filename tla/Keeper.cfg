SPECIFICATION MCSpec
CONSTANTS
    Tasks = {read, send, drain}
    Lanes = {read, send}
    Replaceable = {drain}
    Workers = 2
    FloatExponent = 1024
    MaxFailures = 0
    MaxSwaps = 1
    Ports = {p1, p2}
    Clients = {1, 2, 3}
    NoClient = 0
    Free = free
    RecycleAfter = 2
    RecycleMax = 1
    MaxTroubles = 2
INVARIANTS
    MarkIsRun
    NoCorpseRises
PROPERTIES
    
    WedgeEnds
CHECK_DEADLOCK FALSE
