SPECIFICATION FairSpec
CONSTANTS
    t1 = t1
    t2 = t2
    wall = wall
    Walls = {wall}
    Threads = {t1}
    MaxSaid = 2
    BlindAfter = 2
    Attempts = 2
    SweepEvery = 2
    MaxTurns = 1
    MaxStrikes = 2
PROPERTIES
    AnsweredWasRead
    RingIsVisited
CHECK_DEADLOCK FALSE
