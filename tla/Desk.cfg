SPECIFICATION MCSpec
CONSTANTS
    MaxStops = 1
    MaxCalls = 2
    MaxPasses = 2
    MaxNotices = 1
    Rows = {1, 2}
    Taps = {2}
    Threads = {t1}
    MaxMsgs = 2
INVARIANTS
    TypingIsOwed
    FailedIsTold
PROPERTIES
    OneHand
    EveryWordIsAnswered
    BuyersAreServed
CHECK_DEADLOCK FALSE
