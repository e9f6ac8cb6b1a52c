SPECIFICATION FairSpec
CONSTANTS
    t1 = t1
    i1 = i1
    i2 = i2
    x1 = x1
    x2 = x2
    Thread = {t1}
    Intent = {i1}
    Text = {x1, x2}
    Sender = {session}
    PassSender = {}
    Unnamed = {session}
    ThreadOf <- SameThread
    TextOf <- OwnWords
    Holding = {}
    MaxInbound = 1
    Grace = 0
    HardGrace = 0
    MinVerify = 1
    MaxVerify = 1
    SellerActs = {"escalate", "answer", "close", "hold", "release", "manual"}
    MaxCrashes = 1
    MaxFaults = 1
PROPERTIES
    KeepsPromise
    UnknownIsResolved
CHECK_DEADLOCK FALSE
