SPECIFICATION ApartSpec
CONSTANTS
    t1 = t1
    i1 = i1
    i2 = i2
    x1 = x1
    x2 = x2
    Thread = {t1}
    Intent = {i1, i2}
    Text = {x1, x2}
    Sender = {pass, session}
    PassSender = {pass}
    Unnamed = {pass}
    ThreadOf <- SameThread
    TextOf <- OwnWords
    Holding = {i2}
    MaxInbound = 2
    Grace = 0
    HardGrace = 0
    MinVerify = 1
    MaxVerify = 1
    SellerActs = {"escalate", "answer"}
    MaxCrashes = 0
    MaxFaults = 0
    price = price
    text = text
    Fields <- MCFields
    MaxEdits = 1
    MaxPosts = 2
    Attempts = 2
    Goes = 2
    Categories = 2
    Tries = 2
    Looks = 2
    AdoptTries = 2
    RailTries = 2
    MaxTroubles = 2
    market = market
    Markets = {market}
    Connectable = {market}
    MaxChanges = 4
    MaxSteps = 10
    Images = 2
    Versions = {1, 2, 3}
    Ships <- MCShips
    VersionsKept = 2
    BackupsKeep = 1
    Tears = FALSE
    MaxTicks = 5
    MaxRows = 1
SYMMETRY FieldSymmetry
VIEW ApartView
INVARIANTS
    AskSilences
    OneOfAThing
    EditIsOwed
    NothingMeansNothing
    PostsWhatWasAsked
PROPERTIES
    NeverTalksPast
    CursorWithinSeen
    UpdateIsUndone
    NoMeansNo
    NewestWins
CHECK_DEADLOCK FALSE
