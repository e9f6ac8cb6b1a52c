SPECIFICATION FairSpec
CONSTANTS
    a = a
    d = d
    TelegramBots = {a}
    DiscordBots = {d}
    Base <- MCBase
    MaxArms = 2
    MaxSaid = 2
    MaxCrashes = 1
INVARIANTS
    NeverAStranger
    NothingLost
    GreetedOnce
PROPERTIES
    SellerIsHeard
CHECK_DEADLOCK FALSE
