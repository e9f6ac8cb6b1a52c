SPECIFICATION HaggleSpec
CONSTANTS
    Buyer = {1, 2}
    Prices = {2, 4}
    Floors = {1, 3}
    Offers = {2, 3}
    Unit = 1
    Knobs <- Softer
    ForceFloor = TRUE
    AfterSale = TRUE
    Shop = {1, 2}
    Asks = {2, 10}
    Budgets <- TwoBudgets
    ByHand = {9, 12}
    Coins = 2
    Call = {1}
PROPERTIES
    DecidedAboveFloor
    FloorNeverNamed
    NeverUnderRival
    BudgetHolds
    OffersClimb
    PromisedAreTold
CHECK_DEADLOCK FALSE
VIEW LedgerView
