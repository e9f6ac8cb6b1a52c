SPECIFICATION NextBuyerSpec
CONSTANTS
    Buyer = {1, 2}
    Prices = {3}
    Floors = {2}
    Offers = {3, 4}
    Unit = 1
    Knobs <- OneCounter
    ForceFloor = FALSE
    AfterSale = FALSE
    Tapper = {c1}
    LinkPrices = {3}
    MaxAsks = 1
    MaxSends = 3
    MaxAccidents = 1
INVARIANTS
    ApprovedAboveList
    NobodysHold
    LinkedOnce
PROPERTIES
    TapTakesNothing
CHECK_DEADLOCK FALSE
VIEW TapView
