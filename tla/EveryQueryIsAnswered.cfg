CONSTANTS
    None = None
    Stock <- MCStock
    Kind <- MCKind
    Category <- MCCategory
    SkuText <- MCSkuText
    Rate <- MCRate
    Budget <- MCBudget
    Asks <- MCAsks
    MaxSwaps = 1
    MaxWalks = 2
SPECIFICATION InventoryScreenSpec
CHECK_DEADLOCK FALSE
INVARIANTS
    EveryQueryIsAnswered
