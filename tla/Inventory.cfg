CONSTANTS
    v1 = v1
    v2 = v2
    b1 = b1
    b3 = b3
    a1 = a1
    a2 = a2
    Versions = {v1, v2}
    Bundles = {b1, b3}
    ForecastOf <- MCForecastOf
    Actors = {a1, a2}
    NoBundle = NoBundle
    MaxCalls = 4
    MaxSwitches = 2
    a = a
    b = b
    Store = {a, b}
    LastDay = 12
    ShelfLife = 2
    Discontinued <- MCDiscontinued
    LaneTransit = 1
    ReviewCycle = 4
    StorePack = 2
    StoreTargets = {0, 3}
    Week = 3
    ToThursday = 1
    FirstMonday = 3
    AsOf = 12
    Weeks = 2
    ReorderPoint <- MCReorderPoint
    OrderUpTo <- MCOrderUpTo
    Cover <- MCCover
    ShopDays = {2, 5, 6, 8, 10, 11}
    SaleUnits = {0, 2}
    Lags = {0, 1, 3}
    Openings = {0, 1, 3}
    Centre = {1, 2}
    Shop = {3, 4}
    Channel = {1, 2}
    LaneDays <- MCLaneDays
    ReviewDays = 7
    MaxCover = 30
    RetainedCover = 7
    UnderCover = 7
    OverCover = 45
    SharePct = 30
    CalibratedWeeks = 4
    ShopRows <- MCShopRows
    CentreRows <- MCCentreRows
    LanePlans <- MCLanePlans
    TermPlans <- MCTermPlans
SPECIFICATION InventorySpec
CHECK_DEADLOCK FALSE
INVARIANTS
    HistoryIsOneSequence
    
    AcceptedImproves
    
    PlanIsFeasible
PROPERTIES
    RetryMovesNothing
    ImplementsAuthority
    CallsEnd
