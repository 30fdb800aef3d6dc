CONSTANTS
    ScopeOf <- MCScopeOf
    ForecastOf <- MCForecastOf
    v1 = v1
    v2 = v2
    v3 = v3
    c1 = c1
    c2 = c2
    b1 = b1
    b2 = b2
    q1 = q1
    q2 = q2
    Versions = {v1, v2, v3}
    Scopes = {c1, c2}
    Expected = {v1, v2}
    Bundles = {b1, b2}
    Slots = {q1, q2}
    Routes = {"forecast", "stores", "inventory"}
    Races = TRUE
    NoVersion = NoVersion
    NoBundle = NoBundle
    MaxMoves = 4
    MaxRequests = 2
    Version <- MCVersion
    CategoryOf <- MCCategoryOf
    MarketOf <- MCMarketOf
    RegionOf <- MCRegionOf
    TypeOf <- MCTypeOf
    NameRank <- MCNameRank
    ProductRank <- MCProductRank
    SkuWords <- MCSkuWords
    ProductWords <- MCProductWords
    NameWords <- MCNameWords
    CityWords <- MCCityWords
    None = None
    Selection <- MCSelection
    Unfiltered = 1
    Panels = {"horizons", "stores", "workbench"}
    Lists <- MCLists
    MaxRestarts = 1
    MaxVisits = 1
    Stock <- MCStock
    Kind <- MCKind
    Category <- MCCategory
    SkuText <- MCSkuText
    Rate <- MCRate
    Budget <- MCBudget
    Asks <- MCAsks
    MaxSwaps = 1
    MaxWalks = 2
SPECIFICATION ReadsSpec
CHECK_DEADLOCK FALSE
SYMMETRY Symmetry
INVARIANTS
    ForecastAnswersHadAuthority
    InventoryAnswersWereActive
    PagesCoverTheList
    PanelsReconcile
    TilesAreTheRows
    ScreensAgree
