CONSTANTS
    Version <- MCVersion
    CategoryOf <- MCCategoryOf
    MarketOf <- MCMarketOf
    RegionOf <- MCRegionOf
    TypeOf <- MCTypeOf
    NameRank <- MCNameRank
    ProductRank <- MCProductRank
    SkuWords <- MCSkuWords
    ProductWords <- MCProductWords
    NameWords <- MCNameWords
    CityWords <- MCCityWords
    None = None
    Selection <- MCSelection
    Unfiltered = 1
    Panels = {"horizons", "stores", "workbench"}
    Lists <- MCLists
    MaxRestarts = 1
    MaxVisits = 2
SPECIFICATION ScreenSpec
CHECK_DEADLOCK FALSE
INVARIANTS
    WorkbenchIsServed
