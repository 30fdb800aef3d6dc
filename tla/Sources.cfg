CONSTANTS
    d1 = d1
    d2 = d2
    d3 = d3
    l1 = l1
    l2 = l2
    NoNative = NoNative
    Nothing = Nothing
    Drops = {d1, d2, d3}
    NObjects = 2
    Mirrors = {2}
    Bytes <- MCBytes
    Native <- MCNative
    Landers = {l1, l2}
    MaxWrites = 2
    MaxCalls = 3
    MaxCrashes = 1
    a = a
    b = b
    Cell = {a, b}
    Window <- MCWindow
    LastDate = 3
    Extracts = {2, 3}
    Hours = {0, 1}
    MaxLines = 2
    MaxRows = 2
    OrderSizes = {2}
    ShipSizes = {1, 2}
    MaxFaults = 2
    w1 = w1
    w2 = w2
    s1 = s1
    Store = {s1}
    Warehouse = {w1, w2}
    Source = w1
    Destination = w2
    Priority <- MCPriority
    LastDay = 5
    ShelfLife = 1
    Discontinued <- MCDiscontinued
    LaneTransit = 1
    ReviewCycle = 1
    StorePack = 2
    StoreTargets = {0, 2}
    Safety = 0
    Pack = 2
    Lead = 1
    Cycle = 2
    TransferCycle = 2
    Handling = TRUE
    LossDays = {2}
    Targets = {0, 2}
    MaxOrder = 4
    MaxOpening = 2
    MaxDemand = 2
    MaxLate = 1
    MaxShort = 0
    MaxLag = 2
    MaxHeld = 1
SPECIFICATION SourceSpec
CHECK_DEADLOCK FALSE
INVARIANTS
    SnapshotsAreTheirDrop
    ReturnedDropIsLanded
    LaterViewHasNoNews
    
    SnapshotsHideNothing
    BatchesReconcile
    LedgerMatchesStock
PROPERTIES
    SnapshotsImmutable
