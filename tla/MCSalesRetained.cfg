SPECIFICATION Spec
CONSTANTS
    p1 = p1
    s1 = s1
    s2 = s2
    NoRow = NoRow
    Products <- MCProducts
    Listed <- MCListed
    Syncs <- MCSyncs
    Day = 2
    Window = 4
    Page = 2
    MaxRetries = 1
    MaxClock = 5
    MaxOrders = 3
PROPERTIES
    SalesAreRetained
