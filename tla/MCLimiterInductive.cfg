CONSTANTS
    Size = 2
    Price = 3
    Cancel = 2
    BaseMinSize = 1
    SizeLimits = {1, 2}
    TickerPrices <- MCTickers
    MaxOrders = 2
    MaxCrashes = 1
    MaxErrors = 1
SPECIFICATION Spec
INVARIANTS IInv FillsOrdered
