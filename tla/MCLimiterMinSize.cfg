CONSTANTS
    Size = 3
    Price = 3
    Cancel = 2
    BaseMinSize = 2
    SizeLimits = {3}
    TickerPrices <- MCTickers
    MaxOrders = 3
    MaxCrashes = 1
    MaxErrors = 1
SPECIFICATION Spec
PROPERTY CreateWithinPending
