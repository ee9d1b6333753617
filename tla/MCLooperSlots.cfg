CONSTANTS
    BuySize = 2
    SellSize = 1
    MaxCycles = 3
    MaxCrashes = 2
    MaxErrors = 2
    Overfill = 1
SPECIFICATION LSpec
INVARIANTS
    SlotsFresh
PROPERTIES
    SlotsRefine
