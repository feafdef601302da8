SPECIFICATION Spec
CONSTANTS
    u = u
    a = a
    b = b
    c = c
    Currencies <- MCCurrencies
    BaseC = u
    StableC = c
    Accounts = {f1, f2}
    Pairs <- MCPairs
    PriceConfigs <- MCPriceConfigs
    SwapTrees <- MCSwapTrees
    Pools <- MCPools
    PriceMessages <- MCPriceMessages
    AmountBits = 14
    FACTOR = 1024
    Spread = 3
    Precision = 40
    MaxTime = 4
    MaxFeeds = 2
    MaxChanges = 3
INVARIANTS
    PricedWhileQuorum
    PriceWithinObservations
    PricesAgree
    SwapPathSound
CHECK_DEADLOCK FALSE
SYMMETRY Symmetry
