SPECIFICATION FairSpec
CONSTANTS
    bitcoin = bitcoin
    ether = ether
    Market <- MCTwoCoins
    MaxActs = 3
    MaxCalls = 2
    MaxPrices = 2
    MayFail = TRUE
INVARIANTS
    RowsConsistent
    NoGhostRow
    EveryCoinHasItsRow
    HoldsThePortfolio
PROPERTIES
    RefreshEnds
CHECK_DEADLOCK FALSE
