\* Two coins, prices around the places where a text rounds or loses digits.
SPECIFICATION Spec
CONSTANTS
    c1 = c1
    c2 = c2
    Coins = {c1, c2}
    Fine = 10
    Prices <- MCPrices
    Holdings <- MCHoldings
INVARIANTS
    WorthIsRight
PROPERTIES
    ChartAgreesWithWallet
