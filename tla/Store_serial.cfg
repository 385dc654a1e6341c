\* One device that waits for each call, the server refusing nothing, under the
\* fairness of the SDK.
SPECIFICATION FairSpec
CONSTANTS
    phone = phone
    tablet = tablet
    bitcoin = bitcoin
    ether = ether
    Client = {phone}
    Coin <- MCCoin
    NoCoin = NoCoin
    Quantity <- One
    MinPrice = 1
    MaxPrice = 2
    MaxCalls = 5
    MaxInFlight = 1
    MayReject = FALSE
INVARIANTS
    DeleteFindsCoins
    MeanPriceInRange
PROPERTIES
    KeepsThePromise
    CallsEnd
    WritesLand
