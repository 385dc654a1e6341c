\* Two devices on one account, calls and writes interleaved in every way.
SPECIFICATION Spec
CONSTANTS
    phone = phone
    tablet = tablet
    bitcoin = bitcoin
    ether = ether
    Client = {phone, tablet}
    Coin <- MCCoin
    NoCoin = NoCoin
    Quantity <- One
    MinPrice = 1
    MaxPrice = 1
    MaxCalls = 5
    MaxInFlight = 2
    MayReject = TRUE
INVARIANTS
    TypeOK
    OneEntryPerCoin
    NothingInvented
PROPERTIES
    LossHasACause
