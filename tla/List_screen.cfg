SPECIFICATION FairSpec
CONSTANTS
    marketCapDesc = marketCapDesc
    volumeDesc = volumeDesc
    btc = btc
    None = None
    TypeOfSort <- MCTypeOfSort
    marketCap = marketCapDesc
    Query <- MCOneText
    LastPage = 3
    MaxRequests = 2
    MaxGestures = 4
    LookupsFail = TRUE
INVARIANTS
    ScreenConsistent
    ListInOrder
PROPERTIES
    MainComesBack
    RefreshEnds
CHECK_DEADLOCK FALSE
