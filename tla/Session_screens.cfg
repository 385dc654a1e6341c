SPECIFICATION FairSpec
CONSTANTS
    User = {u1, u2}
    Nobody = Nobody
    MaxScreens = 3
    MaxRequests = 2
    MaxLaunches = 1
    MaxHaste = 1
INVARIANTS
    SessionConsistent
    DisplayIsTheUsers
    KeychainWasAccepted
    OnlyNewAreEmptied
PROPERTIES
    TapsEnd
CHECK_DEADLOCK FALSE
