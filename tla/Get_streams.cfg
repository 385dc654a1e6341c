SPECIFICATION FairSpec
CONSTANTS
    Get = {g1, g2, g3}
    MaxVersion = 1
    MaxFaults = 1
INVARIANTS
    OnlineConsistent
    CallsAreHeldOnce
    SyncedIsFresh
    TargetsAgree
PROPERTIES
    GetsEnd
CHECK_DEADLOCK FALSE
