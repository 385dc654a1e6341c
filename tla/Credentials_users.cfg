SPECIFICATION FairSpec
CONSTANTS
    User = {u1, u2}
    Nobody = Nobody
    Call = {c1}
    MaxChanges = 3
    MaxRefreshes = 1
INVARIANTS
    StreamConsistent
    WritesKeepTheirUser
PROPERTIES
    WritesLand
CHECK_DEADLOCK FALSE
