\* Four dialogs for one coin, with any texts and any of three pairs of limits.
SPECIFICATION DialogSpec
CONSTANTS
    Limits <- MCLimits
    Values = {0, 1, 3}
    MaxDialogs = 4
CHECK_DEADLOCK FALSE
INVARIANTS
    DialogConsistent
    SpoiltByItsLots
