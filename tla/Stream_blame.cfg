SPECIFICATION Spec
CONSTANTS
    MaxBatches = 4
    MaxPending = 4
    MaxFaults = 1
    Refused <- RefusesThird
INVARIANT
    OnlyRefusedRejected
CHECK_DEADLOCK FALSE
