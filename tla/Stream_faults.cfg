SPECIFICATION FairSpec
CONSTANTS
    MaxBatches = 5
    MaxPending = 4
    MaxFaults = 3
    Refused <- RefusesThird
INVARIANTS
    PipelineConsistent
    AnswersMatch
    WritesAccountedFor
PROPERTIES
    KeepsThePromise
    WritesEnd
CHECK_DEADLOCK FALSE
