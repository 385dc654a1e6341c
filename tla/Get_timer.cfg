SPECIFICATION Spec
CONSTANTS
    Get = {g1, g2}
    MaxVersion = 0
    MaxFaults = 0
INVARIANT
    TimedWhileTrying
CHECK_DEADLOCK FALSE
