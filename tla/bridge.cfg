SPECIFICATION FairSpec
CONSTANTS
    Requests = {r1, r2}
    MaxFaults = 2
    MaxReadiness = 1
    NONE = NONE
INVARIANTS OneLive ResultsTrue RowsTrue
PROPERTIES RequestSettles
CHECK_DEADLOCK FALSE
