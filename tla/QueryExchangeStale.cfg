SPECIFICATION Safety
CONSTANTS
    Caller = {newer}
    MaxQueries = 2
INVARIANT
    NeverStale
CHECK_DEADLOCK FALSE
