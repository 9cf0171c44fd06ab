SPECIFICATION Safety
CONSTANTS
    MaxRuns = 2
    Tests = 1
INVARIANTS
    AlwaysClearGround
CHECK_DEADLOCK FALSE
