SPECIFICATION Safety
CONSTANTS
    MaxRuns = 1
    Tests = 1
INVARIANTS
    PassedReplaysPassed
CHECK_DEADLOCK FALSE
