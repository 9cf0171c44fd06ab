SPECIFICATION Spec
CONSTANTS
    Kinds = {"goto"}
    MaxTests = 2
    MaxAsked = 2
    MaxLosses = 0
INVARIANT
    PassedMeansReached
CHECK_DEADLOCK FALSE
