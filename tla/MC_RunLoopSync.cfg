SPECIFICATION Safety
CONSTANTS
    MaxEvents = 2
    Traffic <- AllTraffic
    OwnLines = {"follow"}
INVARIANT
    IntentionInSync
CHECK_DEADLOCK FALSE
