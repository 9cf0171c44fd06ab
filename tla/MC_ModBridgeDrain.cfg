SPECIFICATION Safety
CONSTANTS
    MaxConn = 1
    MaxEvents <- MCSilent
    MaxChat = 1
    Malformed <- MCMalformed
INVARIANTS
    DrainsUntilCancelled
CHECK_DEADLOCK FALSE
