SPECIFICATION Spec
CONSTANTS
    MaxEvents = 3
    Traffic <- AllTraffic
    OwnLines = {"follow"}
INVARIANTS
    TypeOK
    NewestLineWins
    InSyncUnlessLost
PROPERTIES
    DefenceKeepsItsPlayer
    EndsInOrder
    EventsGetProcessed
CHECK_DEADLOCK FALSE
