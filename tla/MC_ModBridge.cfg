SPECIFICATION Spec
CONSTANTS
    MaxConn = 3
    MaxEvents <- MCMaxEvents
    MaxChat = 2
    Malformed <- MCMalformed
INVARIANTS
    TypeOK
    NewestConnectionKnown
    VisitsForward
    VisitedReadInFull
    ClosedForGood
PROPERTIES
    ChatIsAChannel
    NewConnectionRead
    ChatKeepsFlowing
    CloseCompletes
CHECK_DEADLOCK FALSE
