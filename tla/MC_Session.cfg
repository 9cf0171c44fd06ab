SPECIFICATION SessionSpec
CONSTANTS
    MaxConn = 1
    MaxEvents <- MCMaxEvents
    MaxChat = 1
    Malformed = {}
    Watchers = {w1, w2}
    MaxOrders = 1
INVARIANTS
    WatchersSeeTheTraffic
PROPERTIES
    StuckHoldsUpNobody
CHECK_DEADLOCK FALSE
