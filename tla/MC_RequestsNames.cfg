SPECIFICATION MCSafety
CONSTANTS
    newer = newer
    older = older
    Caller <- Callers
    MaxQueries = 0
    MaxRuns = 0
    Tests = 2
    SizeX = 3
    SizeY = 1
    SizeZ = 2
    WordBits = 8
    MaxPalette = 5
    Count = 5
    Lines <- MCLines
    Actions <- MCActions
    Plans <- MCPlans
    BotName = "minebot"
    Placeable <- MCPlaceable
INVARIANT
    NamesStayWhole
CHECK_DEADLOCK FALSE
