SPECIFICATION MCSpec
CONSTANTS
    newer = newer
    older = older
    Caller <- Callers
    MaxQueries = 4
    MaxRuns = 1
    Tests = 2
    SizeX = 3
    SizeY = 1
    SizeZ = 2
    WordBits = 8
    MaxPalette = 5
    Count = 5
    Lines <- MCLines
    Actions <- MCActions
    Plans <- MCPlans
    BotName = "minebot"
    Placeable <- MCPlaceable
INVARIANTS
    TypesOK
    AloneGetsOwnReply
    BindsTheWords
    EveryCallAnswered
    PlacedAsDrawn
    ClearedForTheNext
    ReadsBack
PROPERTIES
    VeryNextReply
    QueriesEnd
    RunsEnd
CHECK_DEADLOCK FALSE
