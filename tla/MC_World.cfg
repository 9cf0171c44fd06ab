SPECIFICATION MCSpec
CONSTANTS
    steve = steve
    alex = alex
    nobody = nobody
    Id = {1, 2, 3}
    MaxEntityEvents = 6
    Slot = {s1, s2}
    Item = {dirt, stone}
    MaxCount = 2
    MaxSnapshots = 3
    empty = empty
    Spots <- MCSpots
    Target <- MCTarget
    Tolerance = 1
    Centre <- MCCentre
    Radius = 1
    MinGain = 1
    MaxSamples = 4
    MaxWalks = 1
    Kinds = {"goto", "schematic"}
    MaxTests = 2
    MaxAsked = 3
    MaxLosses = 1
    MaxRuns = 2
    Tests = 1
INVARIANTS
    TypesOK
    MirrorsPlayers
    FoundUnlessOverlapped
    AnnouncesGains
    HitsArePasses
    JumpsAreExcursions
    StartsWhereItSays
    OneTestAtATime
    AloneInSurvival
    ModeComesBack
    ClearGround
    ReplayAgreesWithChat
PROPERTIES
    GivesOnlyPickups
CHECK_DEADLOCK FALSE
