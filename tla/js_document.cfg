SPECIFICATION JsonSpec
CONSTANTS
    Kinds = {"headers", "routes", "query", "json", "array"}
    Keys <- MCKeys
    Values <- MCValues
    Fold <- MCFold
    InitialCapacity = 2
    MaxParameters = 2
    MaxMade = 3
    Careful = TRUE
    Paddings <- MCPaddings
    Texts <- MCTexts
INVARIANTS
    JsonTypeOK
    WithinCapacity
    EveryItemIsFound
    OwnedOrReleased
    RoundTrip
    CutGivesPrefix
    AssertOnlyWhenEmpty
    OutsideOnlyWhenUnclosed
CHECK_DEADLOCK FALSE
