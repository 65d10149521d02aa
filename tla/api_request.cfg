SPECIFICATION HandlersSpec
CONSTANTS
    Requests <- MCRequests
    Bodies <- MCBodies
    Lower <- MCLower
    Numbers <- MCNumbers
    HeaderCapacity = 2
    MaxParameters = 2
    Debug = FALSE
INVARIANTS
    TypeOK
    HeadersKeptOrDropped
    QueryKeptOrDropped
    CompleteAnswered
    ErrorStartsNothing
    LeftoverFileExplained
CHECK_DEADLOCK FALSE
