SPECIFICATION Spec
CONSTANTS
    r1 = r1
    r2 = r2
    r3 = r3
    r4 = r4
    r5 = r5
    Requests <- FiveRequests
    Capacity <- TwoConnections
    PoolTimeout <- ThirtySeconds
    FetchLimit <- TwentySeconds
SYMMETRY Symmetry
INVARIANTS
    TypeOK
    ConnectionsAreAccounted
    HeldThroughFetchOnlyByTiles
    NobodyIsTurnedAway
    AnswerIsBounded
PROPERTIES
    OnlyTilesMakeOthersWait
CHECK_DEADLOCK FALSE
