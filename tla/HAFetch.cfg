SPECIFICATION FairSpec
CONSTANTS
    Budget <- ThreeTicks
    CloseTimeout <- TwoTicks
    MaxInbox <- TwoMessages
INVARIANTS
    TypeOK
    AuthErrorIsHAsVerdict
    SummaryIsComplete
    CommandsNeedAcceptedToken
    ReturnIsBounded
    SocketIsReleased
    OnlyTheTimerLosesTheAnswer
PROPERTIES
    MockFetchSucceeds
    ImplementsContract
CHECK_DEADLOCK FALSE
