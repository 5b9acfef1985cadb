SPECIFICATION FairSpec
CONSTANTS
    Budget <- ThreeTicks
    CloseTimeout <- TwoTicks
    MaxInbox <- TwoMessages
INVARIANT RejectedTokenRaisesAuthError
CHECK_DEADLOCK FALSE
