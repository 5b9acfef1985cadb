SPECIFICATION FairSpec
CONSTANTS
    Budget <- ThreeTicks
    CloseTimeout <- TwoTicks
    MaxInbox <- TwoMessages
INVARIANT ReturnsWithinBudget
CHECK_DEADLOCK FALSE
