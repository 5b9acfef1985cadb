SPECIFICATION Spec
CONSTANTS
    MaxTileNames <- TwoNames
    Hosts <- FormHosts
    Answers <- AnyAnswers
INVARIANTS
    LinksReachTheAnsweringHost
    TilesAreTrue
    NoNameIsBlank
    WellFormedAnswersAreShown
CHECK_DEADLOCK FALSE
