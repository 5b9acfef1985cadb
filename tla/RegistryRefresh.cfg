SPECIFICATION FairSpec
CONSTANT
    MaxVersion <- ThreeLists
INVARIANTS
    TypeOK
    ShutdownIsOrderly
PROPERTIES
    NeverDegrades
    CatchesUp
    ShutdownEnds
