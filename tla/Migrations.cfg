SPECIFICATION Spec
CONSTANTS
    r1 = r1
    r2 = r2
    r3 = r3
    Runs <- ThreeRuns
SYMMETRY Symmetry
INVARIANTS
    TypeOK
    VersionTellsTheSchema
    ExitZeroMeansAtHead
    ServiceFindsItsTable
PROPERTIES
    RerunIsNotRefused
CHECK_DEADLOCK FALSE
