SPECIFICATION Spec
CONSTANTS
    r1 = r1
    r2 = r2
    r3 = r3
    r4 = r4
    r5 = r5
    Requests <- ThreeRequests
    Capacity <- OneConnection
    PoolTimeout <- ThirtySeconds
    FetchLimit <- TwentySeconds
SYMMETRY Symmetry
INVARIANTS
    NoSpinnerIsLeft
CHECK_DEADLOCK FALSE
