SPECIFICATION Spec
CONSTANTS
    r1 = r1
    r2 = r2
    r3 = r3
    u1 = u1
    u2 = u2
    h1 = h1
    h2 = h2
    t1 = t1
    t2 = t2
    i1 = i1
    i2 = i2
    k1 = k1
    k2 = k2
    NoKey = NoKey
    None = None
    Requests <- ThreeRequests
    Asked <- SavesAndTiles
    Users <- OneUser
    Hosts <- TwoHosts
    Tokens <- TwoTokens
    Forms <- TwoForms
    Instances <- OneInstance
    Keys <- OneKey
    MaxClock <- OneTick
SYMMETRY Symmetry
INVARIANTS
    TypeOK
    OneRowPerUser
    NoOrphanRow
    StoredPairWasVerified
    SavedMeansStored
    TokenStaysWithItsHostAndUser
PROPERTIES
    UpdatedAtNeverGoesBack
    ImplementsRegister
CHECK_DEADLOCK FALSE
