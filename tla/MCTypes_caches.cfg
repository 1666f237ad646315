SPECIFICATION Spec
CONSTANTS
    O = O
    E = E
    F = F
    A = A
    C = C
    D = D
    P = P
    X = X
    Ini = Ini
    Del = Del
    Heap = {A, C}
    Static = {O, E, F}
    Root = O
    Classic = {X}
    Keys = {Ini, Del}
    InitKey = Ini
    DelKey = Del
    NoClass = NoClass
    NoKey = NoKey
    StartBases <- StartChain
    StartMro <- OrdersChain
    StartDefs <- ChainDefs
    NewBases <- Rebases
    Sites <- ChainSites
    Uses <- ChainUses
    Refused = {"list", "subclass"}
    MaxVersion = 4
    MaxDepth = 2
INVARIANTS TypeOk CachesCurrent ChangesReach VersionsNameOneState EntryKeyHeld LocksOwned
PROPERTY FailedAssignmentUndone
ACTION_CONSTRAINT Programs
CHECK_DEADLOCK FALSE
