SPECIFICATION Spec
CONSTANTS
    O = O
    E = E
    F = F
    A = A
    C = C
    D = D
    P = P
    X = X
    Ini = Ini
    Del = Del
    Heap = {A, D, P}
    Static = {O}
    Root = O
    Classic = {}
    Keys = {Ini, Del}
    InitKey = Ini
    DelKey = Del
    NoClass = NoClass
    NoKey = NoKey
    StartBases <- StartPair
    StartMro <- OrdersPair
    StartDefs <- NoDefs
    NewBases <- EachOther
    Sites = {}
    Uses = {}
    Refused = {}
    MaxVersion = 4
    MaxDepth = 2
INVARIANT NoCycle
CHECK_DEADLOCK FALSE
