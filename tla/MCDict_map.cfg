SPECIFICATION FairSpec
CONSTANTS
    a = a
    b = b
    c = c
    d = d
    Key <- MapKeys
    Hash <- MapHash
    Class <- MapClass
    Slow = {a}
    Ops = {"get", "set", "setdefault", "delete", "merge", "clear", "popitem"}
    Value = {v1, v2}
    None = None
    Empty = Empty
    Dummy = Dummy
    Small = Small
    Addr = {x, y}
    MinSize = 4
    Growth = 2
    MaxSize = 8
    MaxDepth = 1
    MaxMerge = 2
    Reentrant = FALSE
INVARIANTS
    TypeOk
    EmptySlotRemains
PROPERTIES
    ImplementsMap
    OperationsEnd
