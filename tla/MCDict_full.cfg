SPECIFICATION Spec
CONSTANTS
    a = a
    b = b
    c = c
    d = d
    Key <- FullKeys
    Hash <- FullHash
    Class <- FullClass
    Slow = {a, b, c, d}
    Ops = {"set", "delete", "merge"}
    Value = {v1}
    None = None
    Empty = Empty
    Dummy = Dummy
    Small = Small
    Addr = {x, y}
    MinSize = 4
    Growth = 2
    MaxSize = 8
    MaxDepth = 2
    MaxMerge = 2
    Reentrant = TRUE
INVARIANTS
    EmptySlotRemains
CHECK_DEADLOCK FALSE
VIEW TableView
SYMMETRY Addresses
