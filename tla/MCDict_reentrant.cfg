SPECIFICATION Spec
CONSTANTS
    a = a
    b = b
    c = c
    d = d
    Key <- AnyKeys
    Hash <- AnyHash
    Class <- AnyClass
    Slow = {a, b, d}
    Ops = {"set", "delete", "merge", "clear"}
    Value = {v1}
    None = None
    Empty = Empty
    Dummy = Dummy
    Small = Small
    Addr = {x, y}
    MinSize = 4
    Growth = 2
    MaxSize = 8
    MaxDepth = 2
    MaxMerge = 1
    Reentrant = TRUE
INVARIANTS
    CountsExact
    KeysReachable
CHECK_DEADLOCK FALSE
VIEW TableView
SYMMETRY Addresses
