SPECIFICATION Spec
CONSTANTS
    a = a
    b = b
    c = c
    d = d
    Key <- AnyKeys
    Hash <- AgainHash
    Class <- AnyClass
    Slow = {a, b, d}
    Ops = {"set", "clear"}
    Value = {v1}
    None = None
    Empty = Empty
    Dummy = Dummy
    Small = Small
    Addr = {x, y}
    MinSize = 4
    Growth = 2
    MaxSize = 4
    MaxDepth = 2
    MaxMerge = 0
    Reentrant = TRUE
INVARIANTS
    KeysReachable
CHECK_DEADLOCK FALSE
VIEW TableView
SYMMETRY Addresses
