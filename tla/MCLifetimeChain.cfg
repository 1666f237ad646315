CONSTANTS
    Length = 9
    Obj <- ChainObj
    Var = {v1}
    Weak = {}
    None = None
    Kinds = {"plain", "del"}
    ReleaseDeferDepth = 2
    FinalizerDeferDepth = 2
SPECIFICATION ChainSpec
INVARIANTS NothingStranded StackBounded
PROPERTY ChainReclaimed
CHECK_DEADLOCK FALSE
