CONSTANTS
    None = None
    Obj = {o1, o2}
    Var = {v1, v2}
    Weak = {w1, w2}
    Kinds = {"plain", "generator", "native_del", "set_del"}
    ReleaseDeferDepth = 1
    FinalizerDeferDepth = 2
SYMMETRY Symmetry
CONSTRAINT DifferentKinds
SPECIFICATION Spec
INVARIANTS TypeOk ReferencesCounted WeakrefsReachUsable BasicWeakrefsFirst
CHECK_DEADLOCK FALSE
