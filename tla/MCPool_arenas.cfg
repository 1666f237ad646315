CONSTANTS
    Alignment = 4
    SmallRequest = 12
    PoolHeader = 4
    PoolSize = 28
    ArenaPools = 3
    InitialArenas = 1
    TableEntry = 5
    TransientSize = 40
    TransientLimit = 80
    VmSize = 10
    MaxArenas = 3
    MaxLive = 9
    LostPools = {0, 1}
    HostRefuses = {}
    Budgets <- NoBudget
    Sizes <- OneClass
SPECIFICATION Spec
INVARIANTS UsableArenasOrdered OneFreeArena
PROPERTY TableMovesUnreferenced
CHECK_DEADLOCK FALSE
