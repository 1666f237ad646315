CONSTANTS
    Alignment = 4
    SmallRequest = 12
    PoolHeader = 4
    PoolSize = 28
    ArenaPools = 3
    InitialArenas = 1
    TableEntry = 5
    TransientSize = 40
    TransientLimit = 41
    VmSize = 10
    MaxArenas = 2
    MaxLive = 4
    LostPools = {1}
    HostRefuses <- SomeBudgets
    Budgets <- SomeBudgets
    Sizes <- AllSizes
SPECIFICATION Spec
INVARIANTS TypeOk PoolsInOnePlace BlocksHeldAreCounted KeptPoolsCounted KeptPoolsHoldNoArena BytesExact
PROPERTIES CheckedStaysInBudget RefusalTakesNothing
CHECK_DEADLOCK FALSE
