SPECIFICATION TicksSpec
CONSTANTS
    Pool0 = Pool0
    Ticks0 = Ticks0
    NoPool = Pool0
    NoTicks = Ticks0
    U64 = 1000
    Q64 = 64
    MinTick <- MCMinTick
    MaxTick = 10
    SqrtAt <- MCSqrtAt
    LimitLow = 25
    LimitHigh = 166
    ArrayTicks = 2
    VolatilityScale = 1
    DynamicScale = 1
    Worlds <- MCWorlds
    Books <- MCBooks
    Prices <- MCPrices
    Amounts <- MCAmounts
    ArraysEachSide = 2
    MaxTurns = 60
    MaxChanges = 1
    MaxReads = 2
INVARIANT
    NeverOptimisticRange
CHECK_DEADLOCK FALSE
