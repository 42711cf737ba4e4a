SPECIFICATION Spec
CONSTANTS
    U64 = 1000
    U128 = 2000000
    ProfitScale = 10
    FeeScale = 100
    VariableScale = 10000000
    Q64 = 64
    PowBits = 4
    RateScale = 1000
    MaxPythAge = 4
    BinsPerArray = 2
    BitmapSize = 2
    SwapArrays = 2
    MaxBinId = 5
    VaStep = 1
    Pools <- MCPools
    Amounts <- MCAmounts
    MaxTrades = 2
    Purse = 14
INVARIANTS
    Payable
    NoFreeLunch
    NearlyMonotone
    ReverseCovers
    LaterPays
    LoadedArraysSuffice
CHECK_DEADLOCK FALSE
