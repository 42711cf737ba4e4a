\* Two transactions of up to two swaps over every venue, and one client.
SPECIFICATION Spec
CONSTANTS
    SOL <- MCSOL
    Stables <- MCStables
    Pool <- MCPool
    Chained <- MCChained
    Again <- MCAgain
    Amounts <- MCAmounts
    Filters <- MCFilters
    Reserve = 1000
    Buffer = 1
    MaxTxs = 2
    U64 = 100000
    U128 = 2000000000
    ProfitScale = 10
INVARIANTS
    LegsReal
    ObservationPays
    GapsTold
\* The transactions are bounded, so the system stops once they are made.
CHECK_DEADLOCK FALSE
