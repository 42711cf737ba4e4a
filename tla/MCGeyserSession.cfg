\* One pool of any kind, a change on chain, one cold fetch at a time.
CONSTANTS
    p1 = p1
    f1 = f1
    Pools <- MCPools
    Kinds <- MCKinds
    Fetchers <- MCFetchers
    NoPool = NoPool
    NoState = NoState
    MaxVersion = 1
SPECIFICATION FairSpec
INVARIANTS
    TypeOK
    TableAgrees
    NoQueuedVaultLost
    CachedIsRegistered
PROPERTY QueuedVaultsTracked
CHECK_DEADLOCK FALSE
