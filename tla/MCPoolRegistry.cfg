\* Three threads and four calls: an add, a move to another pair or a remove, and
\* a lookup, in every interleaving, with one call left for a conflict.
SPECIFICATION FairSpec
CONSTANTS
    p1 = p1
    p2 = p2
    a = a
    d = d
    NoEntry = NoEntry
    NoPool = NoPool
    t1 = t1
    t2 = t2
    t3 = t3
    Pools <- MCPools
    Mints <- MCMints
    Entries <- MCEntries
    PoolShard <- MCPoolShard
    IndexShard <- MCIndexShard
    Threads <- MCThreads
    MaxCalls = 4
INVARIANTS
    TypeOK
    IndexAgrees
    LookupSound
    LookupComplete
PROPERTIES
    ImplementsListing
    CallsFinish
\* The calls are bounded, so the system stops once they are made.
CHECK_DEADLOCK FALSE
