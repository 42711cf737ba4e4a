\* Two pools and a cap of one: the truncation, with two block tasks.
SPECIFICATION Spec
CONSTANTS
    clmm = clmm
    std = std
    t1 = t1
    t2 = t2
    f1 = f1
    f2 = f2
    NoPool = NoPool
    NoState = NoState
    Pools <- MCPools
    MeteoraStd <- MCStd
    OracleRead <- MCNone
    Tasks <- MCTasks
    Fetchers <- MCOneFetcher
    Cap = 1
    Threshold = 1
    MaxVersion = 0
SYMMETRY TaskSymmetry
INVARIANTS
    MarksOwned
    FeesKnown
