\* One pool, a block task and two full fetches that overwrite each other.
SPECIFICATION QuotedSpec
CONSTANTS
    clmm = clmm
    std = std
    t1 = t1
    t2 = t2
    f1 = f1
    f2 = f2
    NoPool = NoPool
    NoState = NoState
    Pools <- MCOnePool
    MeteoraStd <- MCNone
    OracleRead <- MCNone
    Tasks <- MCOneTask
    Fetchers <- MCFetchers
    Cap = 1
    Threshold = 1
    MaxVersion = 1
INVARIANTS
    TypeOK
    RevalidationsOwned
PROPERTIES
    QuietPoolsCatchUp
