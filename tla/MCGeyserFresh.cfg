\* A pool that parses from its own bytes, in a steady session.
CONSTANTS
    p1 = p1
    f1 = f1
    Pools <- MCPools
    Kinds <- MCPlain
    Fetchers <- MCFetchers
    NoPool = NoPool
    NoState = NoState
    MaxVersion = 1
SPECIFICATION SteadySpec
PROPERTY GeyserKeepsFresh
CHECK_DEADLOCK FALSE
