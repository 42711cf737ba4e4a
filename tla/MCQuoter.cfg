\* One request against every market of three price tables over eight pools.
SPECIFICATION Spec
CONSTANTS
    a = a
    b = b
    s = s
    u = u
    ab = ab
    as1 = as1
    as2 = as2
    au = au
    su1 = su1
    su2 = su2
    sb = sb
    ub = ub
    NoRequest = NoRequest
    NoRoute = NoRoute
    Mints <- MCMints
    Bridges <- MCBridges
    Pools <- MCPools
    Pair <- MCPair
    MaxAmount = 3
    Markets <- MCMarkets
    Requests <- MCRequests
INVARIANTS
    TypeOK
    BestRoute
    StandsAtFloors
\* A behaviour is one request and its answer.
CHECK_DEADLOCK FALSE
