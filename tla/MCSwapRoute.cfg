\* Quotes of every route of up to three hops over four mints, transactions built,
\* abandoned, rebuilt and sent while the pools move and others trade.
SPECIFICATION Spec
CONSTANTS
    sol = sol
    usdc = usdc
    meme = meme
    coin = coin
    NoQuote = NoQuote
    NoTx = NoTx
    Mints <- MCMints
    SOL = sol
    Bridges <- MCBridges
    Launched <- MCLaunched
    Routed <- MCRouted
    Amounts = {1, 2}
    MaxOut = 2
    Slippages = {0, 5000, 10000}
    FeeRates = {0, 5000}
    Wallets <- MCWallets
INVARIANTS
    NeverStarved
    HopsKeepFloor
    FeesCollectable
PROPERTIES
    LandedWithinSlippage
    SpendsOnlyInput
    NoWsolResidue
\* The caller stops once its swap has landed.
CHECK_DEADLOCK FALSE
