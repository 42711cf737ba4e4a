--------------------------- MODULE MCCurveTrades ---------------------------
(* One pool of every kind and fee mode, small enough that a handful of      *)
(* tokens moves the price: every rounding rule decides an atom.             *)
EXTENDS CurveTrades, TLC

Both(x, y) == [base |-> x, quote |-> y]
NoShares == Both(0, 0)

Vaults == {Both(x, y) : x \in {5, 12}, y \in {7, 16}}

Tax(bps, maximum) == [bps |-> bps, maximum |-> maximum]
Untaxed == Both(Tax(0, 0), Tax(0, 0))

Plain(kind) == [kind |-> kind, share |-> NoShares, accrued |-> Both(0, 0), times |-> <<0>>, tax |-> Untaxed,
                market |-> [price |-> 0]]

\* A transfer fee on one mint or both, with a maximum that is reached.
TaxedPools == {[Plain("default") EXCEPT !.tax = t] @@ [vault |-> v, fee_bps |-> 300]
                : v \in Vaults, t \in {Both(Tax(2000, 2), Tax(0, 0)), Both(Tax(500, 9), Tax(3000, 1))}}
DefaultPools == {Plain("default") @@ [vault |-> v, fee_bps |-> f] : v \in Vaults, f \in {0, 2500, 10000}}
ObservedPools == {Plain("observed") @@ [vault |-> v, ppm |-> f] : v \in Vaults, f \in {0, 300000}}
CpmmPools ==
    {[Plain("cpmm") EXCEPT !.accrued = Both(3, 2)]
        @@ [vault |-> v, trade_ppm |-> 200000, creator_ppm |-> c, creator_fee_on |-> on]
        : v \in Vaults, c \in {0, 300000}, on \in {"both", "base", "quote"}}
V4Pools == {[Plain("v4") EXCEPT !.accrued = Both(4, 6)] @@ [vault |-> v, num |-> 1, den |-> 4] : v \in Vaults}
SplPools == {Plain("spl") @@ [vault |-> v, num |-> 1, den |-> 5, owner_num |-> o, owner_den |-> 5]
                : v \in Vaults, o \in {0, 1}}

Tiers == <<[market_cap |-> 0, lp |-> 2000, protocol |-> 500, creator |-> 1000],
           [market_cap |-> 20, lp |-> 500, protocol |-> 500, creator |-> 0]>>
CurveTiers == <<[market_cap |-> 0, lp |-> 0, protocol |-> 1000, creator |-> 1500]>>
PumpPools ==
    {Plain("pump_curve") @@ [vault |-> v, virtual_base |-> 4, virtual_quote |-> 6, supply |-> 20, tiers |-> CurveTiers,
                             has_creator |-> c, creator_bps |-> b, complete |-> FALSE]
        : v \in Vaults, c \in BOOLEAN, b \in {0, 3000}}
    \cup {Plain("pump_amm") @@ [vault |-> v, virtual_base |-> 0, virtual_quote |-> q, supply |-> s, tiers |-> Tiers,
                                has_creator |-> TRUE, creator_bps |-> 0, complete |-> FALSE]
        : v \in Vaults, q \in {0, 5}, s \in {0, 20}}
LaunchPools ==
    {Plain("launchlab") @@ [vault |-> Both(x, y), virtual_base |-> 18, virtual_quote |-> 6, total_base_sell |-> 14,
                            total_quote_fund_raising |-> 12, protocol_ppm |-> 120000, platform_ppm |-> 170000, creator_ppm |-> 230000]
        : x \in {6, 14}, y \in {0, 8}}

Vault(total, supply, lp, locked) ==
    [total |-> total, lp_supply |-> supply, pool_lp |-> lp, last_locked_profit |-> locked, released |-> 3]
MeteoraPools ==
    {[Plain("meteora") EXCEPT !.share = Both(a, b)]
        @@ [vault |-> Both(a.total, b.total), num |-> 1, den |-> 5, protocol_num |-> p, protocol_den |-> 5]
        : a \in {Vault(24, 20, 9, 0), Vault(21, 15, 15, 4)}, b \in {Vault(17, 17, 12, 0), Vault(25, 12, 7, 5)}, p \in {0, 2}}

\* Every base-fee mode, with a volatility fee and without.
Fees(mode, cliff, number, frequency, reduction, expiry, max) ==
    [mode |-> mode, cliff |-> cliff, number |-> number, frequency |-> frequency, reduction |-> reduction,
     expiry |-> expiry, init_price |-> 56, control |-> IF max = 99 THEN 1 ELSE 0, bin_step |-> 1000, volatility |-> 5,
     max |-> max]
Linear == Fees("linear", 30, 2, 1, 10, 0, 99)
Exponential == Fees("exponential", 60, 3, 1, 4000, 0, 50)
Limiter == Fees("limiter", 10, 1000, 1, 4, 5000, 50)
CapFees == {Fees("cap_linear", 30, 2, 1500, 10, 1, 50), Fees("cap_exponential", 60, 3, 900, 4000, 2, 99)}

DammPool(price, liquidity, fees, fees_in) ==
    [Plain("damm") EXCEPT !.times = <<0, 1, 2, 3>>, !.market = [price |-> price]]
        @@ [vault |-> Both(delta_a(price, 110, liquidity, TRUE), delta_b(37, price, liquidity, TRUE)),
            liquidity |-> liquidity, sqrt_min |-> 37, sqrt_max |-> 110, fees |-> fees, fees_in |-> fees_in]
\* Rate limited pools take their fee of the token that is limited.
DammPools == {DammPool(61, 1300, f, m) : f \in {Linear, Exponential} \cup CapFees, m \in {"out", "b", "compounding"}}
             \cup {DammPool(61, 1300, Limiter, m) : m \in {"b", "compounding"}}

DbcPool(price, base, raised, fees, fees_in) ==
    [Plain("dbc") EXCEPT !.times = <<0, 1, 2>>, !.market = [price |-> price]]
        @@ [vault |-> Both(base, raised), sqrt_start |-> 50, stop |-> 110, threshold |-> 30,
            curve |-> <<[price |-> 80, liquidity |-> 2400], [price |-> 128, liquidity |-> 1800]>>,
            fees |-> fees, fees_in |-> fees_in]
DbcPools == {DbcPool(p[1], p[2], p[3], f, m) : p \in {<<50, 30, 0>>, <<90, 12, 23>>},
                                               f \in {Linear, Exponential, Limiter}, m \in {"quote", "out"}}

\* No extra fee, a launch fee that halves, another rate of the pool's own, and
\* the distance to an oracle that is right, high or already old.
Oracle(price_0, published) == [price_0 |-> price_0, price_1 |-> 10, published |-> published]
ByrealFees ==
    LET plain == [status |-> "open", pool_rate |-> 0, config_rate |-> 100000, decay |-> {}, init |-> 60, decrease |-> 50,
                  interval |-> 1, dynamic |-> FALSE, buffer |-> 1000, imbalance_base |-> 10, imbalance_x |-> 20,
                  token1_quote |-> TRUE, oracle |-> Oracle(9, 0)]
    IN  {plain, [plain EXCEPT !.decay = {"base"}, !.interval = 2], [plain EXCEPT !.decay = Sides, !.pool_rate = 250000]}
        \cup {[plain EXCEPT !.dynamic = TRUE, !.oracle = o, !.imbalance_x = x, !.decay = d, !.token1_quote = q]
                : o \in {Oracle(9, 1), Oracle(11, 3)}, x \in {2, 90}, d \in {{}, {"quote"}}, q \in BOOLEAN}
ByrealPools ==
    {[Plain("byreal") EXCEPT !.times = <<0, 1, 3, 7>>, !.market = [price |-> 61]]
        @@ [vault |-> Both(Step!amount0_delta(61, 110, 20, TRUE), Step!amount1_delta(37, 61, 20, TRUE)),
            liquidity |-> 20, sqrt_min |-> 37, sqrt_max |-> 110, fees |-> f] : f \in ByrealFees}

\* The program stores a bin's price with it, once the bin was used.
Bin(x, y) == [x |-> x, y |-> y, price |-> 0, processed |-> 0, open |-> 0, ask |-> FALSE]
Resting(bin, ask) == [bin EXCEPT !.ask = ask, !.processed = 1, !.open = 2]
Ladder == [b \in -4..3 |-> CASE b = -4 -> Bin(0, 4) [] b = -3 -> Resting(Bin(0, 0), FALSE) [] b = -2 -> Bin(0, 3)
                           [] b = -1 -> Bin(2, 3) [] b = 0 -> Resting(Bin(3, 0), TRUE) [] b = 1 -> Bin(0, 0)
                           [] b = 2 -> Bin(5, 0) [] b = 3 -> Bin(2, 0)]
MCBins == [b \in DOMAIN Ladder |-> [Ladder[b] EXCEPT !.price = IF b = 1 THEN 0 ELSE price_from_id(b, 2500)]]
Pair(control, reference, fee_on, orders) ==
    [step |-> 2500, base_rate |-> IF control = 0 THEN 0 ELSE 3, control |-> control, reduction |-> 5000, max_va |-> 4,
     va |-> Distance(reference, -1), va_ref |-> 0, index_ref |-> reference, active |-> -1, fee_on |-> fee_on, orders |-> orders]
\* An array beyond the bitmap: none, one that is gone, one that is there.
DlmmPool(pair, bins, held, far, read) ==
    [Plain("dlmm") EXCEPT !.times = <<"filtered", "decaying", "old">>,
                          !.market = [price |-> 0, pair |-> pair, bins |-> bins]]
        @@ [vault |-> Both(held, 13), read |-> read, data |-> [liquid |-> {-2, -1, 0, 1} \cup far, extension |-> far # {}]]
FarBins == MCBins @@ [b \in 4..5 |-> Bin(b - 2, 0)]
DlmmPools ==
    LET still == Pair(0, -1, "input", TRUE)
        above == Pair(2, 1, "y", FALSE)
        below == Pair(2, -3, "input", TRUE)
    IN  {DlmmPool(still, MCBins, 15, {}, FALSE), DlmmPool(below, MCBins, 15, {}, FALSE), DlmmPool(above, MCBins, 15, {2}, TRUE)}
        \cup {DlmmPool(p, FarBins, 20, {2}, FALSE) : p \in {still, above, below}}

MCPools == DefaultPools \cup TaxedPools \cup ObservedPools \cup CpmmPools \cup V4Pools \cup SplPools \cup PumpPools \cup LaunchPools
           \cup MeteoraPools \cup DammPools \cup DbcPools \cup ByrealPools
           \cup DlmmPools
MCAmounts == 1..14
=============================================================================
