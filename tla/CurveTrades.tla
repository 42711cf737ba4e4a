---------------------------- MODULE CurveTrades ----------------------------
(***************************************************************************)
(* A trader and one pool that is priced from its own state or its vaults,  *)
(* traded at what it is quoted at.                                         *)
(*                                                                         *)
(* quote is quote/router.rs quote_state for these venues.  Swap is the     *)
(* venue that pays what was quoted: the part of the input its curve is     *)
(* credited goes into the vault, the rest is fees that leave it or are     *)
(* owed.  An over-quoted swap would fail on chain; here it is paid, so that*)
(* the invariants tell whether it could have been.                         *)
(***************************************************************************)
EXTENDS VaultShares, DbcCurve, ByrealFee, DlmmWalk

CONSTANTS
    Pools,        \* records: a kind, its parameters, its vaults or shares at the start
    Amounts,      \* bound: input amounts
    MaxTrades,    \* bound: swaps in a behaviour
    Purse         \* what the trader has of each side at the start

ASSUME TradesAssumption ==
    /\ Amounts \subseteq 1..U64
    /\ MaxTrades \in Nat
    /\ Purse \in Nat

\* What the accounts of a pool hold: unsigned amounts and rates, by venue.
Amount == [Sides -> Nat]
FeeTier == [market_cap : Nat, lp : Nat, protocol : Nat, creator : Nat]
VaultShare == [total : Nat, lp_supply : Nat, pool_lp : Nat, last_locked_profit : Nat, released : Nat]

RatesOf(p) ==
    /\ p.kind = "default" => p.fee_bps \in Nat
    /\ p.kind = "observed" => p.ppm \in Nat
    /\ p.kind = "cpmm" => /\ p.trade_ppm \in Nat /\ p.creator_ppm \in Nat
                          /\ p.creator_fee_on \in {"both", "base", "quote"}
    /\ p.kind \in {"v4", "spl", "meteora"} => p.num \in Nat /\ p.den \in Nat
    /\ p.kind = "spl" => p.owner_num \in Nat /\ p.owner_den \in Nat
    /\ p.kind = "meteora" => p.protocol_num \in Nat /\ p.protocol_den \in Nat
    /\ p.kind \in {"pump_curve", "pump_amm"} =>
        /\ p.supply \in Nat /\ p.creator_bps \in Nat
        /\ p.tiers \in Seq(FeeTier) /\ p.tiers # <<>>
        /\ p.kind = "pump_curve" => \A i \in DOMAIN p.tiers : p.tiers[i].lp = 0
    /\ p.kind = "launchlab" => p.protocol_ppm \in Nat /\ p.platform_ppm \in Nat /\ p.creator_ppm \in Nat

\* What the curve of a pool adds to its vaults: virtual reserves, or what is owed.
Beside(p, side) ==
    CASE p.kind \in {"cpmm", "v4"} -> -p.accrued[side]
      [] p.kind \in {"pump_curve", "pump_amm"} -> IF side = "base" THEN p.virtual_base ELSE p.virtual_quote
      [] p.kind = "launchlab" -> IF side = "base" THEN p.virtual_base - p.total_base_sell ELSE p.virtual_quote
      [] OTHER -> 0

\* The venues priced by the product of two reserves: their vaults and what is beside.
Products == {"default", "observed", "cpmm", "v4", "spl", "pump_curve", "pump_amm", "launchlab"}

\* The venues that price on a market of their own, a price or a ladder of bins.
Markets == {"damm", "dbc", "byreal", "dlmm"}

\* The venues that walk a square-root price over segments of liquidity, in DAMM
\* v2's unit, and what a segment's positions hold of a side at a price.
Ranged(p) == p.kind \in {"dbc", "byreal"} \/ (p.kind = "damm" /\ p.fees_in # "compounding")

Segment(p, i) ==
    IF p.kind = "dbc"
    THEN [lower |-> IF i = 1 THEN p.sqrt_start ELSE p.curve[i - 1].price,
          upper |-> AtMost(p.curve[i].price, p.stop), liquidity |-> p.curve[i].liquidity]
    ELSE [lower |-> p.sqrt_min, upper |-> p.sqrt_max,
          liquidity |-> IF p.kind = "byreal" THEN p.liquidity * Q64 ELSE p.liquidity]

Segments(p) == IF p.kind = "dbc" THEN Len(p.curve) ELSE 1

HeldBy(segment, price, side) ==
    LET lower == IF side = "base" THEN AtLeast(segment.lower, price) ELSE segment.lower
        upper == IF side = "base" THEN segment.upper ELSE AtMost(segment.upper, price)
    IN  IF lower >= upper THEN 0
        ELSE IF side = "base" THEN delta_a(lower, upper, segment.liquidity, FALSE)
        ELSE delta_b(lower, upper, segment.liquidity, FALSE)

SumTo(n, f) ==
    LET total[i \in 0..n] == IF i = 0 THEN 0 ELSE total[i - 1] + f[i]
    IN  total[n]

Standing(p, price, side) == SumTo(Segments(p), [i \in 1..Segments(p) |-> HeldBy(Segment(p, i), price, side)])

\* The price of a pair's bin, what a bin holds of a side for makers and for the orders
\* that sell it, and what all of them hold.
PriceOfBin(p, b) ==
    IF b \in DOMAIN p.market.bins /\ p.market.bins[b].price # 0 THEN p.market.bins[b].price
    ELSE price_from_id(b, p.market.pair.step)

HeldOf(bin, side) ==
    (IF side = "base" THEN bin.x ELSE bin.y) + (IF bin.ask = (side = "base") THEN bin.processed + bin.open ELSE 0)

HeldInBin(bins, side, b) == IF b \in DOMAIN bins THEN HeldOf(bins[b], side) ELSE 0

Places == 2 * MaxBinId + 1
IdAt(place) == place - MaxBinId - 1
InBins(bins, side) == SumTo(Places, [i \in 1..Places |-> HeldInBin(bins, side, IdAt(i))])

\* A pair and its bins: prices rise with the ids, and what is for sale below the active
\* bin is quote, above it base.
PairState == [step : Nat, base_rate : Nat, control : Nat, reduction : Nat, max_va : Nat, va : Nat, va_ref : Nat,
              index_ref : Int, active : BinIds, fee_on : {"input", "y"}, orders : BOOLEAN]
LadderBin == [x : Nat, y : Nat, price : Nat, processed : Nat, open : Nat, ask : BOOLEAN]

IsLadder(p) ==
    LET bins == p.market.bins
        active == p.market.pair.active
        priced_bins == DOMAIN bins \cup {active}
    IN  /\ p.market = [price |-> 0, pair |-> p.market.pair, bins |-> bins]
        /\ p.market.pair \in PairState
        /\ DOMAIN bins \subseteq BinIds /\ bins \in [DOMAIN bins -> LadderBin]
        /\ \A b \in priced_bins : PriceOfBin(p, b) \in Nat \ {0}
        /\ \A b, c \in priced_bins : b <= c => PriceOfBin(p, b) <= PriceOfBin(p, c)
        /\ \A b \in DOMAIN bins : /\ b < active => HeldInBin(bins, "base", b) = 0
                                  /\ b > active => HeldInBin(bins, "quote", b) = 0
        /\ \A s \in Sides : p.vault[s] >= InBins(bins, s)
        /\ p.data \in [liquid : SUBSET Int, extension : BOOLEAN] /\ p.read \in BOOLEAN
        /\ IsFiniteSet(p.data.liquid) /\ \A a \in p.data.liquid : needs_extension(a) => p.data.extension
        /\ p.times \in Seq({"filtered", "decaying", "old"}) /\ p.times # <<>>

\* The fees of a pool whose rate follows a schedule, and when a pair was last traded.
BaseFees == [mode : {"linear", "exponential", "limiter", "cap_linear", "cap_exponential"}, cliff : Nat, number : Nat,
             frequency : Nat, reduction : Nat, expiry : Nat, init_price : Nat, control : Nat, bin_step : Nat,
             volatility : Nat, max : Nat]
PriceFeed == [price_0 : Nat, price_1 : Nat \ {0}, published : Int]
LaunchFees == [status : STRING, pool_rate : Nat, config_rate : Nat, decay : SUBSET Sides, init : Nat, decrease : 0..100,
               interval : Nat \ {0}, dynamic : BOOLEAN, buffer : Nat, imbalance_base : Nat, imbalance_x : Nat,
               token1_quote : BOOLEAN, oracle : PriceFeed]

Settled(age) == CASE age = "filtered" -> 0 [] age = "decaying" -> 1 [] age = "old" -> 2

\* The volatility a swap left is that of the bin it ended in, and it decays.
VolatilityOfBin(pair) ==
    /\ pair.va <= pair.va_ref + Distance(pair.index_ref, pair.active) * VaStep
    /\ pair.reduction <= BasisPoints

\* A schedule, and moments of it in the order they come.
Scheduled(p) ==
    /\ p.kind \in {"damm", "dbc"} => p.fees \in BaseFees
    /\ p.kind = "damm" /\ p.fees.mode = "limiter" =>
        p.fees.reduction > 0 \/ (p.fees.frequency = 0 /\ p.fees.expiry = 0 /\ p.fees.number = 0)
    /\ p.kind = "byreal" => p.fees \in LaunchFees
    /\ p.kind \in {"damm", "dbc", "byreal"} =>
        p.times \in Seq(Nat) /\ \A i, j \in DOMAIN p.times : i < j => p.times[i] <= p.times[j]
    /\ p.kind = "dlmm" =>
        /\ \A i, j \in DOMAIN p.times : i < j => Settled(p.times[i]) <= Settled(p.times[j])
        /\ VolatilityOfBin(p.market.pair)

\* A pool that can be quoted: its curve has something of both sides, a mint's
\* supply is a u64, a launch has not sold or raised more than it may, a vault has
\* issued the shares that the pool owns, a price is within the curve and the vaults
\* hold the positions.
WellFormed(p) ==
    /\ p.kind \in Products \cup Markets \cup {"meteora"}
    /\ p.vault \in Amount /\ p.accrued \in Amount /\ RatesOf(p)
    /\ p.tax \in [Sides -> [bps : Nat, maximum : Nat]]
    /\ \A s \in Sides : p.vault[s] + Purse <= U64 /\ p.accrued[s] <= p.vault[s]
    /\ p.kind \notin {"cpmm", "v4"} => \A s \in Sides : p.accrued[s] = 0
    /\ p.kind \in {"pump_curve", "pump_amm", "launchlab"} => p.virtual_base \in Nat /\ p.virtual_quote \in Nat
    /\ p.kind \in Products => \A s \in Sides : p.vault[s] + Beside(p, s) > 0
    /\ p.kind = "launchlab" =>
        /\ p.total_base_sell \in Nat /\ p.vault.base <= p.total_base_sell
        /\ p.total_quote_fund_raising \in Nat /\ p.vault.quote <= p.total_quote_fund_raising
    /\ p.kind = "meteora" =>
        /\ p.share \in [Sides -> VaultShare]
        /\ \A s \in Sides : p.share[s].pool_lp <= p.share[s].lp_supply /\ p.share[s].total = p.vault[s]
    /\ p.kind \in {"damm", "byreal"} => p.liquidity \in Nat \ {0} /\ p.sqrt_min \in Nat \ {0} /\ p.sqrt_max \in Nat
    /\ p.kind = "dbc" =>
        /\ p.sqrt_start \in Nat \ {0} /\ p.stop \in Nat /\ p.threshold \in Nat /\ p.vault.quote < p.threshold
        /\ p.curve \in Seq([price : Nat, liquidity : Nat \ {0}]) /\ p.curve # <<>>
        /\ \A i \in DOMAIN p.curve : (IF i = 1 THEN p.sqrt_start ELSE p.curve[i - 1].price) < p.curve[i].price
    /\ Ranged(p) =>
        /\ p.market \in [price : Segment(p, 1).lower..Segment(p, Segments(p)).upper]
        /\ \A s \in Sides : p.vault[s] >= Standing(p, p.market.price, s)
    /\ p.kind = "dlmm" => IsLadder(p)
    /\ Scheduled(p)
    /\ p.kind = "damm" => p.fees_in \in {"out", "b", "compounding"}
    /\ p.kind = "damm" /\ p.fees_in = "compounding" => p.market \in [price : Nat] /\ \A s \in Sides : p.vault[s] > 0

ASSUME PoolsAssumption == \A p \in Pools : WellFormed(p)

VARIABLES
    pool,     \* the pool traded, fixed; pool.times are the moments it may be traded at
    vault,    \* vault[s]: tokens in its vault of side s
    share,    \* share[s]: its part of a shared vault, Meteora Standard only
    market,   \* its square-root price, or its pair and bins
    purse,    \* purse[s]: the trader's tokens
    trades    \* swaps so far

vars == <<pool, vault, share, market, purse, trades>>

-----------------------------------------------------------------------------
\* The venues that price on more than their vaults: the quote and the market
\* it leaves behind, at a moment of the pool's schedule.
Over(bins, all) == [b \in DOMAIN all |-> IF b \in DOMAIN bins THEN bins[b] ELSE all[b]]

OnBins(w) ==
    IF w.status # "walking" THEN [quote |-> NoQuote, market |-> market]
    ELSE [quote |-> Quoting(w.out, w.kept, w.paid),
          market |-> [market EXCEPT !.pair = w.pair, !.bins = Over(w.bins, @)]]

WalkOver(bins, time, side, amount) == dlmm_swap_exact_in(pool.data, bins, market.pair, time, side, amount)

\* The bins in memory, loaded for a state that was cached before the trades.
BinsInMemory ==
    load_dlmm_bins(pool.data, market.bins, market.pair.active, pool.market.pair.active, pool.read)

DlmmSwap(time, side, amount) == OnBins(WalkOver(BinsInMemory, time, side, amount))

OnCurve(s) == [quote |-> s.quote, market |-> [market EXCEPT !.price = s.price]]

OnMarket(time, side, amount) ==
    CASE pool.kind = "damm" -> OnCurve(DammSwap(pool, market.price, vault, time, side, amount))
      [] pool.kind = "dbc" -> OnCurve(DbcSwap(pool, market.price, vault, time, side, amount))
      [] pool.kind = "byreal" -> OnCurve(ByrealSwap(pool, market.price, vault, time, side, amount))
      [] pool.kind = "dlmm" -> DlmmSwap(time, side, amount)

OnVaults(side, amount) ==
    CASE pool.kind = "default" -> leg_out(pool, vault, side, amount)
      [] pool.kind = "observed" -> ObservedFee(pool, vault, side, amount)
      [] pool.kind = "cpmm" -> RaydiumCpmm(pool, vault, side, amount)
      [] pool.kind = "v4" -> RaydiumV4(pool, vault, side, amount)
      [] pool.kind = "spl" -> SplSwap(pool, vault, side, amount)
      [] pool.kind \in {"pump_curve", "pump_amm"} -> PumpFun(pool, vault, side, amount)
      [] pool.kind = "launchlab" -> LaunchLab(pool, vault, side, amount)
      [] pool.kind = "meteora" -> MeteoraStd(pool, share, side, amount)

\* quote_state
PricedAt(time, side, amount) ==
    IF pool.kind \in Markets THEN OnMarket(time, side, amount)
    ELSE [quote |-> OnVaults(side, amount), market |-> market]

\* What a Token-2022 mint withholds of a transfer.
transfer_fee(side, amount) == AtMost(ceil_bps(amount, pool.tax[side].bps), pool.tax[side].maximum)
net_of_transfer_fee(side, amount) == AtLeast(amount - transfer_fee(side, amount), 0)

\* evaluate_many: the pool gets the input, and the user the output, less those.
priced(i, side, amount) ==
    LET p == PricedAt(pool.times[i], side, net_of_transfer_fee(side, amount))
    IN  [p EXCEPT !.quote.out = net_of_transfer_fee(Across(side), @)]

Init ==
    /\ pool \in Pools
    /\ vault = pool.vault
    /\ share = pool.share
    /\ market = pool.market
    /\ purse = [s \in Sides |-> Purse]
    /\ trades = 0

PayFromShares(side, q) ==
    share' = [share EXCEPT
                ![side] = Deposited(@, q.credit, unmint_amount(@, q.credit)),
                ![Across(side)] = Withdrawn(@, q.debit, unmint_amount(@, q.debit))]

Settle(side, amount, q) ==
    /\ q.out > 0
    /\ vault' = [vault EXCEPT ![side] = @ + q.credit, ![Across(side)] = @ - q.debit]
    /\ IF pool.kind = "meteora" THEN PayFromShares(side, q) ELSE UNCHANGED share
    /\ purse' = [purse EXCEPT ![side] = @ - amount, ![Across(side)] = @ + q.out]

Swap(i, side, amount) ==
    /\ trades < MaxTrades
    /\ amount <= purse[side]
    /\ \E p \in {priced(i, side, amount)} : Settle(side, amount, p.quote) /\ market' = p.market
    /\ trades' = trades + 1
    /\ UNCHANGED pool

Next == \E i \in DOMAIN pool.times, side \in Sides, amount \in Amounts : Swap(i, side, amount)

Spec == Init /\ [][Next]_vars

-----------------------------------------------------------------------------
(* Properties                                                               *)

\* What the pool must be able to give: profit that is not its own, the positions'
\* tokens of its segments, what makers and orders hold.
Owed(side) ==
    CASE Ranged(pool) -> Standing(pool, market.price, side)
      [] pool.kind = "dlmm" -> InBins(market.bins, side)
      [] OTHER -> pool.accrued[side]

\* What a pool is quoted at it can pay: its vaults keep what they owe, a curve
\* keeps within what it was given to sell and to raise, a shared vault keeps
\* what is locked (quote/router.rs quote_state and the venues' own files).
Payable ==
    /\ \A s \in Sides :
        /\ vault[s] >= Owed(s)
        /\ pool.kind = "meteora" => unlocked_amount(share[s]) >= 0 /\ share[s].pool_lp >= 0
    /\ pool.kind = "launchlab" => real_base(pool, vault) >= 0 /\ vault.quote <= pool.total_quote_fund_raising
    /\ pool.kind = "dbc" => ~is_complete(pool, vault)

\* No sequence of quotes takes anything from the pool for nothing: the trader
\* never has as much of both sides as before and more of one.
NoFreeLunch == (\A s \in Sides : purse[s] >= Purse) => (\A s \in Sides : purse[s] = Purse)

quote(i, side, amount) == priced(i, side, amount).quote


\* What separately rounded fees can cost: atoms of the output, tokens of the input.
AtomsShort == CASE pool.kind = "pump_curve" -> 1 [] pool.kind = "pump_amm" -> 2 [] OTHER -> 0
RoundsRate == pool.kind = "damm" /\ pool.fees.mode = "limiter"
TokensMore == IF pool.kind \in {"cpmm", "spl", "meteora"} \/ RoundsRate THEN 2 ELSE 0

\* Quotes are compared wherever a trade may still follow.
Trading == trades < MaxTrades

\* More in brings no less out where a fee is rounded once.  Each fee that is
\* rounded apart can take an atom of the output more, or of the input: there it
\* takes two tokens more to be sure (quote/router.rs evaluate_two_hop_routes,
\* "Output is monotone in input").
NearlyMonotone ==
    Trading => \A i \in DOMAIN pool.times, side \in Sides :
        LET out == [a \in Amounts |-> quote(i, side, a).out]
        IN  \A a, b \in Amounts : a + TokensMore <= b /\ out[b] > 0 => out[a] <= out[b] + AtomsShort

\* A walk back to the bin a pair's volatility is measured from: its fee falls on
\* the way, and a later swap measures from where it starts.
TowardsReference(side) ==
    pool.kind = "dlmm" /\ IF side = "base" THEN market.pair.index_ref < market.pair.active
                          ELSE market.pair.index_ref > market.pair.active

\* A quote holds until it is used: swapped later, or quoted with the slot
\* unknown, it pays no less unless the lower fee now takes it past the end of
\* the curve, and but for a walk back to the reference bin
\* (quote/router.rs quote_damm_v2 and quote_dbc, "the conservative side";
\* quote/dlmm.rs chain_now, "volatility only decays with time").
LaterPays ==
    Trading => \A side \in Sides, amount \in Amounts :
        LET out == [i \in DOMAIN pool.times |-> quote(i, side, amount).out]
        IN  \A i, j \in DOMAIN pool.times : i < j /\ out[j] > 0 /\ ~TowardsReference(side) => out[i] <= out[j]

\* The arrays in memory are enough: whatever state the load was planned from, and
\* whether or not the extension was known, a walk over them is the walk over all
\* bins there are, and is refused where that is (pool/bins.rs load_dlmm_bins,
\* "the arrays read do not cover the walk").
LoadedArraysSuffice ==
    pool.kind = "dlmm" =>
        \A loaded \in {BinsInMemory} : \A side \in Sides, amount \in Amounts :
            LET memory == WalkOver(loaded, pool.times[1], side, amount)
                whole == WalkOver(market.bins, pool.times[1], side, amount)
            IN  memory.status = whole.status /\ memory.out = whole.out

\* An input computed for an output buys at least that output, unless pricing it
\* overflows (quote/math.rs compute_constant_product_in, compute_bonding_curve_in).
Fits(reserve_out, amount_in) == reserve_out * amount_in * BasisPoints <= U128

ReverseCovers ==
    pool.kind = "default" =>
        \A side \in Sides, amount \in Amounts :
            LET reserve_in == vault[side]
                reserve_out == vault[Across(side)]
                in == compute_constant_product_in(reserve_in, reserve_out, amount, pool.fee_bps)
                bonding == compute_bonding_curve_in(reserve_in, reserve_out, amount, pool.fee_bps, BasisPoints)
            IN  /\ in > 0 /\ Fits(reserve_out, in) =>
                      compute_constant_product_out(reserve_in, reserve_out, in, pool.fee_bps) >= amount
                /\ bonding > 0 /\ Fits(reserve_out, bonding) =>
                      compute_bonding_curve_out(reserve_in, reserve_out, bonding, pool.fee_bps, BasisPoints) >= amount
=============================================================================
