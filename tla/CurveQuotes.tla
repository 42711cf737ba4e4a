---------------------------- MODULE CurveQuotes ----------------------------
(***************************************************************************)
(* What the constant-product venues are quoted at: the exact-input         *)
(* formulas of quote/math.rs, quote/router.rs price_cp and one file per    *)
(* venue, and the exact-output formulas of quote/math.rs.                  *)
(*                                                                         *)
(* Every intermediate product is u128 in the code.  Where the code checks  *)
(* it the operators compare with U128; unchecked ones multiply two u64s    *)
(* and cannot exceed it.  0 stands for None: no quote.                     *)
(*                                                                         *)
(* A pool has vault[s] tokens of side s.  A Quote says what the trader     *)
(* gets, what the curve is credited of the input and what the vault pays.  *)
(***************************************************************************)
EXTENDS QuoteMath, Integers

CONSTANTS U64, U128,    \* the largest values of the two widths
          ProfitScale   \* LOCKED_PROFIT_DEGRADATION_DENOMINATOR

ASSUME WidthAssumption == U64 \in Nat /\ U128 \in Nat /\ U64 <= U128

ASSUME ProfitScaleAssumption == ProfitScale \in Nat \ {0}

ceil_bps(amount, bps) == div_ceil(amount * bps, BasisPoints)
ceil_ppm(amount, ppm) == div_ceil(amount * ppm, PPM)

Sides == {"base", "quote"}
Across(side) == IF side = "base" THEN "quote" ELSE "base"

NoQuote == [out |-> 0, credit |-> 0, debit |-> 0]

\* A quote of nothing is none.
Quoting(out, credit, debit) ==
    IF out > 0 THEN [out |-> out, credit |-> credit, debit |-> debit] ELSE NoQuote

-----------------------------------------------------------------------------
(* quote/math.rs                                                            *)

compute_constant_product_out(reserve_in, reserve_out, amount_in, fee_bps) ==
    LET after_fee == amount_in * (BasisPoints - AtMost(fee_bps, BasisPoints))
        numerator == reserve_out * after_fee
        denominator == reserve_in * BasisPoints + after_fee
        out == numerator \div denominator
    IN  IF \/ reserve_in = 0 \/ reserve_out = 0 \/ amount_in = 0
           \/ numerator > U128 \/ denominator > U128 \/ out > U64
        THEN 0 ELSE out

compute_constant_product_inFloored(reserve_in, reserve_out, amount_out, fee_bps) ==
    IF \/ reserve_in = 0 \/ reserve_out = 0 \/ amount_out = 0
       \/ fee_bps >= BasisPoints \/ amount_out >= reserve_out
    THEN 0
    ELSE (reserve_in * amount_out * BasisPoints) \div ((reserve_out - amount_out) * (BasisPoints - fee_bps))

compute_constant_product_in(reserve_in, reserve_out, amount_out, fee_bps) ==
    LET numerator == reserve_in * amount_out * BasisPoints
        denominator == (reserve_out - amount_out) * (BasisPoints - fee_bps)
        amount_in == div_ceil(numerator, denominator)
    IN  IF \/ reserve_in = 0 \/ reserve_out = 0 \/ amount_out = 0
           \/ fee_bps >= BasisPoints \/ amount_out >= reserve_out
           \/ numerator + denominator - 1 > U128 \/ denominator > U128 \/ amount_in > U64
        THEN 0 ELSE amount_in

compute_bonding_curve_out(reserve_in, reserve_out, amount_in, num, den) ==
    LET after_fee == (amount_in * (den - num)) \div den
        out == (reserve_out * after_fee) \div (reserve_in + after_fee)
    IN  IF \/ reserve_in = 0 \/ reserve_out = 0 \/ amount_in = 0 \/ den = 0 \/ num >= den
           \/ after_fee = 0 \/ reserve_out * after_fee > U128 \/ reserve_in + after_fee > U128
           \/ out > U64
        THEN 0 ELSE out

compute_bonding_curve_in(reserve_in, reserve_out, amount_out, num, den) ==
    LET pre_fee_in == div_ceil(reserve_in * amount_out, reserve_out - amount_out)
        amount_in == div_ceil(pre_fee_in * den, den - num)
    IN  IF \/ reserve_in = 0 \/ reserve_out = 0 \/ amount_out = 0 \/ den = 0 \/ num >= den
           \/ amount_out >= reserve_out
           \/ reserve_in * amount_out + (reserve_out - amount_out) - 1 > U128
           \/ pre_fee_in * den + (den - num) - 1 > U128 \/ amount_in > U64
        THEN 0 ELSE amount_in

-----------------------------------------------------------------------------
(* quote/router.rs price_cp: vault balances, each venue's own fees          *)

ConstantProduct(reserve_in, reserve_out, x) ==
    IF reserve_out * x > U128 \/ reserve_in + x = 0 THEN 0 ELSE (reserve_out * x) \div (reserve_in + x)

\* The default branch: leg_out with the venue's or the table's fee.
leg_out(pool, vault, side, amount) ==
    LET out == compute_constant_product_out(vault[side], vault[Across(side)], amount, pool.fee_bps)
    IN  Quoting(out, amount, out)

\* A fee measured from the pool's recent swaps.
ObservedFee(pool, vault, side, amount) ==
    LET x == amount - ceil_ppm(amount, pool.ppm)
        out == ConstantProduct(vault[side], vault[Across(side)], x)
    IN  IF x < 0 THEN NoQuote ELSE Quoting(out, amount, out)

RaydiumCpmmOnVaults(pool, vault, side, amount) ==
    LET fee == ceil_ppm(amount, pool.trade_ppm)
        out == ConstantProduct(vault[side], vault[Across(side)], amount - fee)
    IN  IF fee > amount THEN NoQuote ELSE Quoting(out, amount - fee, out)

\* Raydium CPMM: accrued fees are in the vaults and not in the curve; the
\* creator's fee comes off the input or the output.
RaydiumCpmm(pool, vault, side, amount) ==
    LET reserve_in == AtLeast(vault[side] - pool.accrued[side], 0)
        reserve_out == AtLeast(vault[Across(side)] - pool.accrued[Across(side)], 0)
        creator_on_input == CASE pool.creator_fee_on = "both" -> TRUE
                              [] pool.creator_fee_on = "base" -> side = "base"
                              [] pool.creator_fee_on = "quote" -> side = "quote"
        fee == ceil_ppm(amount, pool.trade_ppm)
               + (IF creator_on_input THEN ceil_ppm(amount, pool.creator_ppm) ELSE 0)
        gross == ConstantProduct(reserve_in, reserve_out, amount - fee)
        creator_out == IF creator_on_input THEN 0 ELSE ceil_ppm(gross, pool.creator_ppm)
    IN  IF fee > amount THEN NoQuote
        ELSE Quoting(gross - creator_out, amount - fee, gross)

\* amms/raydium_v4.rs swap_base_in_out on what is not owed as profit.
RaydiumV4(pool, vault, side, amount) ==
    LET reserve_in == vault[side] - pool.accrued[side]
        reserve_out == vault[Across(side)] - pool.accrued[Across(side)]
        fee == div_ceil(amount * pool.num, pool.den)
        out == ConstantProduct(reserve_in, reserve_out, amount - fee)
    IN  IF pool.den = 0 \/ reserve_in < 0 \/ reserve_out < 0 \/ fee > amount \/ out >= reserve_out
        THEN NoQuote ELSE Quoting(out, amount, out)

\* pool/types.rs SplSwapFees::fee: at least one token at a rate that is not 0.
FlooredFee(amount, num, den) ==
    IF num = 0 \/ den = 0 THEN 0 ELSE AtLeast((amount * num) \div den, 1)

\* Dooar and FluxBeam: trade fee and owner fee off the input.
SplSwap(pool, vault, side, amount) ==
    LET x == amount - FlooredFee(amount, pool.num, pool.den) - FlooredFee(amount, pool.owner_num, pool.owner_den)
        out == ConstantProduct(vault[side], vault[Across(side)], x)
    IN  IF x < 0 THEN NoQuote ELSE Quoting(out, amount, out)
-----------------------------------------------------------------------------
(* pump.fun: quote/pump_bonding.rs and amms/pumpfun_amm.rs.  Fees are of    *)
(* the quote token, chosen by market cap, each part rounded up.             *)

\* tier_for: the last tier reached; the dearest when the supply is unknown.
TotalRate(rates) == rates.lp + rates.protocol + rates.creator

tier_for(tiers, known, market_cap) ==
    LET reached == {i \in DOMAIN tiers : market_cap >= tiers[i].market_cap}
        pick == IF ~known THEN {i \in DOMAIN tiers : \A j \in DOMAIN tiers : TotalRate(tiers[j]) <= TotalRate(tiers[i])}
                ELSE IF reached = {} THEN {1} ELSE reached
    IN  tiers[CHOOSE i \in pick : \A j \in pick : j <= i]

\* The rates a pool pays at its reserves (PumpCurve::fee_bps, pamm_fee_tier).
PumpRates(pool, base, quote) ==
    LET tier == tier_for(pool.tiers, pool.supply > 0, (quote * pool.supply) \div base)
    IN  [lp |-> tier.lp, protocol |-> tier.protocol,
         creator |-> IF ~pool.has_creator THEN 0
                     ELSE IF pool.creator_bps > 0 THEN pool.creator_bps ELSE tier.creator]

pamm_fees(rates, amount) ==
    ceil_bps(amount, rates.lp) + ceil_bps(amount, rates.protocol) + ceil_bps(amount, rates.creator)

\* The loop starts at the exact share and steps down to what fits with its fees.
FeeBase(rates, amount) ==
    LET share == (amount * BasisPoints) \div (BasisPoints + TotalRate(rates))
        fits == {0} \cup {x \in 1..share : x + pamm_fees(rates, x) <= amount}
    IN  CHOOSE x \in fits : \A y \in fits : y <= x

\* quote in, base out: the curve prices one token less than the fee base.
PumpBuy(pool, vault, amount) ==
    LET base == vault.base + pool.virtual_base
        quote == vault.quote + pool.virtual_quote
        x == FeeBase(PumpRates(pool, base, quote), amount)
        out == ConstantProduct(quote, base, x - 1)
    IN  IF x <= 1 \/ out >= vault.base THEN NoQuote
        ELSE Quoting(out, IF pool.kind = "pump_curve" THEN x ELSE x - 1, out)

\* base in, quote out less the fees.  A virtual reserve prices and cannot pay:
\* the curve may pay out its last lamport, the AMM may not.
PumpSell(pool, vault, amount) ==
    LET base == vault.base + pool.virtual_base
        quote == vault.quote + pool.virtual_quote
        gross == ConstantProduct(base, quote, amount)
        payable == IF pool.kind = "pump_curve" THEN gross <= vault.quote ELSE gross < vault.quote
    IN  IF ~payable THEN NoQuote
        ELSE Quoting(gross - pamm_fees(PumpRates(pool, base, quote), gross), amount, gross)

\* A completed curve is not quoted, nor an AMM with nothing on a side.
PumpFun(pool, vault, side, amount) ==
    IF \/ pool.complete
       \/ vault.base + pool.virtual_base = 0 \/ vault.quote + pool.virtual_quote = 0
    THEN NoQuote
    ELSE IF side = "quote" THEN PumpBuy(pool, vault, amount) ELSE PumpSell(pool, vault, amount)

-----------------------------------------------------------------------------
(* quote/launchlab.rs: fees of the quote token, rounded up once.            *)

\* vault.base is what is left to sell, vault.quote the quote raised.
real_base(pool, vault) == pool.total_base_sell - vault.base

total_feeApart(pool, amount) ==
    ceil_ppm(amount, pool.protocol_ppm) + ceil_ppm(amount, pool.platform_ppm) + ceil_ppm(amount, pool.creator_ppm)

total_fee(pool, amount) == ceil_ppm(amount, pool.protocol_ppm + pool.platform_ppm + pool.creator_ppm)

LaunchLabBuy(pool, vault, amount) ==
    LET less == amount - total_fee(pool, amount)
        out == ConstantProduct(pool.virtual_quote + vault.quote, pool.virtual_base - real_base(pool, vault), less)
    IN  IF \/ less < 0 \/ vault.quote + less > pool.total_quote_fund_raising
           \/ real_base(pool, vault) + out > pool.total_base_sell
        THEN NoQuote ELSE Quoting(out, less, out)

LaunchLabSell(pool, vault, amount) ==
    LET gross == ConstantProduct(pool.virtual_base - real_base(pool, vault), pool.virtual_quote + vault.quote, amount)
    IN  IF amount > real_base(pool, vault) \/ gross > vault.quote THEN NoQuote
        ELSE Quoting(gross - total_fee(pool, gross), amount, gross)

LaunchLab(pool, vault, side, amount) ==
    IF pool.virtual_base <= real_base(pool, vault) THEN NoQuote
    ELSE IF side = "quote" THEN LaunchLabBuy(pool, vault, amount) ELSE LaunchLabSell(pool, vault, amount)
=============================================================================
