----------------------------- MODULE ByrealFee -----------------------------
(***************************************************************************)
(* Byreal: quote/byreal_fee.rs.  A Raydium pool whose rate comes from the  *)
(* pool, a decaying launch fee and, in some pools, the distance between    *)
(* the pool's price and an oracle's.  Here its liquidity is one range; the *)
(* walk over several is TickWalk.  token 0 is on side base.                *)
(*                                                                         *)
(* fees is [status, pool_rate, config_rate, decay, init, decrease,         *)
(* interval, dynamic, buffer, imbalance_base, imbalance_x, token1_quote,   *)
(* oracle]; decay is the sides that pay the launch fee, and time counts    *)
(* from the opening.  Prices of an oracle are in atoms: exponents and      *)
(* decimals only scale them.                                               *)
(***************************************************************************)
EXTENDS DammV2

CONSTANTS RateScale,    \* FEE_RATE_DENOMINATOR of the decay, smaller so that its squares fit
          MaxPythAge    \* MAX_PYTH_AGE_SECONDS

ASSUME ByrealAssumption == RateScale \in Nat \ {0} /\ PPM % RateScale = 0 /\ MaxPythAge \in Nat

Step == INSTANCE SqrtPrice

NoRate == -1

can_swap(fees, time) == fees.status = "open" /\ time > 0

\* base^intervals, one bit of the exponent at a time, every product rounded up.
DecayBit(s) ==
    [result |-> IF s.rest % 2 = 1 THEN div_ceil(s.result * s.squared, RateScale) ELSE s.result,
     squared |-> div_ceil(s.squared * s.squared, RateScale),
     rest |-> s.rest \div 2]

\* A number has no more bits than it counts, and bits that are not there change nothing.
decayed(base, intervals) ==
    LET bits[n \in 0..intervals] ==
            IF n = 0 THEN [result |-> RateScale, squared |-> base, rest |-> intervals] ELSE DecayBit(bits[n - 1])
    IN  bits[intervals].result

\* The launch fee starts at init percent and loses decrease percent an interval.
decay_fee_rate(fees, time) ==
    LET rate == decayed(RateScale - (fees.decrease * RateScale) \div 100, time \div fees.interval)
    IN  div_ceil(rate * fees.init, 100) * (PPM \div RateScale)

base_fee_rate(fees, side, time) ==
    LET base == IF fees.pool_rate # 0 THEN fees.pool_rate ELSE fees.config_rate
    IN  IF side \in fees.decay THEN AtLeast(base, decay_fee_rate(fees, time)) ELSE base

price_index(oracle) == (oracle.price_0 * Q64) \div oracle.price_1

quote_from_base(base, price, quote_is_token1) ==
    IF quote_is_token1 THEN (base * price) \div Q64 ELSE (base * Q64) \div price

\* Parts per million that the price is off the oracle's, less what is free.
arbitrage_fee(p_0, p_index, buffer, fee_base) ==
    AtLeast(div_ceil(Step!Gap(p_0, p_index) * PPM, p_index) - buffer - fee_base, 0)

\* Of a swap that takes the vaults further apart.
imbalance_fee(value_of_base, quote_balance, base, x, buys_base) ==
    LET total == value_of_base + quote_balance
        deepens == IF value_of_base > quote_balance THEN ~buys_base ELSE value_of_base < quote_balance /\ buys_base
        off == div_ceil(Step!Gap(value_of_base, quote_balance) * PPM, total)
    IN  IF total = 0 \/ ~deepens THEN 0 ELSE div_ceil(AtLeast(off - x * 10000, 0) * base, 10)

\* NoRate where the program fails, and where an imbalance would be charged.
dynamic_fee_rate(fees, fee_base, price, vault, side, time) ==
    LET p_0 == (price * price) \div Q64
        quote_side == IF fees.token1_quote THEN "quote" ELSE "base"
        base_value == quote_from_base(vault[Across(quote_side)], p_0, fees.token1_quote)
        total == fee_base + arbitrage_fee(p_0, price_index(fees.oracle), fees.buffer, fee_base)
    IN  IF \/ fees.oracle.published < time - MaxPythAge
           \/ p_0 = 0 \/ price_index(fees.oracle) = 0
           \/ imbalance_fee(base_value, vault[quote_side], fees.imbalance_base, fees.imbalance_x, side = quote_side) # 0
           \/ total > PPM
        THEN NoRate ELSE total

\* The vaults are as fresh as the ticks walked.
swap_fee_ppm(fees, price, vault, side, time) ==
    LET fee_base == base_fee_rate(fees, side, time)
    IN  IF fees.dynamic THEN dynamic_fee_rate(fees, fee_base, price, vault, side, time) ELSE fee_base

\* A rate of a million leaves nothing for the curve: the walk refuses it.
ByrealSwap(pool, price, vault, time, side, amount) ==
    LET a_to_b == side = "base"
        rate == swap_fee_ppm(pool.fees, price, vault, side, time)
        s == Step!swap_step(price, IF a_to_b THEN pool.sqrt_min ELSE pool.sqrt_max, pool.liquidity, amount, rate, a_to_b, TRUE)
        moved == Step!deltas_to(price, s.next, pool.liquidity, a_to_b)
    IN  IF ~can_swap(pool.fees, time) \/ rate \notin 0..(PPM - 1) \/ s.used < amount
        THEN [quote |-> NoQuote, price |-> price]
        ELSE [quote |-> Quoting(s.got, moved.in, s.got), price |-> s.next]
=============================================================================
