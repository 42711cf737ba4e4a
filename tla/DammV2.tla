------------------------------ MODULE DammV2 ------------------------------
(***************************************************************************)
(* Meteora DAMM v2: quote/damm_v2.rs.  One range of liquidity walked on a  *)
(* square-root price, or x*y=k on the reserves the pool tracks itself, and *)
(* a base fee that follows a schedule, the price or the amount.            *)
(*                                                                         *)
(* Liquidity is stored times Q64, so token b is liquidity * gap / Q64^2.   *)
(***************************************************************************)
EXTENDS CurveQuotes, SequencesExt

CONSTANTS FeeScale,        \* FEE_DENOMINATOR, 1e9
          VariableScale,   \* 1e11, the divisor of a volatility fee
          Q64,
          PowBits          \* exponent bits of the powers, 19 in the code

ASSUME DammAssumption ==
    /\ FeeScale \in Nat \ {0} /\ VariableScale \in Nat \ {0}
    /\ Q64 \in Nat \ {0} /\ PowBits \in Nat

ceil_fee(amount, rate) == div_ceil(amount * rate, FeeScale)

NoFee == -1   \* the program fails to compute one

-----------------------------------------------------------------------------
(* Powers of a rate below one, squared once per exponent bit: from the      *)
(* lowest, rest being the bits that are left.                               *)

PowBit(s) ==
    [result |-> IF s.rest % 2 = 1 THEN (s.result * s.squared) \div Q64 ELSE s.result,
     squared |-> (s.squared * s.squared) \div Q64,
     rest |-> s.rest \div 2]

\* 0 where the program fails: a power that vanishes, or an exponent too long.
pow_q64(base, exp) ==
    LET bits[n \in 0..PowBits] ==
            IF n = 0 THEN [result |-> Q64, squared |-> base, rest |-> exp] ELSE PowBit(bits[n - 1])
    IN  IF bits[PowBits].rest = 0 THEN bits[PowBits].result ELSE 0

OneLess(reduction) == Q64 - (reduction * Q64) \div BasisPoints

\* cliff * (1 - reduction)^period, every step rounded down; a power may not vanish.
fee_in_period(cliff, reduction, period) ==
    LET power == pow_q64(OneLess(reduction), period)
    IN  IF OneLess(reduction) < 0 \/ power = 0 THEN NoFee ELSE (power * cliff) \div Q64

-----------------------------------------------------------------------------
(* Base fee.  fees is [mode, cliff, number, frequency, reduction, expiry,   *)
(* init_price, control, bin_step, volatility, max]; point counts from the   *)
(* activation.  A rate limiter reads number as its increment, frequency as  *)
(* its duration, reduction as the reference amount, expiry as its maximum.  *)

scheduled_fee(fees, passed, exponential) ==
    LET period == AtMost(passed, fees.number)
    IN  IF exponential THEN fee_in_period(fees.cliff, fees.reduction, period)
        ELSE AtLeast(fees.cliff - fees.reduction * period, NoFee)

MarketCapPeriodRestarts(fees, point, price) ==
    IF point > fees.expiry \/ price <= fees.init_price THEN 0
    ELSE (((price - fees.init_price) * BasisPoints) \div fees.init_price) \div fees.frequency

\* The price schedule: periods of frequency basis points above the first price.
MarketCapPeriod(fees, point, price) ==
    IF point > fees.expiry THEN fees.number
    ELSE IF price <= fees.init_price THEN 0
    ELSE (((price - fees.init_price) * BasisPoints) \div fees.init_price) \div fees.frequency

rate_limiter_applies(fees, point, side) ==
    /\ side = "quote" /\ point <= fees.frequency
    /\ \E n \in {fees.reduction, fees.frequency, fees.expiry, fees.number} : n # 0

ToNumerator(bps) == (bps * FeeScale) \div BasisPoints

\* Increments of the rate, one for each reference amount past the first.
rate_limited_fee(fees, amount) ==
    LET reference == fees.reduction
        inc == ToNumerator(fees.number)
        max_fee == ToNumerator(fees.expiry)
        max_index == (max_fee - fees.cliff) \div inc
        a == (amount - reference) \div reference
        b == (amount - reference) % reference
        climbed(n) == fees.cliff + fees.cliff * n + (inc * n * (n + 1)) \div 2
        numerator == IF a < max_index THEN reference * climbed(a) + b * (fees.cliff + inc * (a + 1))
                     ELSE reference * climbed(max_index) + ((a - max_index) * reference + b) * max_fee
    IN  IF amount <= reference THEN fees.cliff
        ELSE IF max_fee < fees.cliff \/ inc = 0 THEN NoFee
        ELSE div_ceil(div_ceil(numerator, FeeScale) * FeeScale, amount)

base_fee(fees, point, side, amount, price) ==
    CASE fees.mode \in {"linear", "exponential"} ->
            IF fees.frequency = 0 THEN fees.cliff
            ELSE scheduled_fee(fees, point \div fees.frequency, fees.mode = "exponential")
      [] fees.mode = "limiter" ->
            IF rate_limiter_applies(fees, point, side) THEN rate_limited_fee(fees, amount) ELSE fees.cliff
      [] fees.mode \in {"cap_linear", "cap_exponential"} ->
            IF point <= fees.expiry /\ price > fees.init_price /\ 0 \in {fees.init_price, fees.frequency} THEN NoFee
            ELSE scheduled_fee(fees, MarketCapPeriod(fees, point, price), fees.mode = "cap_exponential")

variable_fee(fees) ==
    LET moved == fees.volatility * fees.bin_step
    IN  div_ceil(fees.control * moved * moved, VariableScale)

total_fee_numerator(fees, point, side, amount, price) ==
    LET base == base_fee(fees, point, side, amount, price)
    IN  IF base = NoFee THEN NoFee ELSE AtMost(base + variable_fee(fees), fees.max)

-----------------------------------------------------------------------------
(* The curve, token a on side base and token b on side quote                *)

delta_a(lower, upper, liquidity, round_up) ==
    IF round_up THEN div_ceil(liquidity * (upper - lower), lower * upper)
    ELSE (liquidity * (upper - lower)) \div (lower * upper)

delta_b(lower, upper, liquidity, round_up) ==
    IF round_up THEN div_ceil(liquidity * (upper - lower), Q64 * Q64)
    ELSE (liquidity * (upper - lower)) \div (Q64 * Q64)

next_sqrt_price_from_a(price, liquidity, amount) == div_ceil(liquidity * price, liquidity + amount * price)
next_sqrt_price_from_b(price, liquidity, amount) == price + (amount * Q64 * Q64) \div liquidity

\* Token b pays the fee in the modes that take it of one token.
fee_on_input(fees_in, side) == fees_in \in {"b", "compounding"} /\ side = "quote"

NextPrice(pool, price, side, actual_in) ==
    IF side = "base" THEN next_sqrt_price_from_a(price, pool.liquidity, actual_in)
    ELSE next_sqrt_price_from_b(price, pool.liquidity, actual_in)

OutOfRange(pool, side, next) == IF side = "base" THEN next < pool.sqrt_min ELSE next > pool.sqrt_max

\* What the curve gives, and the price it is left at: none out of its range.
Concentrated(pool, price, side, actual_in) ==
    LET next == NextPrice(pool, price, side, actual_in)
    IN  IF OutOfRange(pool, side, next) THEN [out |-> 0, price |-> price]
        ELSE [out |-> IF side = "base" THEN delta_b(next, price, pool.liquidity, FALSE)
                      ELSE delta_a(price, next, pool.liquidity, FALSE),
              price |-> next]

OnPool(pool, price, vault, side, actual_in) ==
    IF pool.fees_in = "compounding"
    THEN [out |-> ConstantProduct(vault[side], vault[Across(side)], actual_in), price |-> price]
    ELSE Concentrated(pool, price, side, actual_in)

\* The quote of what the pool gives for actual_in.
Paying(raw, rate, on_input, actual_in) ==
    [quote |-> Quoting(IF on_input THEN raw.out ELSE raw.out - ceil_fee(raw.out, rate), actual_in, raw.out),
     price |-> raw.price]

\* quote_damm_v2 at a point past the activation; price is the pool's now.
DammSwap(pool, price, vault, point, side, amount) ==
    LET rate == total_fee_numerator(pool.fees, point, side, amount, price)
        on_input == fee_on_input(pool.fees_in, side)
        actual_in == IF on_input THEN amount - ceil_fee(amount, rate) ELSE amount
    IN  IF pool.liquidity = 0 \/ price = 0 \/ rate \notin 0..(FeeScale - 1) THEN [quote |-> NoQuote, price |-> price]
        ELSE Paying(OnPool(pool, price, vault, side, actual_in), rate, on_input, actual_in)
=============================================================================
