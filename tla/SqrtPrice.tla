----------------------------- MODULE SqrtPrice -----------------------------
(***************************************************************************)
(* Token amounts between two square-root prices and one swap step:         *)
(* quote/clmm.rs.  The price of token a in token b is (P / Q64)^2; a swap  *)
(* a->b lowers it.  Intermediates are 256 and 512 bits wide in the code,   *)
(* so only the u64 limits on a step's amounts are left of the widths.      *)
(***************************************************************************)
EXTENDS QuoteMath, Integers

CONSTANTS U64, Q64

ASSUME SqrtPriceAssumption == U64 \in Nat \ {0} /\ Q64 \in Nat \ {0}

NoStep == [next |-> 0, used |-> 0, got |-> 0]

div_round(x, y, round_up) == IF round_up THEN div_ceil(x, y) ELSE x \div y

Gap(p, q) == IF p < q THEN q - p ELSE p - q

\* Token a between two prices, rounded once; token b likewise.
amount0_delta(p, q, liquidity, round_up) == div_round(liquidity * Gap(p, q) * Q64, p * q, round_up)
amount1_delta(p, q, liquidity, round_up) == div_round(liquidity * Gap(p, q), Q64, round_up)

\* The price after amount of the input, rounded against the trader.
next_sqrt_price_from_input(p, liquidity, amount, a_to_b) ==
    IF a_to_b THEN div_ceil(liquidity * Q64 * p, liquidity * Q64 + amount * p)
    ELSE p + (amount * Q64) \div liquidity

deltas_toSwapped(p, target, liquidity, a_to_b) ==
    IF a_to_b
    THEN [in |-> amount0_delta(target, p, liquidity, FALSE), out |-> amount1_delta(target, p, liquidity, TRUE)]
    ELSE [in |-> amount1_delta(p, target, liquidity, FALSE), out |-> amount0_delta(p, target, liquidity, TRUE)]

\* Input to reach a price, rounded up, and the output it yields, rounded down.
deltas_to(p, target, liquidity, a_to_b) ==
    IF a_to_b
    THEN [in |-> amount0_delta(target, p, liquidity, TRUE), out |-> amount1_delta(target, p, liquidity, FALSE)]
    ELSE [in |-> amount1_delta(p, target, liquidity, TRUE), out |-> amount0_delta(p, target, liquidity, FALSE)]

Deliverable(d) == d.in <= U64 /\ d.out <= U64

Past(p, target, a_to_b) == IF a_to_b THEN p < target ELSE p > target

fee_within(amount_in, fee_ppm) == div_ceil(amount_in * fee_ppm, PPM - fee_ppm)

ForPrice(remaining, fee_ppm, fee_on_input) ==
    IF fee_on_input THEN (remaining * (PPM - fee_ppm)) \div PPM ELSE remaining

\* The step that ends at next, d being the input and the output on the way.
StepTo(next, d, target, remaining, fee_ppm, a_to_b, fee_on_input) ==
    LET used == IF next = target THEN d.in + (IF fee_on_input THEN fee_within(d.in, fee_ppm) ELSE 0)
                ELSE remaining
        got == IF fee_on_input THEN d.out ELSE d.out - div_ceil(d.out * fee_ppm, PPM)
    IN  IF \/ ~Deliverable(d) \/ Past(next, target, a_to_b)
           \/ used > remaining \/ (fee_on_input /\ d.in > remaining)
        THEN NoStep ELSE [next |-> next, used |-> used, got |-> got]

StepInside(p, next, target, liquidity, remaining, fee_ppm, a_to_b, fee_on_input) ==
    StepTo(next, deltas_to(p, next, liquidity, a_to_b), target, remaining, fee_ppm, a_to_b, fee_on_input)

\* One step toward target: where the price gets, the input used with the fee,
\* the output net of the fee.  NoStep where the program would fail.
swap_step(p, target, liquidity, remaining, fee_ppm, a_to_b, fee_on_input) ==
    LET for_price == ForPrice(remaining, fee_ppm, fee_on_input)
        whole == deltas_to(p, target, liquidity, a_to_b)
    IN  IF Deliverable(whole) /\ for_price >= whole.in
        THEN StepTo(target, whole, target, remaining, fee_ppm, a_to_b, fee_on_input)
        ELSE StepInside(p, next_sqrt_price_from_input(p, liquidity, for_price, a_to_b),
                        target, liquidity, remaining, fee_ppm, a_to_b, fee_on_input)
=============================================================================
