----------------------------- MODULE DbcCurve -----------------------------
(***************************************************************************)
(* Meteora's dynamic bonding curve: quote/dbc.rs.  The configuration gives *)
(* the curve as points; segment i ends at point i and holds its liquidity. *)
(* Quotes walk the segments with the steps of DAMM v2.  Buys end where the *)
(* curve completes, sells at the price it started from.                    *)
(***************************************************************************)
EXTENDS DammV2

is_complete(pool, vault) == vault.quote >= pool.threshold

\* None in a rate limiter's window: the program then asks for more accounts.
Limited(fees, point, side) ==
    /\ fees.mode = "limiter" /\ side = "quote" /\ point <= fees.frequency
    /\ fees.reduction > 0 /\ fees.number > 0

\* A power that vanishes leaves no fee, where DAMM v2 would fail.
exponential_fee(cliff, reduction, period) ==
    IF period > 0 /\ OneLess(reduction) < 0 THEN NoFee
    ELSE (pow_q64(OneLess(reduction), period) * cliff) \div Q64

DbcFee(fees, point, side) ==
    LET period == AtMost(point \div fees.frequency, fees.number)
    IN  IF Limited(fees, point, side) THEN NoFee
        ELSE IF fees.mode = "limiter" \/ fees.frequency = 0 THEN fees.cliff
        ELSE IF fees.mode = "exponential" THEN exponential_fee(fees.cliff, fees.reduction, period)
        ELSE AtLeast(fees.cliff - fees.reduction * period, NoFee)

dbc_fee_numerator(fees, point, side) ==
    LET base == DbcFee(fees, point, side)
    IN  IF base = NoFee THEN NoFee ELSE AtMost(base + variable_fee(fees), fees.max)

-----------------------------------------------------------------------------
(* The walk: what is out, the price it got to, what is left of the input    *)

Starting(price, amount) == [out |-> 0, price |-> price, left |-> amount, done |-> FALSE]

\* quote_to_base: up the segments, no further than the migration price.
UpSegment(pool, w, i) ==
    LET point == AtMost(pool.curve[i].price, pool.stop)
        liquidity == pool.curve[i].liquidity
        max_in == delta_b(w.price, point, liquidity, TRUE)
        next == next_sqrt_price_from_b(w.price, liquidity, w.left)
    IN  IF w.done \/ point <= w.price THEN w
        ELSE IF w.left < max_in
        THEN [out |-> w.out + delta_a(w.price, next, liquidity, FALSE), price |-> next, left |-> 0, done |-> TRUE]
        ELSE [out |-> w.out + delta_a(w.price, point, liquidity, FALSE), price |-> point,
              left |-> w.left - max_in, done |-> w.left = max_in]

quote_to_base(pool, price, amount) ==
    LET up[i \in 0..Len(pool.curve)] ==
            IF i = 0 THEN Starting(price, amount) ELSE UpSegment(pool, up[i - 1], i)
    IN  up[Len(pool.curve)]

\* base_to_quote: down them; below point i lies the liquidity of segment i.
DownSegment(pool, w, i) ==
    LET point == pool.curve[i].price
        liquidity == pool.curve[i + 1].liquidity
        max_in == delta_a(point, w.price, liquidity, TRUE)
        next == next_sqrt_price_from_a(w.price, liquidity, w.left)
    IN  IF w.done \/ point >= w.price THEN w
        ELSE IF w.left < max_in
        THEN [out |-> w.out + delta_b(next, w.price, liquidity, FALSE), price |-> next, left |-> 0, done |-> TRUE]
        ELSE [out |-> w.out + delta_b(point, w.price, liquidity, FALSE), price |-> point,
              left |-> w.left - max_in, done |-> FALSE]

LastSegment(pool, w) ==
    LET liquidity == pool.curve[1].liquidity
        next == next_sqrt_price_from_a(w.price, liquidity, w.left)
    IN  IF w.left = 0 THEN [w EXCEPT !.done = TRUE]
        ELSE [out |-> w.out + delta_b(next, w.price, liquidity, FALSE), price |-> next, left |-> 0,
              done |-> next >= pool.sqrt_start]

base_to_quote(pool, price, amount) ==
    LET n == Len(pool.curve)
        down[k \in 0..(n - 1)] ==
            IF k = 0 THEN Starting(price, amount) ELSE DownSegment(pool, down[k - 1], n - k)
    IN  IF down[n - 1].done THEN down[n - 1] ELSE LastSegment(pool, down[n - 1])

Walked(pool, price, side, amount) ==
    IF side = "quote" THEN quote_to_base(pool, price, amount) ELSE base_to_quote(pool, price, amount)

\* The quote of a walk w that took actual_in.
Outcome(w, price, rate, on_input, actual_in) ==
    IF ~w.done THEN [quote |-> NoQuote, price |-> price]
    ELSE [quote |-> Quoting(IF on_input THEN w.out ELSE w.out - ceil_fee(w.out, rate), actual_in, w.out), price |-> w.price]

\* DbcCurve::swap_exact_in
DbcSwap(pool, price, vault, point, side, amount) ==
    LET rate == dbc_fee_numerator(pool.fees, point, side)
        on_input == side = "quote" /\ pool.fees_in = "quote"
        actual_in == IF on_input THEN amount - ceil_fee(amount, rate) ELSE amount
        refused == \/ is_complete(pool, vault) \/ rate \notin 0..FeeScale
                   \/ (side = "quote" /\ vault.quote + actual_in >= pool.threshold)
    IN  IF refused THEN [quote |-> NoQuote, price |-> price]
        ELSE Outcome(Walked(pool, price, side, actual_in), price, rate, on_input, actual_in)
=============================================================================
