------------------------------ MODULE TickWalk ------------------------------
(***************************************************************************)
(* An exact-input swap over the ticks in memory: quote/clmm.rs             *)
(* swap_exact_in_pool_within, and quote/router.rs clmm_walk around it.     *)
(*                                                                         *)
(* A pool is what the cached state holds of it: layout, sqrt_p, tick, liq, *)
(* spacing, fee_ppm, fee_on and Raydium's step fee.  Tick data is nets     *)
(* (tick -> liquidity_net of the initialised ticks), orders (tick ->       *)
(* unfilled limit orders), the covered range, the arrays that hold a tick, *)
(* and Orca's step fee, which is read with them (ClmmPool).                *)
(*                                                                         *)
(* The two nested loops are one step here: a step leaves target and        *)
(* liquidity alone unless it reaches the target, so nothing changes when   *)
(* they are computed again.  The code gives up after 512 ticks, and at its *)
(* compute budget; MaxTurns stands for both, and no walk of an instance    *)
(* takes as many.                                                          *)
(***************************************************************************)
EXTENDS SqrtPrice, FiniteSets, FiniteSetsExt

CONSTANTS
    MinTick, MaxTick,
    SqrtAt,         \* sqrt_price_at_tick: a table over MinTick..MaxTick
    LimitLow, LimitHigh,   \* the price limits of the programs
    ArrayTicks,     \* ticks_per_array: 60 for Raydium, 88 for Orca and Fusion
    VolatilityScale, DynamicScale,   \* VOLATILITY_ACCUMULATOR_SCALE and 1e13
    MaxTurns        \* the turns after which a walk is given up

\* The prices of the programs rise with the tick, from 2^32 on.
ASSUME TicksAssumption ==
    /\ MinTick \in Int /\ MaxTick \in Int /\ MinTick < MaxTick
    /\ SqrtAt \in [MinTick..MaxTick -> Nat]
    /\ \A t, u \in MinTick..MaxTick : t < u => SqrtAt[t] < SqrtAt[u]
    /\ SqrtAt[MinTick] * SqrtAt[MinTick] >= Q64
    /\ LimitLow \in SqrtAt[MinTick]..SqrtAt[MaxTick] /\ LimitHigh \in SqrtAt[MinTick]..SqrtAt[MaxTick]
    /\ ArrayTicks \in Nat \ {0} /\ VolatilityScale \in Nat \ {0} /\ DynamicScale \in Nat \ {0}
    /\ MaxTurns \in Nat

Clamp(t) == AtMost(AtLeast(t, MinTick), MaxTick)

\* The largest tick at or below a price.
TickAt(p) == Max({t \in MinTick..MaxTick : SqrtAt[t] <= p})

\* div_euclid: TLA+'s \div rounds down.
index_of(tick, size) == tick \div size

span(pool) == ArrayTicks * pool.spacing
array_start(pool, tick) == index_of(tick, span(pool)) * span(pool)

-----------------------------------------------------------------------------
(* The fee of a step: fixed, Raydium's dynamic fee re-read every tick       *)
(* spacing, or Orca's adaptive fee re-read every tick group.                *)
(* fee is [kind, size, control, reduction, reference, tick_reference,       *)
(* volatility, max_volatility, index, age]: age says how its last update    *)
(* lies to the two periods at the moment of the quote.                      *)

Magnitude(x) == IF x < 0 THEN -x ELSE x

\* The fees a pool can have: the reference of a dynamic one is the group of some tick.
DynamicFees ==
    {f \in [kind : {"raydium", "orca"}, size : Nat \ {0}, control : Nat, reduction : Nat, reference : Nat,
             tick_reference : Int, volatility : Nat, max_volatility : Nat, index : Int,
             age : {"filtered", "decaying", "old"}] :
        \E t \in MinTick..MaxTick : f.tick_reference = index_of(t, f.size)}

StaticFee == [kind |-> "static"]
Fees == {StaticFee} \cup DynamicFees

update_reference(fee, index) ==
    CASE fee.age = "filtered" -> [fee EXCEPT !.index = index]
      [] fee.age = "decaying" -> [fee EXCEPT !.index = index, !.tick_reference = index,
                                         !.reference = (fee.volatility * fee.reduction) \div BasisPoints]
      [] fee.age = "old" -> [fee EXCEPT !.index = index, !.tick_reference = index, !.reference = 0]

\* update_volatility_accumulator
Volatile(fee) ==
    [fee EXCEPT !.volatility =
        AtMost(fee.reference + Magnitude(fee.tick_reference - fee.index) * VolatilityScale, fee.max_volatility)]

\* total_fee_rate, at most 10 %.
total_fee_rate(fee, base) ==
    LET crossed == fee.volatility * fee.size
    IN  AtMost(base + AtMost(div_ceil(fee.control * crossed * crossed, DynamicScale), PPM \div 10), PPM \div 10)

Saturating(fee) == div_ceil(AtLeast(fee.max_volatility - fee.reference, 0), VolatilityScale)

\* The target brought in to the boundary of the fee's period; skipped tells
\* that it was left alone because the fee cannot change on the way.
PeriodTarget(fee, liq, target, a_to_b) ==
    LET boundary == SqrtAt[Clamp(IF a_to_b THEN fee.index * fee.size ELSE (fee.index + 1) * fee.size)]
        nearer == IF a_to_b THEN AtLeast(target, boundary) ELSE AtMost(target, boundary)
        low == (fee.tick_reference - Saturating(fee)) * fee.size
        high == (fee.tick_reference + Saturating(fee)) * fee.size + fee.size
        outside_low == low > MinTick /\ fee.index < fee.tick_reference - Saturating(fee)
        outside_high == high < MaxTick /\ fee.index > fee.tick_reference + Saturating(fee)
    IN  CASE fee.kind = "static" -> [target |-> target, skipped |-> TRUE]
          [] fee.kind = "raydium" ->
                IF liq = 0 \/ fee.volatility = fee.max_volatility
                THEN [target |-> target, skipped |-> TRUE]
                ELSE [target |-> nearer, skipped |-> FALSE]
          [] fee.kind = "orca" ->
                IF fee.control = 0 \/ liq = 0 THEN [target |-> target, skipped |-> TRUE]
                ELSE IF outside_low
                THEN [target |-> IF a_to_b THEN target ELSE AtMost(target, SqrtAt[low]), skipped |-> TRUE]
                ELSE IF outside_high
                THEN [target |-> IF a_to_b THEN AtLeast(target, SqrtAt[high]) ELSE target, skipped |-> TRUE]
                ELSE [target |-> nearer, skipped |-> FALSE]

\* The period after the step; where bounding was skipped, from where it landed.
Landed(fee, p, tick_price, target_tick, tick, a_to_b) ==
    LET t == IF p = tick_price THEN target_tick ELSE IF fee.kind = "raydium" THEN tick ELSE TickAt(p)
        boundary == t % fee.size = 0 /\ ~a_to_b
                    /\ ((fee.kind = "orca" /\ p # tick_price) => p = SqrtAt[t])
        last == IF boundary THEN index_of(t, fee.size) - 1 ELSE index_of(t, fee.size)
    IN  IF fee.kind = "raydium" THEN
            LET f == [fee EXCEPT !.index = last]
            IN  IF f.volatility # f.max_volatility THEN Volatile(f) ELSE f
        ELSE IF (a_to_b /\ last < fee.index) \/ (~a_to_b /\ last > fee.index)
        THEN Volatile([fee EXCEPT !.index = last]) ELSE fee

advance(fee, skipped, p, tick_price, target_tick, tick, a_to_b) ==
    IF fee.kind = "static" THEN fee
    ELSE LET f == IF skipped THEN Landed(fee, p, tick_price, target_tick, tick, a_to_b) ELSE fee
         IN  [f EXCEPT !.index = @ + (IF a_to_b THEN -1 ELSE 1)]

-----------------------------------------------------------------------------
(* Limit orders resting on a tick                                           *)

OnInput(rate, fee_on_input) == IF fee_on_input THEN rate ELSE 0

\* Raydium: filled at the tick's price, as far as the input goes.
match_limit_orders(unfilled, remaining, tick_price, rate, a_to_b, fee_on_input) ==
    LET ratio == (tick_price * tick_price + (IF a_to_b THEN 0 ELSE Q64 - 1)) \div Q64
        net == remaining - div_ceil(remaining * OnInput(rate, fee_on_input), PPM)
        matched == IF a_to_b THEN (net * ratio) \div Q64 ELSE (net * Q64) \div ratio
        full == IF a_to_b THEN div_ceil(unfilled * Q64, ratio) ELSE div_ceil(unfilled * ratio, Q64)
        out == AtMost(matched, unfilled)
        used == IF matched > unfilled THEN full + fee_within(full, OnInput(rate, fee_on_input)) ELSE remaining
        got == IF fee_on_input THEN out ELSE out - div_ceil(out * rate, PPM)
    IN  IF unfilled = 0 \/ remaining = 0 THEN [used |-> 0, got |-> 0, filled |-> 0]
        ELSE [used |-> used, got |-> got, filled |-> out]

\* DefiTuna Fusion: the price is not rounded first, and the tick is crossed
\* whether or not its orders are filled.
fill_fusion_orders(unfilled, remaining, tick_price, rate, a_to_b) ==
    LET square == tick_price * tick_price
        full == IF a_to_b THEN div_ceil(unfilled * Q64 * Q64, square)
                ELSE div_ceil(unfilled * (square \div Q64), Q64)
        part == remaining - div_ceil(remaining * rate, PPM)
    IN  IF unfilled = 0 THEN [used |-> 0, got |-> 0, filled |-> 0]
        ELSE IF remaining >= full + fee_within(full, rate)
        THEN [used |-> full + fee_within(full, rate), got |-> unfilled, filled |-> unfilled]
        ELSE [used |-> remaining, got |-> (unfilled * part) \div full, filled |-> unfilled]

Filled(pool, unfilled, remaining, tick_price, rate, a_to_b, fee_on_input) ==
    IF pool.layout = "fusion" THEN fill_fusion_orders(unfilled, remaining, tick_price, rate, a_to_b)
    ELSE match_limit_orders(unfilled, remaining, tick_price, rate, a_to_b, fee_on_input)

-----------------------------------------------------------------------------
(* The walk                                                                 *)

\* arrays_for_swap and swap_tick_bound: how far the tick arrays reach that the
\* swap instruction carries.  Raydium passes the first three that hold a tick,
\* Orca three in a row, Fusion the current one and a neighbour.
Carried(pool, ticks, a_to_b) ==
    {s \in ticks.arrays : IF a_to_b THEN s <= array_start(pool, pool.tick) ELSE s >= array_start(pool, pool.tick)}

Nearer(S, s, a_to_b) == Cardinality({r \in S : IF a_to_b THEN r > s ELSE r < s})

Third(S, a_to_b) == CHOOSE s \in S : Nearer(S, s, a_to_b) = 2

NoBound(a_to_b) == IF a_to_b THEN MinTick ELSE MaxTick

swap_tick_bound(pool, ticks, a_to_b) ==
    CASE pool.layout = "raydium" ->
            IF Cardinality(Carried(pool, ticks, a_to_b)) < 3 THEN NoBound(a_to_b)
            ELSE LET third == Third(Carried(pool, ticks, a_to_b), a_to_b)
                 IN  IF a_to_b THEN third ELSE third + span(pool) - 1
      [] pool.layout = "orca" ->
            IF a_to_b THEN array_start(pool, pool.tick) - 2 * span(pool)
            ELSE array_start(pool, pool.tick + pool.spacing) + 3 * span(pool) - 1
      [] pool.layout = "fusion" ->
            IF a_to_b THEN array_start(pool, pool.tick) - span(pool)
            ELSE array_start(pool, pool.tick) + 2 * span(pool) - 1

\* The edge of what the walk may use, and the price where the program stops.
Edge(ticks, a_to_b, bound) == IF a_to_b THEN AtLeast(ticks.lo, bound) ELSE AtMost(ticks.hi, bound)
limit(a_to_b) == IF a_to_b THEN LimitLow ELSE LimitHigh

fee_on_input(pool, a_to_b) ==
    CASE pool.fee_on = "a" -> a_to_b [] pool.fee_on = "b" -> ~a_to_b [] OTHER -> TRUE

\* Initialised ticks ahead of the walk and within the edge.
Ahead(w, ticks, a_to_b, edge) ==
    {t \in DOMAIN ticks.nets : IF a_to_b THEN edge <= t /\ t <= w.cursor ELSE w.cursor < t /\ t <= edge}

\* The next of them, or the edge as a tick that may not be passed.
TargetTick(w, ticks, a_to_b, edge) ==
    LET ahead == Ahead(w, ticks, a_to_b, edge)
    IN  Clamp(IF ahead # {} THEN (IF a_to_b THEN Max(ahead) ELSE Min(ahead))
              ELSE IF a_to_b THEN edge ELSE edge + 1)

Failed(w) == [w EXCEPT !.status = "none"]

Unfilled(ticks, tick) == IF tick \in DOMAIN ticks.orders THEN ticks.orders[tick] ELSE 0

\* f of the orders of the tick are filled, and its liquidity is crossed once
\* none are left.
AfterOrders(w, tick, f, left, liq, a_to_b) ==
    IF f.used > w.remaining \/ (left = 0 /\ liq < 0) \/ (left > 0 /\ w.remaining > f.used) THEN Failed(w)
    ELSE [w EXCEPT !.remaining = @ - f.used, !.out = @ + f.got,
                   !.liq = IF left = 0 THEN liq ELSE @,
                   !.tick = IF a_to_b = (left = 0) THEN tick - 1 ELSE tick,
                   !.cursor = IF a_to_b THEN tick - 1 ELSE tick]

Orders(pool, ticks, w, tick, rate, a_to_b) ==
    Filled(pool, Unfilled(ticks, tick), w.remaining, SqrtAt[tick], rate, a_to_b, fee_on_input(pool, a_to_b))

CrossedUpwards(pool, ticks, w, tick, rate, a_to_b) ==
    LET f == Orders(pool, ticks, w, tick, rate, a_to_b)
    IN  AfterOrders(w, tick, f, Unfilled(ticks, tick) - f.filled, w.liq + ticks.nets[tick], a_to_b)

Crossed(pool, ticks, w, tick, rate, a_to_b) ==
    LET f == Orders(pool, ticks, w, tick, rate, a_to_b)
    IN  AfterOrders(w, tick, f, Unfilled(ticks, tick) - f.filled,
                    w.liq + (IF a_to_b THEN -ticks.nets[tick] ELSE ticks.nets[tick]), a_to_b)

\* A step within one range of liquidity.
Taken(w, s) ==
    IF s = NoStep THEN Failed(w) ELSE [w EXCEPT !.sqrt_p = s.next, !.remaining = @ - s.used, !.out = @ + s.got]

Moved(pool, w, to, rate, a_to_b) ==
    IF w.sqrt_p = to THEN w
    ELSE IF w.liq = 0 THEN [w EXCEPT !.sqrt_p = to]
    ELSE Taken(w, swap_step(w.sqrt_p, to, w.liq, w.remaining, rate, a_to_b, fee_on_input(pool, a_to_b)))

\* At the target the tick is crossed; at the edge the walk must be over.
Arrived(pool, ticks, w, target_tick, known, rate, a_to_b) ==
    IF w.status = "none" \/ w.sqrt_p # SqrtAt[target_tick] THEN w
    ELSE IF known THEN Crossed(pool, ticks, w, target_tick, rate, a_to_b)
    ELSE IF w.remaining > 0 THEN Failed(w) ELSE [w EXCEPT !.status = "done"]

\* The fee's period moves with the price.
Advanced(w, before, target_tick, period, a_to_b) ==
    [w EXCEPT !.fee = advance(before.fee, period.skipped, w.sqrt_p, SqrtAt[target_tick], target_tick, w.tick, a_to_b),
              !.steps = IF before.sqrt_p # period.target THEN @ + 1 ELSE @]

Bounded(p, a_to_b) == IF a_to_b THEN AtLeast(p, limit(a_to_b)) ELSE AtMost(p, limit(a_to_b))
Rated(fee, base) == IF fee.kind = "static" THEN base ELSE total_fee_rate(fee, base)

Turned(pool, ticks, w, target_tick, known, period, rate, a_to_b) ==
    Advanced(Arrived(pool, ticks, Moved(pool, w, period.target, rate, a_to_b), target_tick, known, rate, a_to_b),
             w, target_tick, period, a_to_b)

TurnTo(pool, ticks, w, target_tick, known, a_to_b) ==
    IF a_to_b /\ (w.tick < target_tick \/ w.sqrt_p < SqrtAt[target_tick]) THEN Failed(w)
    ELSE IF ~a_to_b /\ (target_tick <= w.tick \/ SqrtAt[target_tick] < w.sqrt_p) THEN Failed(w)
    ELSE Turned(pool, ticks, w, target_tick, known,
                PeriodTarget(w.fee, w.liq, Bounded(SqrtAt[target_tick], a_to_b), a_to_b),
                Rated(w.fee, pool.fee_ppm), a_to_b)

\* One turn of the loops.
WalkStep(pool, ticks, w, a_to_b, edge) ==
    TurnTo(pool, ticks, [w EXCEPT !.fee = IF @.kind = "static" THEN @ ELSE Volatile(@)],
           TargetTick(w, ticks, a_to_b, edge), Ahead(w, ticks, a_to_b, edge) # {}, a_to_b)

Ended(w, a_to_b) ==
    IF w.status # "walking" THEN w
    ELSE IF w.remaining = 0 THEN [w EXCEPT !.status = "done"]
    ELSE IF w.sqrt_p = limit(a_to_b) THEN Failed(w) ELSE w

Turn(pool, ticks, w, a_to_b, edge) ==
    IF w.status = "walking" THEN WalkStep(pool, ticks, w, a_to_b, edge) ELSE w

Onward(pool, ticks, w, a_to_b, edge) ==
    IF w.status # "walking" THEN w ELSE Turn(pool, ticks, Ended(w, a_to_b), a_to_b, edge)

Walked(pool, ticks, start, a_to_b, edge) ==
    LET walk[n \in 0..MaxTurns] == IF n = 0 THEN start ELSE Onward(pool, ticks, walk[n - 1], a_to_b, edge)
    IN  Ended(walk[MaxTurns], a_to_b)

Start(pool, amount) ==
    [status |-> "walking", remaining |-> amount, sqrt_p |-> pool.sqrt_p, tick |-> pool.tick,
     liq |-> pool.liq, out |-> 0, cursor |-> pool.tick, steps |-> 0,
     fee |-> IF pool.fee.kind = "static" THEN pool.fee
             ELSE update_reference(pool.fee, index_of(pool.tick, pool.fee.size))]

swap_exact_in_pool_within(pool, ticks, a_to_b, amount, bound) ==
    Walked(pool, ticks, Start(pool, amount), a_to_b, Edge(ticks, a_to_b, bound))

\* The pool that is walked: Raydium's dynamic fee is in the state, Orca's adaptive fee
\* is what the ticks were read with.
ClmmPool(state, ticks) == [state EXCEPT !.fee = IF @.kind = "raydium" THEN @ ELSE ticks.adaptive_fee]

\* What a quote takes from the walk: clmm_walk refuses an output of nothing.
AmountOut(w) == IF w.status = "done" /\ w.out <= U64 THEN w.out ELSE 0

clmm_walk(state, ticks, a_to_b, amount) ==
    AmountOut(swap_exact_in_pool_within(ClmmPool(state, ticks), ticks, a_to_b, amount,
                                        swap_tick_bound(state, ticks, a_to_b)))
=============================================================================
