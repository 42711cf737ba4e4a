------------------------------ MODULE TickCache ------------------------------
(***************************************************************************)
(* Quoting a concentrated-liquidity pool from memory: pool/ticks.rs reads  *)
(* the tick arrays, quote/clmm.rs walks them.                              *)
(*                                                                         *)
(* The state a quote starts from and the ticks it walks are read and       *)
(* published apart, in either order: a refresh loads the ticks and then    *)
(* inserts the state, a cold quote inserts the state first, and a failed   *)
(* tick load is ignored.  Which arrays to read comes from a bitmap that    *)
(* was recorded when some state was parsed.  Orca keeps a pool's           *)
(* volatility in an account that is read with the ticks.  The pool trades, *)
(* its volatility moves, and liquidity changes hands in between.           *)
(***************************************************************************)
EXTENDS TickWalk, Functions

CONSTANTS
    Worlds,      \* records: layout, spacing, fee_ppm, fee_on, fees (the step fees it may come to), book
    Books,       \* the books of positions and limit orders a pool may change to
    Prices,      \* prices a swap of others may leave the pool at
    Amounts,     \* bound: input amounts quoted
    ArraysEachSide,   \* ARRAYS_EACH_SIDE
    MaxChanges,  \* bound: changes on chain
    MaxReads,    \* bound: reads of the state
    NoPool, NoTicks

Ticks == MinTick..MaxTick

\* A finite book of positions and orders.
IsBook(b) ==
    /\ b = [positions |-> b.positions, orders |-> b.orders]
    /\ IsFiniteSet(b.positions) /\ b.positions \subseteq {p \in [lo : Ticks, hi : Ticks, liq : Nat] : p.lo < p.hi}
    /\ IsFiniteSet(b.orders) /\ b.orders \subseteq [tick : Ticks, amount : Nat]

\* What the walk refuses at its start is not a pool: a fee of everything, no spacing.
\* A swap stops at the limits, so that no price is beyond them.
ASSUME WorldsAssumption ==
    /\ \A w \in Worlds : /\ w.layout \in {"raydium", "orca", "fusion"}
                          /\ w.spacing \in Nat \ {0}
                          /\ w.fee_ppm \in 0..(PPM - 1)
                          /\ w.fees \subseteq {f \in Fees : f.kind \in {"static", w.layout}}
                          /\ w.book \in Books
    /\ \A b \in Books : IsBook(b)
    /\ Prices \subseteq LimitLow..LimitHigh
    /\ Amounts \subseteq 1..U64
    /\ ArraysEachSide \in Nat \ {0}

VARIABLES
    world,     \* the pool's fixed parameters
    chain,     \* on chain: its price, its book and its step fee
    parsed,    \* a state read and not yet published, with what is left to do
    cached,    \* the state in the pool cache
    bitmap,    \* TICK_BITMAPS: starts of the arrays set when a state was parsed, and their book
    ticks,     \* TICKS: the tick data in memory
    changes, reads

ticks_vars == <<world, chain, parsed, cached, bitmap, ticks, changes, reads>>

-----------------------------------------------------------------------------
(* The pool on chain.  A book is a set of positions [lo, hi, liq] and limit *)
(* orders [tick, amount].                                                   *)

Initialised(book) == {p.lo : p \in book.positions} \cup {p.hi : p \in book.positions} \cup {o.tick : o \in book.orders}

Liquidity(book) == [p \in book.positions |-> p.liq]

NetAt(book, t) ==
    SumFunctionOnSet(Liquidity(book), {p \in book.positions : p.lo = t})
    - SumFunctionOnSet(Liquidity(book), {p \in book.positions : p.hi = t})

LiquidityAt(book, t) == SumFunctionOnSet(Liquidity(book), {p \in book.positions : p.lo <= t /\ t < p.hi})

OrdersAt(book, t) ==
    SumFunctionOnSet([o \in book.orders |-> o.amount], {o \in book.orders : o.tick = t})

\* Tokens are counted in u64, so that what the positions hold between two ticks is one too.
ASSUME HoldingsAssumption ==
    \A b \in Books : \A t, u \in Ticks :
        t < u /\ (\A p \in b.positions : ~(t < p.lo /\ p.lo < u) /\ ~(t < p.hi /\ p.hi < u)) =>
            /\ amount0_delta(SqrtAt[t], SqrtAt[u], LiquidityAt(b, t), FALSE) <= U64
            /\ amount1_delta(SqrtAt[t], SqrtAt[u], LiquidityAt(b, t), FALSE) <= U64

\* Orders that a move between two prices passes are filled.
Passed(book, from, to) ==
    [book EXCEPT !.orders = {o \in @ : SqrtAt[o.tick] < AtMost(from, to) \/ SqrtAt[o.tick] > AtLeast(from, to)}]

\* The state a read of the pool account gives: Raydium's step fee is part of it, Orca's
\* is not.  book and charged are ghosts: the book and the fee the pool had.
Snapshot ==
    [layout |-> world.layout, spacing |-> world.spacing, fee_ppm |-> world.fee_ppm, fee_on |-> world.fee_on,
     fee |-> IF chain.fee.kind = "raydium" THEN chain.fee ELSE StaticFee, charged |-> chain.fee,
     sqrt_p |-> chain.sqrt_p, tick |-> TickAt(chain.sqrt_p),
     liq |-> LiquidityAt(chain.book, TickAt(chain.sqrt_p)), book |-> chain.book]

ArraysOf(pool, book) == {array_start(pool, t) : t \in Initialised(book)}

\* Tick data that holds the ticks of some arrays, and claims to know a range, with the
\* volatility that Orca's oracle has; planned is the book by which the arrays were chosen.
TickData(pool, book, fee, planned, starts, lo, hi) ==
    LET known == {t \in Initialised(book) : array_start(pool, t) \in starts}
    IN  [nets |-> [t \in known |-> NetAt(book, t)],
         orders |-> [t \in {u \in known : OrdersAt(book, u) > 0} |-> OrdersAt(book, t)],
         arrays |-> ArraysOf(pool, book) \cap starts, lo |-> lo, hi |-> hi,
         adaptive_fee |-> IF fee.kind = "orca" THEN fee ELSE StaticFee, book |-> book, planned |-> planned]

EveryTick(pool, book) == TickData(pool, book, pool.charged, book, ArraysOf(pool, book), MinTick, MaxTick)

-----------------------------------------------------------------------------
(* pool/ticks.rs tick_fetch_plan                                            *)

Closest(S, n, a_to_b) == {s \in S : Nearer(S, s, a_to_b) < n}

FirstArray(pool) == array_start(pool, MinTick)
LastArray(pool) == array_start(pool, MaxTick)

\* From the bitmap: the nearest initialised arrays at either side, and the
\* range they make known, since arrays whose bit is clear are empty.
bitmap_plan(pool) ==
    LET cur == array_start(pool, pool.tick)
        below == Closest({s \in bitmap.starts : s <= cur}, ArraysEachSide, TRUE)
        above == Closest({s \in bitmap.starts : s >= cur}, ArraysEachSide, FALSE)
    IN  [starts |-> below \cup above,
         lo |-> IF Cardinality(below) = ArraysEachSide THEN Min(below) ELSE FirstArray(pool),
         hi |-> (IF Cardinality(above) = ArraysEachSide THEN Max(above) ELSE LastArray(pool)) + span(pool) - 1]

window_planWide(pool) ==
    LET cur == array_start(pool, pool.tick)
    IN  [starts |-> {cur + k * span(pool) : k \in -ArraysEachSide..ArraysEachSide},
         lo |-> cur - (ArraysEachSide + 1) * span(pool),
         hi |-> cur + (ArraysEachSide + 1) * span(pool) + span(pool) - 1]

\* Else a window of arrays around the price.
window_plan(pool) ==
    LET cur == array_start(pool, pool.tick)
    IN  [starts |-> {cur + k * span(pool) : k \in -ArraysEachSide..ArraysEachSide},
         lo |-> cur - ArraysEachSide * span(pool),
         hi |-> cur + ArraysEachSide * span(pool) + span(pool) - 1]

Mapped(pool) == pool.layout = "raydium" /\ bitmap.starts # {}

tick_fetch_plan(pool) ==
    IF Mapped(pool) THEN bitmap_plan(pool) ELSE window_plan(pool)

-----------------------------------------------------------------------------
TicksInit ==
    /\ world \in Worlds
    /\ chain \in [sqrt_p : Prices, book : {world.book}, fee : world.fees]
    /\ parsed = NoPool
    /\ cached = NoPool
    /\ bitmap = [starts |-> {}, book |-> world.book]
    /\ ticks = NoTicks
    /\ changes = 0 /\ reads = 0

Change == changes < MaxChanges /\ changes' = changes + 1 /\ UNCHANGED <<world, parsed, cached, bitmap, ticks, reads>>

\* A swap leaves another price, and the volatility that comes of it.
ChainSwap ==
    /\ \E p \in Prices \ {chain.sqrt_p}, f \in world.fees :
          chain' = [sqrt_p |-> p, book |-> Passed(chain.book, chain.sqrt_p, p), fee |-> f]
    /\ Change

ChainLiquidity ==
    /\ \E b \in Books \ {chain.book} : chain' = [chain EXCEPT !.book = b]
    /\ Change

\* A pool account is read and parsed: the bitmap is recorded at once.
ReadState ==
    /\ parsed = NoPool
    /\ reads < MaxReads
    /\ parsed' = [pool |-> Snapshot, todo |-> {"ticks", "state"}]
    /\ bitmap' = [starts |-> ArraysOf(Snapshot, chain.book), book |-> chain.book]
    /\ reads' = reads + 1
    /\ UNCHANGED <<world, chain, cached, ticks, changes>>

Finished(todo) == IF todo = {} THEN NoPool ELSE [parsed EXCEPT !.todo = todo]

\* publish_ticks: what the accounts hold now, under the plan of the state read.
LoadTicks ==
    /\ parsed # NoPool /\ "ticks" \in parsed.todo
    /\ LET plan == tick_fetch_plan(parsed.pool)
           planned == IF Mapped(parsed.pool) THEN bitmap.book ELSE chain.book
       IN  ticks' = TickData(parsed.pool, chain.book, chain.fee, planned, plan.starts, plan.lo, plan.hi)
    /\ parsed' = Finished(parsed.todo \ {"ticks"})
    /\ UNCHANGED <<world, chain, cached, bitmap, changes, reads>>

\* A failed load keeps the ticks of before.
LoadTicksFails ==
    /\ parsed # NoPool /\ "ticks" \in parsed.todo
    /\ parsed' = Finished(parsed.todo \ {"ticks"})
    /\ UNCHANGED <<world, chain, cached, bitmap, ticks, changes, reads>>

InsertState ==
    /\ parsed # NoPool /\ "state" \in parsed.todo
    /\ cached' = parsed.pool
    /\ parsed' = Finished(parsed.todo \ {"state"})
    /\ UNCHANGED <<world, chain, bitmap, ticks, changes, reads>>

TicksNext == ChainSwap \/ ChainLiquidity \/ ReadState \/ LoadTicks \/ LoadTicksFails \/ InsertState

TicksSpec == TicksInit /\ [][TicksNext]_ticks_vars

-----------------------------------------------------------------------------
(* Properties                                                               *)

Quotable == cached # NoPool /\ ticks # NoTicks

\* The walk over every tick of the pool at the fee it charges, as far as it likes.
ChainWalk(pool, a_to_b, amount) ==
    swap_exact_in_pool_within([pool EXCEPT !.fee = pool.charged], EveryTick(pool, pool.book), a_to_b, amount,
                              NoBound(a_to_b))

\* The walk over what is in memory, as far as the arrays of the instruction reach.
MemoryWalk(a_to_b, amount) ==
    swap_exact_in_pool_within(ClmmPool(cached, ticks), ticks, a_to_b, amount, swap_tick_bound(cached, ticks, a_to_b))

Paid(w) == IF w.status = "done" THEN w.out ELSE 0

Optimistic ==
    \E a_to_b \in BOOLEAN, amount \in Amounts :
        clmm_walk(cached, ticks, a_to_b, amount) > Paid(ChainWalk(cached, a_to_b, amount))

\* The arrays were chosen and read in the book that the state was read in.
SameBook == Quotable /\ cached.book = ticks.book /\ ticks.planned = ticks.book

\* The walk is at the fee that the pool charged when the state was read: always so for
\* Raydium, whose fee is part of the state, while Orca's volatility is of the moment
\* when the ticks were read.
SameFee == ClmmPool(cached, ticks).fee = cached.charged

\* Quotes walk what is in memory.  However the price moved between the reads of
\* the state and of the arrays, and whichever was published last, a quote is
\* never more than the pool pays, as long as it starts where ticks are known and
\* the volatility of Orca's ticks is that of the state.
NeverOptimistic == SameBook /\ SameFee /\ cached.tick \in ticks.lo..ticks.hi => ~Optimistic

\* The same wherever the quote starts, as the comment on swap_exact_in_pool of
\* quote/clmm.rs has it: None when the swap would leave the covered tick range,
\* "never an optimistic number".
NeverOptimisticRange == SameBook /\ SameFee => ~Optimistic

\* Crossing the ticks in memory leaves the liquidity that the pool has at the
\* price reached, however far the walk goes; so does crossing all of them.
LiquidityAgrees ==
    SameBook /\ cached.tick \in ticks.lo..ticks.hi =>
        \A a_to_b \in BOOLEAN, amount \in Amounts :
            \A w \in {MemoryWalk(a_to_b, amount), ChainWalk(cached, a_to_b, amount)} :
                w.status = "done" => w.liq = LiquidityAt(cached.book, w.tick)

\* A swap and the swap of its output back never leave the trader with more.
RoundTripLoses ==
    cached # NoPool =>
        \A a_to_b \in BOOLEAN, amount \in Amounts :
            \A w \in {ChainWalk(cached, a_to_b, amount)} :
                LET back == [cached EXCEPT !.sqrt_p = w.sqrt_p, !.tick = w.tick, !.liq = w.liq,
                                           !.book = Passed(@, cached.sqrt_p, w.sqrt_p)]
                IN  w.status = "done" /\ w.out > 0 =>
                        \A returned \in {ChainWalk(back, ~a_to_b, w.out)} :
                            returned.status = "done" => returned.out <= amount
=============================================================================
