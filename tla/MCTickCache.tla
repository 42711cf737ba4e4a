---------------------------- MODULE MCTickCache ----------------------------
(* Twenty-one ticks in arrays of two; prices step by a tenth.  Positions    *)
(* overlap at the price, and one lies three arrays away.  Swaps leave a     *)
(* dynamic fee calm, risen, or past its periods.                            *)
EXTENDS TickCache, TLC

CONSTANTS Pool0, Ticks0

MCMinTick == -10

MCSqrtAt == [t \in -10..10 |->
    CASE t = -10 -> 25 [] t = -9 -> 27 [] t = -8 -> 30 [] t = -7 -> 33 [] t = -6 -> 36 [] t = -5 -> 40
      [] t = -4 -> 44 [] t = -3 -> 48 [] t = -2 -> 53 [] t = -1 -> 58 [] t = 0 -> 64 [] t = 1 -> 70
      [] t = 2 -> 77 [] t = 3 -> 85 [] t = 4 -> 94 [] t = 5 -> 103 [] t = 6 -> 113 [] t = 7 -> 124
      [] t = 8 -> 137 [] t = 9 -> 151 [] t = 10 -> 166]

Position(lo, hi, liq) == [lo |-> lo, hi |-> hi, liq |-> liq]
Order(tick, amount) == [tick |-> tick, amount |-> amount]

Narrow == [positions |-> {Position(-2, 2, 30)}, orders |-> {}]
Layered == [positions |-> {Position(-8, 8, 12), Position(-1, 3, 20), Position(-6, -3, 9)}, orders |-> {Order(-2, 3), Order(2, 4)}]
Sparse == [positions |-> {Position(-2, 3, 15), Position(-9, -7, 25), Position(6, 9, 25)}, orders |-> {}]

Volatility(kind, reference, volatility, age) ==
    [kind |-> kind, size |-> 1, control |-> 4000, reduction |-> 5000, reference |-> reference, tick_reference |-> 0,
     volatility |-> volatility, max_volatility |-> 4, index |-> 0, age |-> age]

World(layout, ppm, fee_on, fees, book) ==
    [layout |-> layout, spacing |-> 1, fee_ppm |-> ppm, fee_on |-> fee_on, fees |-> fees, book |-> book]

MCWorlds ==
    {World("raydium", 30000, on, f, b) : on \in {"in", "a"}, b \in {Layered, Sparse},
        f \in {{StaticFee}, {Volatility("raydium", 1, 2, "decaying"), Volatility("raydium", 3, 4, "decaying")}}}
    \cup {World("orca", 30000, "in", f, b) : b \in {Narrow, Sparse},
        f \in {{StaticFee}, {Volatility("orca", 1, 2, "filtered"), Volatility("orca", 3, 4, "filtered"), Volatility("orca", 1, 2, "old")}}}
    \cup {World("fusion", ppm, "in", {StaticFee}, b) : ppm \in {0, 30000}, b \in {Layered, Sparse}}
MCBooks == {Narrow, Layered, Sparse}
MCPrices == {MCSqrtAt[0], 50, MCSqrtAt[-7], 110}
MCAmounts == {1, 2, 5, 9, 14, 20}
=============================================================================
