----------------------------- MODULE DlmmWalk -----------------------------
(***************************************************************************)
(* Meteora DLMM: quote/dlmm.rs.  A ladder of bins, each with a price of its*)
(* own; a swap drains the active bin and steps to the next one, from array *)
(* to array as the pair's bitmap marks them.  X is side base, Y side quote.*)
(*                                                                         *)
(* A pair is [step, base_rate, control, reduction, max_va, va, va_ref,     *)
(* index_ref, active, fee_on, orders].  Bins are those of the arrays in    *)
(* memory, a function of bin ids.  Data is the arrays that the bitmaps mark*)
(* as liquid, and whether the bitmap's extension exists.  Which arrays are *)
(* in memory is decided by pool/bins.rs, below the walk.                   *)
(***************************************************************************)
EXTENDS DammV2, FiniteSets

CONSTANTS BinsPerArray,   \* BINS_PER_ARRAY, 70
          BitmapSize,     \* BITMAP_SIZE, 512: arrays the pair's own bitmap covers
          SwapArrays,     \* SWAP_ARRAYS, 3
          MaxBinId,       \* MAX_BIN_ID
          VaStep          \* volatility of one bin, BASIS_POINT_MAX

ASSUME DlmmAssumption ==
    /\ BinsPerArray \in Nat \ {0} /\ BitmapSize \in Nat /\ SwapArrays \in Nat
    /\ MaxBinId \in Nat /\ VaStep \in Nat

MaxFeeRate == FeeScale \div 10

BinIds == -MaxBinId..MaxBinId
array_index(bin) == bin \div BinsPerArray
BinsOf(array) == array * BinsPerArray..(array + 1) * BinsPerArray - 1

-----------------------------------------------------------------------------
(* Price and fee of a bin                                                   *)

\* A base of one or more is inverted first: powers only ever shrink.
price_from_id(id, step) ==
    LET base == Q64 + (step * Q64) \div BasisPoints
        inverse == (Q64 * Q64 - 1) \div base
        power == pow_q64(inverse, IF id < 0 THEN -id ELSE id)
    IN  CASE id = 0 -> Q64
          [] id < 0 -> power
          [] OTHER -> (Q64 * Q64 - 1) \div power

\* age: how the last swap lies to the filter and the decay period.
update_references(pair, age) ==
    CASE age = "filtered" -> pair
      [] age = "decaying" -> [pair EXCEPT !.index_ref = pair.active, !.va_ref = (pair.va * pair.reduction) \div BasisPoints]
      [] age = "old" -> [pair EXCEPT !.index_ref = pair.active, !.va_ref = 0]

Distance(x, y) == IF x < y THEN y - x ELSE x - y

update_volatility_accumulator(pair) ==
    [pair EXCEPT !.va = AtMost(pair.va_ref + Distance(pair.index_ref, pair.active) * VaStep, pair.max_va)]

bin_fee_rate(pair) ==
    LET moved == pair.va * pair.step
    IN  AtMost(pair.base_rate + div_ceil(pair.control * moved * moved, VariableScale), MaxFeeRate)

-----------------------------------------------------------------------------
(* A bin: [x, y, price, processed, open, ask]; its orders sell X if ask.    *)

amount_in_for(out, price, side) == IF side = "base" THEN div_ceil(out * Q64, price) ELSE div_ceil(out * price, Q64)
amount_out_forUp(amount, price, side) ==
    IF side = "base" THEN div_ceil(price * amount, Q64) ELSE div_ceil(amount * Q64, price)
amount_out_for(amount, price, side) ==
    IF side = "base" THEN (price * amount) \div Q64 ELSE (amount * Q64) \div price

MakerOut(bin, side) == IF side = "base" THEN bin.y ELSE bin.x

\* Orders a swap of this side can fill: X in takes bids, Y in takes asks.
Fillable(pair, bin, side) == pair.orders /\ ((side = "base") # bin.ask)

max_amount_out(pair, bin, side) ==
    MakerOut(bin, side) + (IF Fillable(pair, bin, side) THEN bin.processed + bin.open ELSE 0)

fill(amount, max_out, price, side) ==
    LET max_in == amount_in_for(max_out, price, side)
    IN  IF max_out = 0 \/ amount = 0 THEN [used |-> 0, out |-> 0]
        ELSE IF amount >= max_in THEN [used |-> max_in, out |-> max_out]
        ELSE [used |-> amount, out |-> amount_out_for(amount, price, side)]

\* Market makers first, then processed orders, then open ones.
Layers(pair, bin, price, amount, side) ==
    LET maker == fill(amount, MakerOut(bin, side), price, side)
        rest == IF Fillable(pair, bin, side) THEN bin.processed ELSE 0
        processed == fill(amount - maker.used, rest, price, side)
        resting == IF Fillable(pair, bin, side) THEN bin.open ELSE 0
        open == fill(amount - maker.used - processed.used, resting, price, side)
    IN  [maker |-> maker, processed |-> processed, open |-> open,
         used |-> maker.used + processed.used + open.used, out |-> maker.out + processed.out + open.out]

fee_on_top(amount, rate) == div_ceil(amount * rate, FeeScale - rate)

\* Mode 1 charges X->Y on what it pays.
bin_fee_on_input(pair, side) == pair.fee_on # "y" \/ side = "quote"

\* [consumed, out]: a drained bin charges what it absorbed.
swap_in_bin(pair, price, layers, excluded, amount, side) ==
    LET rate == bin_fee_rate(pair)
        on_input == bin_fee_on_input(pair, side)
        drained == layers.used < excluded
        top == IF on_input THEN fee_on_top(layers.used, rate) ELSE 0
        off == IF on_input THEN 0 ELSE ceil_fee(layers.out, rate)
    IN  [consumed |-> IF drained THEN layers.used + top ELSE amount,
         out |-> layers.out - off]

-----------------------------------------------------------------------------
(* The walk                                                                 *)

needs_extension(array) == array \notin -BitmapSize..BitmapSize - 1

\* The next liquid array at or beyond one, in the direction of the swap.
Beyond(liquid, from, side) == {a \in liquid : IF side = "base" THEN a <= from ELSE a >= from}
Nearest(arrays, side) ==
    CHOOSE a \in arrays : \A b \in arrays : IF side = "base" THEN b <= a ELSE a <= b

\* The program's bins after a fill: makers are paid in, orders are settled.
Taken(bin, layers, side) ==
    LET b == [bin EXCEPT !.processed = @ - layers.processed.out, !.open = @ - layers.open.out]
    IN  IF side = "base" THEN [b EXCEPT !.x = @ + layers.maker.used, !.y = @ - layers.maker.out]
        ELSE [b EXCEPT !.y = @ + layers.maker.used, !.x = @ - layers.maker.out]

\* Into the next array: none left, too many, or one that is not in memory.
Enter(data, w, side) ==
    LET from == array_index(w.pair.active)
        ahead == Beyond(data.liquid, from, side)
        array == Nearest(ahead, side)
        edge == IF side = "base" THEN (array + 1) * BinsPerArray - 1 ELSE array * BinsPerArray
    IN  IF (needs_extension(from) /\ ~data.extension) \/ ahead = {} \/ w.arrays = SwapArrays
        THEN [w EXCEPT !.status = "exhausted"]
        ELSE IF ~(BinsOf(array) \subseteq DOMAIN w.bins) THEN [w EXCEPT !.status = "not_loaded"]
        ELSE [w EXCEPT !.arrays = @ + 1, !.array = {array},
                       !.pair.active = IF array # from THEN edge ELSE @]

\* The walk after a fill of the active bin at this price.
AfterFill(w, price, layers, excluded, side) ==
    LET s == swap_in_bin(w.pair, price, layers, excluded, w.left, side)
    IN  [w EXCEPT !.left = @ - s.consumed, !.out = @ + s.out, !.paid = @ + layers.out, !.kept = @ + layers.used,
                  !.bins[w.pair.active] = Taken(@, layers, side)]

BinPrice(pair, bin) == IF bin.price # 0 THEN bin.price ELSE price_from_id(pair.active, pair.step)
WithoutFee(w, side) == IF bin_fee_on_input(w.pair, side) THEN w.left - ceil_fee(w.left, bin_fee_rate(w.pair)) ELSE w.left

FillWith(w, bin, price, excluded, side) ==
    AfterFill(w, price, Layers(w.pair, bin, price, excluded, side), excluded, side)

FillAt(w, bin, side) == FillWith(w, bin, BinPrice(w.pair, bin), WithoutFee(w, side), side)

\* Fill the active bin if it has anything to give.
FillBin(w, side) ==
    IF max_amount_out(w.pair, w.bins[w.pair.active], side) = 0 THEN w
    ELSE FillAt([w EXCEPT !.pair = update_volatility_accumulator(@)], w.bins[w.pair.active], side)

StepBin(w, side) ==
    LET next == IF side = "base" THEN w.pair.active - 1 ELSE w.pair.active + 1
    IN  IF w.left = 0 THEN w
        ELSE IF next \notin BinIds THEN [w EXCEPT !.status = "exhausted"]
        ELSE [w EXCEPT !.pair.active = next]

Entered(data, w, side) == IF array_index(w.pair.active) \in w.array THEN w ELSE Enter(data, w, side)

Filled(w, side) == IF w.status = "walking" THEN StepBin(FillBin(w, side), side) ELSE w

\* Every step but the last moves the active bin, never back: there are no more.
MostSteps == 2 * MaxBinId + 2

BinWalk(data, start, side) ==
    LET walk[n \in 0..MostSteps] ==
            IF n = 0 THEN start
            ELSE LET w == walk[n - 1]
                 IN  IF w.status # "walking" \/ w.left = 0 THEN w ELSE Filled(Entered(data, w, side), side)
    IN  walk[MostSteps]

\* dlmm.rs swap_exact_in of an enabled pair.
dlmm_swap_exact_in(data, bins, pair, age, side, amount) ==
    BinWalk(data, [status |-> "walking", pair |-> update_references(pair, age), bins |-> bins, left |-> amount,
                   out |-> 0, paid |-> 0, kept |-> 0, arrays |-> 0, array |-> {}], side)

-----------------------------------------------------------------------------
(* Loading: pool/bins.rs                                                    *)

\* The arrays a swap walks from a bin.
arrays_for_swap(data, active, side) ==
    LET from == array_index(active)
        ahead == Beyond(data.liquid, from, side)
    IN  IF needs_extension(from) /\ ~data.extension THEN {}
        ELSE {a \in ahead : Cardinality({b \in ahead : Distance(b, from) < Distance(a, from)}) < SwapArrays}

ArraysBothWays(data, active) == UNION {arrays_for_swap(data, active, side) : side \in Sides}

\* Arrays that are known to be liquid: those outside the pair's own bitmap once
\* the extension has been read.
liquid_arrays(data, read) == {a \in data.liquid : needs_extension(a) => read}

\* From the active bin of a state and what the snapshot before had read.
plan_for(data, active, read) ==
    ArraysBothWays([liquid |-> liquid_arrays(data, read), extension |-> TRUE], active)

\* An array that the bitmap marks and that is gone is not loaded.
publish_bins(bins, planned) == [b \in {c \in DOMAIN bins : array_index(c) \in planned} |-> bins[b]]

covers_both_directions(data, bins, active) ==
    \A a \in ArraysBothWays(data, active) : BinsOf(a) \subseteq DOMAIN bins

load_dlmm_binsOnce(data, bins, active, state_active, read) == publish_bins(bins, plan_for(data, state_active, read))

\* The bins in memory after a load: the pair and its bins are read together,
\* planned from the state's active bin; where the pair has moved on too far, or
\* the extension was not known, planned again from the pair just read.
load_dlmm_bins(data, bins, active, state_active, read) ==
    LET first == publish_bins(bins, plan_for(data, state_active, read))
    IN  IF covers_both_directions(data, first, active) THEN first
        ELSE publish_bins(bins, plan_for(data, active, data.extension))
=============================================================================
