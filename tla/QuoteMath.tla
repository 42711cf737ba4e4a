----------------------------- MODULE QuoteMath -----------------------------
(***************************************************************************)
(* The arithmetic a quote and the transaction built from it share: what a  *)
(* route guarantees at its slippage, and the floors that enforce it.  All  *)
(* of it is u128 in the code, so nothing overflows here.                   *)
(***************************************************************************)
EXTENDS Naturals

BasisPoints == 10000
PPM == 1000000   \* FEE_RATE_DENOMINATOR, FEE_DENOMINATOR_PPM

div_ceil(x, y) == (x + y - 1) \div y

AtMost(x, bound) == IF x < bound THEN x ELSE bound
AtLeast(x, bound) == IF x > bound THEN x ELSE bound

\* quote/router.rs guaranteed: what the next hop may count on, never 0.
guaranteed(quoted_out, slippage_bps) ==
    AtLeast((quoted_out * (BasisPoints - AtMost(slippage_bps, 9999))) \div BasisPoints, 1)

compute_thresholdOfSlippage(out_amount, slippage_bps) ==
    (out_amount * AtMost(slippage_bps, BasisPoints)) \div BasisPoints

\* quote/types.rs compute_threshold: the quote's minimum_out, which may be 0.
compute_threshold(out_amount, slippage_bps) ==
    (out_amount * (BasisPoints - AtMost(slippage_bps, BasisPoints))) \div BasisPoints

\* api/swap.rs hop_floor: the venue's minimum on a hop that is not the last.
hop_floor(hop_out, slippage_bps) == AtLeast(guaranteed(hop_out, slippage_bps), 1)
=============================================================================
