---------------------------- MODULE VaultShares ----------------------------
(***************************************************************************)
(* Meteora's dynamic AMM: quote/meteora_std.rs.  The pool owns LP shares of*)
(* two vaults that other pools share; a swap deposits into one vault and   *)
(* withdraws from the other, and every conversion rounds down.             *)
(*                                                                         *)
(* share[s] is the vault of side s with the pool's part of it: total,      *)
(* lp_supply, pool_lp, and the locked profit with the ratio of it that has *)
(* been released.                                                          *)
(***************************************************************************)
EXTENDS CurveQuotes

locked_profit(v) ==
    IF v.released > ProfitScale THEN 0
    ELSE (v.last_locked_profit * (ProfitScale - v.released)) \div ProfitScale

unlocked_amount(v) == AtLeast(v.total - locked_profit(v), 0)

amount_by_share(v) ==
    IF v.lp_supply = 0 THEN 0 ELSE (v.pool_lp * unlocked_amount(v)) \div v.lp_supply

unmint_amount(v, amount) == (amount * v.lp_supply) \div unlocked_amount(v)

\* The vault after a deposit or a withdrawal through the pool.
Deposited(v, amount, minted) ==
    [v EXCEPT !.total = @ + amount, !.lp_supply = @ + minted, !.pool_lp = @ + minted]

Withdrawn(v, amount, burned) ==
    [v EXCEPT !.total = @ - amount, !.lp_supply = @ - burned, !.pool_lp = @ - burned]

trade_fee(pool, amount) == FlooredFee(amount, pool.num, pool.den)
protocol_fee(pool, amount) == FlooredFee(trade_fee(pool, amount), pool.protocol_num, pool.protocol_den)

\* The share the input is worth in its vault, less the LP part of the fee.
ActualIn(pool, vin, amount) ==
    LET deposit == amount - protocol_fee(pool, amount)
        after == Deposited(vin, deposit, unmint_amount(vin, deposit))
    IN  amount_by_share(after) - amount_by_share(vin)
        - (trade_fee(pool, amount) - protocol_fee(pool, amount))

\* spl constant_product::swap: the reserve left behind is rounded up.
CurveOut(reserve_in, reserve_out, actual_in) ==
    reserve_out - div_ceil(reserve_in * reserve_out, reserve_in + actual_in)

SharesReady(share) ==
    \A s \in Sides : share[s].lp_supply > 0 /\ amount_by_share(share[s]) > 0

MeteoraStd(pool, share, side, amount) ==
    LET vin == share[side]
        vout == share[Across(side)]
        actual_in == ActualIn(pool, vin, amount)
        dest == CurveOut(amount_by_share(vin), amount_by_share(vout), actual_in)
        burned == unmint_amount(vout, dest)
        out == (burned * unlocked_amount(vout)) \div vout.lp_supply
    IN  IF ~SharesReady(share) THEN NoQuote
        ELSE IF \/ protocol_fee(pool, amount) > trade_fee(pool, amount)
                \/ protocol_fee(pool, amount) > amount
                \/ actual_in < 0 \/ dest <= 0 \/ out >= amount_by_share(vout)
        THEN NoQuote
        ELSE Quoting(out, amount - protocol_fee(pool, amount), out)
=============================================================================
